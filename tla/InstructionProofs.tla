------------------------- MODULE InstructionProofs -------------------------
(***************************************************************************)
(* Every instruction does the same in compiled code and in the             *)
(* interpreter, for every machine, operand and constant: the lemmas that   *)
(* lead there.                                                             *)
(*                                                                         *)
(* The opcode map first: the row the decoder has for an opcode and the     *)
(* case the interpreter has for it give the same operation, operands,      *)
(* length and cycles.  Then the work of each group of instructions         *)
(* (Works): what emitInstruction makes of a machine, the interpreter makes *)
(* of the same machine with pc behind the opcode.  Transfers, PUSH and POP *)
(* differ in the order and the time of their accesses, and have forms of   *)
(* their own; CB instructions on memory only in the time.  Outcome says    *)
(* what is common to all of them: EveryInstructionDoesTheSame.             *)
(***************************************************************************)
EXTENDS Backends, TLAPS

-----------------------------------------------------------------------------
(* Machines *)

Byte == 0..255
Reg8 == {"A", "B", "C", "D", "E", "H", "L"}
Registers8 == [Reg8 -> Byte]
Memory == UNION {[cells -> Byte] : cells \in SUBSET Word}
Access == [op : {"read", "write"}, addr : Word, val : Byte, at : Nat]
Log == Seq(Access)
Machine ==
    [reg : Registers8, flag : Flags, sp : Word, pc : Word, ime : {0, 1}, cycles : Nat,
     ram : Memory, log : Log, lowFirst : BOOLEAN]

\* The accesses of the instruction that is executed, all at one time.
Stamped(log, at) == \A k \in DOMAIN log : log[k].at = at

\* A machine that an instruction works on, and x, what a step of its work makes of n:
\* the address and the cycles come last.
Good(n) == n \in Machine /\ Stamped(n.log, n.cycles)
From(n, x) == Good(x) /\ x.pc = n.pc /\ x.cycles = n.cycles /\ x.lowFirst = n.lowFirst

\* The interpreter has gone past the opcode when it does the work.
At(n, p) == [n EXCEPT !.pc = p]

\* The intervals, as their bounds: what the arithmetic of the proofs needs.
LEMMA WordIs == \A x : x \in Word <=> x \in Int /\ 0 <= x /\ x <= 65535
<1>1. 2^16 = 65536
  BY SMT
<1> QED BY <1>1 DEF Word

LEMMA ByteIs == \A x : x \in Byte <=> x \in Int /\ 0 <= x /\ x <= 255
BY DEF Byte

LEMMA GoodIsFrom == ASSUME NEW n, Good(n) PROVE From(n, n)
BY DEF From

LEMMA FromFrom == ASSUME NEW n, NEW x, NEW y, From(n, x), From(x, y) PROVE From(n, y)
BY DEF From

LEMMA GoodFields ==
    ASSUME NEW n, Good(n)
    PROVE  /\ n.reg \in Registers8 /\ \A r \in Reg8 : n.reg[r] \in Byte
           /\ n.flag \in Flags /\ n.sp \in Word /\ n.pc \in Word /\ n.ime \in {0, 1}
           /\ n.cycles \in Nat /\ n.ram \in Memory /\ n.log \in Log /\ n.lowFirst \in BOOLEAN
           /\ n.flag.Z \in BOOLEAN /\ n.flag.N \in BOOLEAN /\ n.flag.H \in BOOLEAN /\ n.flag.C \in BOOLEAN
<1>1. /\ n.reg \in Registers8 /\ n.flag \in Flags /\ n.sp \in Word /\ n.pc \in Word /\ n.ime \in {0, 1}
      /\ n.cycles \in Nat /\ n.ram \in Memory /\ n.log \in Log /\ n.lowFirst \in BOOLEAN
  BY DEF Good, Machine
<1> QED BY <1>1 DEF Registers8, Flags

\* What an instruction's work may set, one field at a time.
LEMMA SetReg ==
    ASSUME NEW n, Good(n), NEW r \in Reg8, NEW v \in Byte
    PROVE  From(n, [n EXCEPT !.reg[r] = v])
<1>1. [n.reg EXCEPT ![r] = v] \in Registers8
  BY DEF Good, Machine, Registers8
<1> QED BY <1>1 DEF Good, From, Machine

LEMMA SetFlag ==
    ASSUME NEW n, Good(n), NEW f \in Flags
    PROVE  From(n, [n EXCEPT !.flag = f])
BY DEF Good, From, Machine

LEMMA SetSp ==
    ASSUME NEW n, Good(n), NEW w \in Word
    PROVE  From(n, [n EXCEPT !.sp = w])
BY DEF Good, From, Machine

LEMMA SetIme ==
    ASSUME NEW n, Good(n), NEW b \in {0, 1}
    PROVE  From(n, [n EXCEPT !.ime = b])
BY DEF Good, From, Machine

LEMMA SetPc ==
    ASSUME NEW n, Good(n), NEW p \in Word
    PROVE  /\ Good(At(n, p)) /\ At(n, p).pc = p /\ At(n, p).cycles = n.cycles
           /\ At(n, p).reg = n.reg /\ At(n, p).flag = n.flag /\ At(n, p).sp = n.sp
           /\ At(n, p).ram = n.ram /\ At(n, p).log = n.log /\ At(n, p).lowFirst = n.lowFirst
BY DEF Good, Machine, At
-----------------------------------------------------------------------------
(* The bus *)

\* The regions of the bus, by their bounds (ram.c read_ram and write_ram).
LEMMA Regions ==
    ASSUME NEW a \in Int
    PROVE  /\ a \in E!EchoRam <=> 57344 <= a /\ a <= 65023
           /\ a \in E!Rom <=> 0 <= a /\ a <= 32767
           /\ E!IsRegister(a) <=> \/ 65296 <= a /\ a <= 65343
                                  \/ 65284 <= a /\ a <= 65287
                                  \/ 65344 <= a /\ a <= 65355
                                  \/ a \in {65280, 65295, 65535}
<1>1. a \in E!EchoRam <=> 57344 <= a /\ a <= 65023
  BY SMTT(30) DEF E!EchoRam
<1>2. a \in E!Rom <=> 0 <= a /\ a <= 32767
  BY SMTT(30) DEF E!Rom
<1>3. E!IsRegister(a) <=> \/ 65296 <= a /\ a <= 65343
                          \/ 65284 <= a /\ a <= 65287
                          \/ 65344 <= a /\ a <= 65355
                          \/ a \in {65280, 65295, 65535}
  BY DEF E!IsRegister, E!Sound, E!Clock, E!Picture
<1> QED BY <1>1, <1>2, <1>3

\* Compiled code's runtime calls and the interpreter use the same bus.
LEMMA SameBus ==
    ASSUME NEW n, NEW a \in Word
    PROVE  /\ L!IsRegister(a) = E!IsRegister(a)
           /\ L!read_ram(n, a) = E!read_ram(n, a)
           /\ L!AfterRead(n, a) = E!AfterRead(n, a)
           /\ \A v : L!write_ram(n, a, v) = E!write_ram(n, a, v)
<1>1. L!IsRegister(a) = E!IsRegister(a)
  BY DEF L!IsRegister, E!IsRegister, L!Sound, E!Sound, L!Clock, E!Clock, L!Picture, E!Picture
<1>2. L!Cell(a) = E!Cell(a)
  BY DEF L!Cell, E!Cell, L!EchoRam, E!EchoRam
<1>3. L!read_ram(n, a) = E!read_ram(n, a)
  BY <1>1, <1>2 DEF L!read_ram, E!read_ram, L!DeviceValue, E!DeviceValue, L!ram, E!ram
<1>4. \A o, v : L!Logged(n, o, a, v) = E!Logged(n, o, a, v)
  BY <1>1 DEF L!Logged, E!Logged
<1>5. \A b, v : L!store(n, b, v) = E!store(n, b, v)
  BY DEF L!store, E!store
<1>6. a \in L!Rom <=> a \in E!Rom
  <2>1. a \in Int
    BY WordIs
  <2>2. a \in L!Rom <=> 0 <= a /\ a <= 32767
    BY <2>1, SMTT(30) DEF L!Rom
  <2> QED BY <2>1, <2>2, Regions
<1>7. L!AfterRead(n, a) = E!AfterRead(n, a)
  BY <1>3, <1>4 DEF L!AfterRead, E!AfterRead
<1>8. \A v : L!write_ram(n, a, v) = E!write_ram(n, a, v)
  BY <1>1, <1>2, <1>4, <1>5, <1>6 DEF L!write_ram, E!write_ram
<1> QED
  BY <1>1, <1>3, <1>7, <1>8

\* Compiled code reads the array itself where there is neither register nor echo.
LEMMA SameRead ==
    ASSUME NEW n, NEW a \in Word
    PROVE  L!readMemory(n, a) = E!read_ram(n, a)
<1>1. a \in Int
  BY WordIs
<1>2. CASE a >= 57344
  BY <1>2, SameBus DEF L!readMemory, L!cg_read_memory
<1>3. CASE ~(a >= 57344)
  <2>1. ~E!IsRegister(a) /\ E!Cell(a) = a
    BY <1>1, <1>3, Regions DEF E!Cell
  <2> QED BY <1>3, <2>1 DEF L!readMemory, L!cg_read_memory, L!ram, E!ram, E!read_ram
<1> QED BY <1>2, <1>3

\* Cells are addresses, and hold bytes.
LEMMA CellType == ASSUME NEW a \in Word PROVE E!Cell(a) \in Word
BY WordIs, Regions DEF E!Cell

LEMMA RamType == ASSUME NEW n, Good(n), NEW a PROVE E!ram(n, a) \in Byte
<1>1. n.ram \in Memory
  BY GoodFields
<1>2. PICK cells \in SUBSET Word : n.ram \in [cells -> Byte]
  BY <1>1 DEF Memory
<1> QED BY <1>2, ByteIs DEF E!ram

LEMMA ReadType == ASSUME NEW n, Good(n), NEW a \in Word PROVE E!read_ram(n, a) \in Byte
BY RamType, WordIs, ByteIs DEF E!read_ram, E!DeviceValue

\* Accesses leave a machine that the rest of the instruction can work on.
LEMMA LoggedKeeps ==
    ASSUME NEW n, Good(n), NEW o \in {"read", "write"}, NEW a \in Word, NEW v \in Byte
    PROVE  From(n, E!Logged(n, o, a, v))
<1>1. CASE E!IsRegister(a)
  <2> DEFINE x == [op |-> o, addr |-> a, val |-> v, at |-> n.cycles]
  <2>1. n.log \in Seq(Access) /\ Stamped(n.log, n.cycles) /\ n.cycles \in Nat
    BY DEF Good, Machine, Log
  <2>2. x \in Access /\ x.at = n.cycles
    BY <2>1 DEF Access
  <2>3. E!Logged(n, o, a, v) = [n EXCEPT !.log = Append(n.log, x)]
    BY <1>1 DEF E!Logged
  <2> HIDE DEF x
  <2>4. Append(n.log, x) \in Log
    BY <2>1, <2>2 DEF Log
  <2>5. Stamped(Append(n.log, x), n.cycles)
    BY <2>1, <2>2 DEF Stamped
  <2> QED BY <2>3, <2>4, <2>5 DEF From, Good, Machine
<1>2. CASE ~E!IsRegister(a)
  BY <1>2 DEF E!Logged, From
<1> QED BY <1>1, <1>2

LEMMA StoreKeeps ==
    ASSUME NEW n, Good(n), NEW a \in Word, NEW v \in Byte
    PROVE  From(n, E!store(n, a, v))
<1>1. n.ram \in Memory
  BY GoodFields
<1>2. PICK cells \in SUBSET Word : n.ram \in [cells -> Byte]
  BY <1>1 DEF Memory
<1>3. [b \in DOMAIN n.ram \cup {a} |-> IF b = a THEN v ELSE n.ram[b]] \in [cells \cup {a} -> Byte]
  BY <1>2
<1>4. cells \cup {a} \in SUBSET Word
  BY <1>2
<1>5. [b \in DOMAIN n.ram \cup {a} |-> IF b = a THEN v ELSE n.ram[b]] \in Memory
  BY <1>3, <1>4 DEF Memory
<1> QED BY <1>5 DEF E!store, From, Good, Machine

LEMMA WriteIs ==
    ASSUME NEW n, NEW a \in Word, NEW v
    PROVE  E!write_ram(n, a, v) = IF E!IsRegister(a) THEN E!Logged(n, "write", a, v)
                                  ELSE IF a \in E!Rom THEN n ELSE E!store(n, E!Cell(a), v)
<1>1. CASE E!IsRegister(a)
  <2>1. a \notin E!Rom
    BY <1>1, WordIs, Regions
  <2> QED BY <1>1, <2>1 DEF E!write_ram
<1>2. CASE ~E!IsRegister(a)
  BY <1>2 DEF E!write_ram
<1> QED BY <1>1, <1>2

LEMMA WriteKeeps ==
    ASSUME NEW n, Good(n), NEW a \in Word, NEW v \in Byte
    PROVE  From(n, E!write_ram(n, a, v))
<1>1. From(n, n) /\ From(n, E!Logged(n, "write", a, v)) /\ From(n, E!store(n, E!Cell(a), v))
  BY GoodIsFrom, LoggedKeeps, StoreKeeps, CellType
<1> QED BY <1>1, WriteIs

LEMMA ReadKeeps ==
    ASSUME NEW n, Good(n), NEW a \in Word
    PROVE  From(n, E!AfterRead(n, a))
BY ReadType, LoggedKeeps DEF E!AfterRead
-----------------------------------------------------------------------------
(* What memory does not see: pc *)

\* The interpreter's pc is further on when it accesses memory, which the bus does not see.
LEMMA LoggedAt ==
    ASSUME NEW n, Good(n), NEW p \in Word, NEW o, NEW a, NEW v
    PROVE  E!Logged(At(n, p), o, a, v) = At(E!Logged(n, o, a, v), p)
<1>1. CASE ~E!IsRegister(a)
  BY <1>1 DEF E!Logged
<1>2. CASE E!IsRegister(a)
  <2> DEFINE x == [op |-> o, addr |-> a, val |-> v, at |-> n.cycles]
  <2>1. E!Logged(n, o, a, v) = [n EXCEPT !.log = Append(n.log, x)]
    BY <1>2 DEF E!Logged
  <2>2. E!Logged(At(n, p), o, a, v) = [At(n, p) EXCEPT !.log = Append(n.log, x)]
    BY <1>2, SetPc DEF E!Logged
  <2> HIDE DEF x
  <2> QED BY <2>1, <2>2 DEF At
<1> QED BY <1>1, <1>2

LEMMA WriteAt ==
    ASSUME NEW n, Good(n), NEW p \in Word, NEW a \in Word, NEW v
    PROVE  E!write_ram(At(n, p), a, v) = At(E!write_ram(n, a, v), p)
<1>1. E!store(At(n, p), E!Cell(a), v) = At(E!store(n, E!Cell(a), v), p)
  BY DEF E!store, At
<1> QED BY <1>1, LoggedAt, WriteIs

LEMMA ReadAt ==
    ASSUME NEW n, Good(n), NEW p \in Word, NEW a
    PROVE  /\ E!read_ram(At(n, p), a) = E!read_ram(n, a)
           /\ E!AfterRead(At(n, p), a) = At(E!AfterRead(n, a), p)
<1>1. E!read_ram(At(n, p), a) = E!read_ram(n, a)
  BY SetPc DEF E!read_ram, E!ram
<1> QED BY <1>1, LoggedAt DEF E!AfterRead

-----------------------------------------------------------------------------
(* The two ways through one instruction *)

\* The instruction i is where the machine is, opcode op first.
Fetched(n, i, op) ==
    /\ Good(n) /\ n.pc + 2 <= 32767
    /\ op \in Byte /\ E!ram(n, n.pc) = op
    /\ i.len = 2 => i.imm \in Byte /\ E!ram(n, n.pc + 1) = i.imm
    /\ i.len = 3 => /\ i.imm \in Word
                    /\ E!ram(n, n.pc + 1) = i.imm % 256 /\ E!ram(n, n.pc + 2) = i.imm \div 256

\* The decoder's i is the interpreter's case for op.
Agrees(i, op) ==
    /\ op # 203 /\ E!Switch[op].operation = i.type /\ E!CaseOperands(op) = i.operands
    /\ E!Switch[op].len = i.len /\ E!Switch[op].cycles = i.cycles /\ E!Switch[op].extra = i.extra
    /\ (E!Switch[op].continue <=> i.type \in L!Terminators)
    /\ i.len \in 1..3 /\ i.cycles \in Nat /\ i.extra \in Nat

\* n where the interpreter does the work.
Past(n) == At(n, n.pc + 1)

\* The interpreter has fetched the opcode: one further, inside the cartridge.
LEMMA PastOpcode ==
    ASSUME NEW n, NEW i, NEW op, Fetched(n, i, op)
    PROVE  /\ Good(n) /\ n.pc + 1 \in Word /\ n.pc \in Int
           /\ E!skip(n, 1) = Past(n) /\ Good(Past(n)) /\ Past(n).pc = n.pc + 1
<1>1. n.pc \in Word /\ Good(n) /\ n.pc + 2 <= 32767
  BY GoodFields DEF Fetched
<1>2. n.pc + 1 \in Word /\ n.pc \in Int /\ E!Trunc16(n.pc + 1) = n.pc + 1
  BY <1>1, WordIs DEF E!Trunc16
<1> QED BY <1>1, <1>2, SetPc DEF E!skip, Past, At

\* The constant it reads behind the opcode is the one the decoder has put in the instruction.
LEMMA Constants ==
    ASSUME NEW n, NEW i, NEW op, Fetched(n, i, op)
    PROVE  /\ i.len = 2 => E!byte(Past(n)) = i.imm
           /\ i.len = 3 => E!word(Past(n)) = i.imm /\ E!AfterRead16(Past(n), Past(n).pc) = Past(n)
<1> DEFINE p == n.pc + 1
<1>1. Good(n) /\ n.pc + 2 <= 32767 /\ n.pc \in Int /\ n.pc >= 0 /\ Past(n).pc = p /\ p \in Word
  BY PastOpcode, GoodFields, WordIs DEF Fetched
<1>2. Past(n).ram = n.ram
  BY <1>1, SetPc DEF Past
<1>3. E!Trunc16(p + 1) = p + 1
  BY <1>1 DEF E!Trunc16
<1>4. ~E!IsRegister(p) /\ ~E!IsRegister(p + 1) /\ E!Cell(p) = p /\ E!Cell(p + 1) = p + 1
  BY <1>1, Regions DEF E!Cell
<1>5. \A a : ~E!IsRegister(a) => E!AfterRead(Past(n), a) = Past(n)
  BY DEF E!AfterRead, E!Logged
<1>6. \A a : E!ram(Past(n), a) = E!ram(n, a)
  BY <1>2 DEF E!ram
<1>7. E!byte(Past(n)) = E!ram(n, p)
  BY <1>1, <1>6 DEF E!byte
<1>8. E!word(Past(n)) = 256 * E!ram(n, p + 1) + E!ram(n, p)
  BY <1>1, <1>3, <1>4, <1>6 DEF E!word, E!read16, E!read_ram, E!Join
<1>9. E!AfterRead16(Past(n), p) = Past(n)
  BY <1>3, <1>4, <1>5 DEF E!AfterRead16
<1>10. ASSUME i.len = 3 PROVE 256 * E!ram(n, p + 1) + E!ram(n, p) = i.imm
  <2>1. i.imm \in Int /\ E!ram(n, p) = i.imm % 256 /\ E!ram(n, p + 1) = i.imm \div 256
    BY <1>1, <1>10, WordIs DEF Fetched
  <2> QED BY <2>1
<1> QED BY <1>1, <1>7, <1>8, <1>9, <1>10 DEF Fetched

Works(n, i, op) ==
    /\ From(n, L!emitInstruction(n, i))
    /\ E!Work(Past(n), E!Switch[op], op) = At(L!emitInstruction(n, i), n.pc + 1)

\* x when its cycles are added and it has gone to p.
Finish(x, c, p) == [x EXCEPT !.cycles = @ + c, !.pc = p]

\* The interpreter ends an instruction with its cycles and its address.
LEMMA AddBothAt ==
    ASSUME NEW x, Good(x), NEW c \in Nat, NEW p, NEW k
    PROVE  E!skip(E!spend(At(x, p), c), k) = Finish(x, c, E!Trunc16(p + k))
BY DEF Good, Machine, At, E!skip, E!spend, Finish

\* Compiled code does the same in the other order.
LEMMA AddBoth ==
    ASSUME NEW x, Good(x), NEW c \in Nat, NEW k
    PROVE  [L!increaseCycles(x, c) EXCEPT !.pc = L!Trunc16(@ + k)] = Finish(x, c, E!Trunc16(x.pc + k))
<1>1. L!increaseCycles(x, c).pc = x.pc
  BY DEF Good, Machine, L!increaseCycles
<1>2. L!Trunc16(x.pc + k) = E!Trunc16(x.pc + k)
  BY DEF L!Trunc16, E!Trunc16
<1> DEFINE y == L!increaseCycles(x, c)
           t == E!Trunc16(x.pc + k)
<1>3. L!Trunc16(y.pc + k) = t
  BY <1>1, <1>2
<1>4. [y EXCEPT !.pc = L!Trunc16(@ + k)] = [y EXCEPT !.pc = t]
  BY <1>3
<1> HIDE DEF t
<1>5. [y EXCEPT !.pc = t] = Finish(x, c, t)
  BY DEF L!increaseCycles, Finish
<1> HIDE DEF y
<1>6. [y EXCEPT !.pc = L!Trunc16(@ + k)] = Finish(x, c, t)
  BY <1>4, <1>5
<1> QED BY <1>6 DEF t, y

LEMMA FinishType ==
    ASSUME NEW x, Good(x), NEW c \in Nat, NEW p \in Word
    PROVE  LET y == Finish(x, c, p)
           IN  /\ y \in Machine /\ y.pc = p /\ y.cycles = x.cycles + c /\ Stamped(y.log, x.cycles)
               /\ y.log = x.log /\ y.reg = x.reg /\ y.flag = x.flag /\ y.sp = x.sp /\ y.ram = x.ram
               /\ y.ime = x.ime /\ y.lowFirst = x.lowFirst
<1>1. x \in Machine /\ Stamped(x.log, x.cycles) /\ x.cycles + c \in Nat
  BY DEF Good, Machine
<1>2. Finish(x, c, p) \in Machine
  BY <1>1 DEF Machine, Finish
<1>3. /\ Finish(x, c, p).log = x.log /\ Finish(x, c, p).reg = x.reg /\ Finish(x, c, p).flag = x.flag
      /\ Finish(x, c, p).sp = x.sp /\ Finish(x, c, p).ram = x.ram /\ Finish(x, c, p).ime = x.ime
      /\ Finish(x, c, p).lowFirst = x.lowFirst /\ Finish(x, c, p).pc = p
      /\ Finish(x, c, p).cycles = x.cycles + c
  BY <1>1 DEF Machine, Finish
<1> QED BY <1>1, <1>2, <1>3

\* An instruction that is no transfer does the same in both, if its work is the same.
LEMMA Tail1 ==
    ASSUME NEW n, NEW i, NEW op, Fetched(n, i, op), Agrees(i, op), i.type \notin L!Terminators,
           Works(n, i, op)
    PROVE  LET y == Finish(L!emitInstruction(n, i), i.cycles, E!Trunc16(n.pc + i.len))
           IN  L!Run(n, i) = y /\ E!Run(n) = y
<1> DEFINE x == L!emitInstruction(n, i)
           p == n.pc + 1
           k == i.len - 1
<1>1. Good(x) /\ x.pc = n.pc /\ n.pc \in Nat /\ i.len \in 1..3 /\ i.cycles \in Nat
  BY GoodFields, WordIs DEF Works, From, Agrees
<1>2. L!Run(n, i) = [L!increaseCycles(x, i.cycles) EXCEPT !.pc = L!Trunc16(@ + i.len)]
  BY DEF L!Run, L!IsBlockTerminator, L!buildOpcodeFunc
<1>3. E!Run(n) = E!skip(E!spend(At(x, p), i.cycles), k)
  <2>1. E!ram(n, n.pc) = op /\ ~E!Switch[op].continue /\ op # 203 /\ E!Switch[op].cycles = i.cycles /\ E!Switch[op].len = i.len
    BY DEF Fetched, Agrees
  <2>2. E!Run(n) = E!skip(E!spend(E!Work(Past(n), E!Switch[op], op), i.cycles), i.len - 1)
    BY <2>1, PastOpcode DEF E!Run
  <2> QED BY <2>2 DEF Works
<1>4. p + k = n.pc + i.len
  BY <1>1
<1> HIDE DEF x, p, k
<1>5. L!Run(n, i) = Finish(x, i.cycles, E!Trunc16(n.pc + i.len))
  BY <1>1, <1>2, AddBoth
<1>6. E!Run(n) = Finish(x, i.cycles, E!Trunc16(p + k))
  BY <1>1, <1>3, AddBothAt
<1> QED BY <1>4, <1>5, <1>6 DEF x

-----------------------------------------------------------------------------
(* The opcode map: the decoder's rows and the interpreter's cases *)

SameAs(r, s) == s.operation = r.type /\ s.len = r.len /\ s.cycles = r.cycles /\ s.extra = r.extra

\* A row of the decoder's table and a case of the interpreter's switch that share an
\* opcode agree on operation, length, cycles and the cycles of a branch that is taken.
LEMMA LoadCases == \A r \in O!LoadRows, s \in E!Cases : \A op \in 0..255 : op \in r.ops /\ op \in s.ops => SameAs(r, s) /\ ~s.continue
BY SMTT(120) DEF SameAs, O!LoadRows, O!Row, O!Column, O!R8Src, O!R8Dest, O!LD_R8_R8_Ops, E!Cases, E!LowCases, E!LoadCases, E!AluCases, E!HighCases, E!Case, E!Continue, E!Every, E!Registers

LEMMA WordCases == \A r \in O!WordRows, s \in E!Cases : \A op \in 0..255 : op \in r.ops /\ op \in s.ops => SameAs(r, s) /\ ~s.continue
BY SMTT(120) DEF SameAs, O!WordRows, O!Row, O!Column, O!R16, E!Cases, E!LowCases, E!LoadCases, E!AluCases, E!HighCases, E!Case, E!Continue, E!Every, E!Registers

LEMMA ArithmeticCases == \A r \in O!ArithmeticRows, s \in E!Cases : \A op \in 0..255 : op \in r.ops /\ op \in s.ops => SameAs(r, s) /\ ~s.continue
BY SMTT(120) DEF SameAs, O!ArithmeticRows, O!Row, O!Column, O!R8Src, O!R8Dest, E!Cases, E!LowCases, E!LoadCases, E!AluCases, E!HighCases, E!Case, E!Continue, E!Every, E!Registers

LEMMA LogicCases == \A r \in O!LogicRows, s \in E!Cases : \A op \in 0..255 : op \in r.ops /\ op \in s.ops => SameAs(r, s) /\ ~s.continue
BY SMTT(120) DEF SameAs, O!LogicRows, O!Row, O!Column, O!R8Src, O!R8Dest, E!Cases, E!LowCases, E!LoadCases, E!AluCases, E!HighCases, E!Case, E!Continue, E!Every, E!Registers

LEMMA JumpCases == \A r \in O!JumpRows, s \in E!Cases : \A op \in 0..255 : op \in r.ops /\ op \in s.ops => SameAs(r, s) /\ (s.continue <=> r.type \in L!Terminators)
BY SMTT(120) DEF SameAs, O!JumpRows, O!Row, O!CondRow, O!Column, O!CC, L!Terminators, E!Cases, E!LowCases, E!LoadCases, E!AluCases, E!HighCases, E!Case, E!Continue, E!Every, E!Registers

Holes == {203, 211, 219, 221, 227, 228, 235, 236, 237, 244, 252, 253}

\* The switch has a case for every opcode the processor has.
LEMMA LowCase == \A op \in Int : 0 <= op /\ op <= 63 => \E s \in E!LowCases : op \in s.ops
BY SMTT(120) DEF E!LowCases, E!Case, E!Continue, E!Every

LEMMA LoadCase == \A op \in Int : 64 <= op /\ op <= 127 => \E s \in E!LoadCases : op \in s.ops
BY SMTT(120) DEF E!LoadCases, E!Case, E!Continue, E!Every, E!Registers

LEMMA AluCase == \A op \in Int : 128 <= op /\ op <= 191 => \E s \in E!AluCases : op \in s.ops
BY SMTT(120) DEF E!AluCases, E!Case, E!Continue, E!Every, E!Registers

LEMMA HighCase == \A op \in Int : 192 <= op /\ op <= 255 /\ op \notin Holes => \E s \in E!HighCases : op \in s.ops
BY SMTT(120) DEF Holes, E!HighCases, E!Case, E!Continue, E!Every, E!Registers

LEMMA NoHole == \A r \in O!Rows : \A op \in r.ops : op \in Int /\ 0 <= op /\ op <= 255 /\ op \notin Holes
BY SMTT(120) DEF Holes, O!Rows, O!LoadRows, O!WordRows, O!ArithmeticRows, O!LogicRows, O!JumpRows, O!Row, O!CondRow, O!Column, O!R8Src, O!R8Dest, O!R16, O!CC, O!LD_R8_R8_Ops

R8Column  == {"LD_R8_N", "LD_R8_HL", "INC_R8", "DEC_R8"}
AluR8  == {"ADD_R8", "ADC_R8", "SUB_R8", "SBC_R8", "CP_R8", "AND_R8", "OR_R8", "XOR_R8"}
AluHL == {"ADD_HL", "ADC_HL", "SUB_HL", "SBC_HL", "CP_HL", "AND_HL", "OR_HL", "XOR_HL"}
AluN == {"ADD_N", "ADC_N", "SUB_N", "SBC_N", "CP_N", "AND_N", "OR_N", "XOR_N"}
Pairs == {"LD_R16_NN", "INC_R16", "DEC_R16", "ADD_HL_R16"}
Stacked == {"PUSH_R16", "POP_R16"}
Conditional == {"JP_CC_NN", "JR_CC_E", "CALL_CC_NN", "RET_CC"}
Named == R8Column \cup AluR8 \cup AluHL \cup Pairs \cup Stacked \cup Conditional
         \cup {"LD_R8_R8", "LD_HL_R8", "INC_HL", "DEC_HL", "RST_N"}

\* Where a row's opcodes are in the opcode map.
Placed(t, extra, op) ==
    /\ op \in 128..191 <=> t \in AluR8 \cup AluHL
    /\ extra > 0 <=> t \in Conditional
    /\ op < 64 /\ op % 8 \in {4, 5, 6} <=> t \in {"LD_R8_N", "INC_R8", "DEC_R8", "INC_HL", "DEC_HL", "LD_HL_N"}
    /\ op < 64 /\ op % 16 \in {1, 3, 9, 11} <=> t \in Pairs
    /\ op >= 192 /\ op % 16 \in {1, 5} <=> t \in Stacked
\* Which registers they name: not the sixth.
NamesRegisters(t, op) ==
    /\ t = "LD_R8_R8" => op % 8 # 6 /\ (op \div 8) % 8 # 6
    /\ t \in {"LD_R8_N", "LD_R8_HL", "INC_R8", "DEC_R8"} => (op \div 8) % 8 # 6
    /\ t \in AluR8 \cup {"LD_HL_R8"} => op % 8 # 6
    /\ t \in AluHL => op % 8 = 6
    /\ t \in {"INC_HL", "DEC_HL"} => op \in {52, 53}

\* The opcodes of every row are where Placed says.
LEMMA LoadPlaces == \A r \in O!LoadRows : \A op \in r.ops : Placed(r.type, r.extra, op) /\ NamesRegisters(r.type, op)
BY SMTT(120) DEF Placed, NamesRegisters, AluR8, AluHL, Pairs, Stacked, Conditional, O!LoadRows, O!Row, O!Column, O!R8Src, O!R8Dest, O!LD_R8_R8_Ops

LEMMA WordPlaces == \A r \in O!WordRows : \A op \in r.ops : Placed(r.type, r.extra, op) /\ NamesRegisters(r.type, op)
BY SMTT(120) DEF Placed, NamesRegisters, AluR8, AluHL, Pairs, Stacked, Conditional, O!WordRows, O!Row, O!Column, O!R16

LEMMA ArithmeticPlaces == \A r \in O!ArithmeticRows : \A op \in r.ops : Placed(r.type, r.extra, op) /\ NamesRegisters(r.type, op)
BY SMTT(120) DEF Placed, NamesRegisters, AluR8, AluHL, Pairs, Stacked, Conditional, O!ArithmeticRows, O!Row, O!Column, O!R8Src, O!R8Dest

LEMMA LogicPlaces == \A r \in O!LogicRows : \A op \in r.ops : Placed(r.type, r.extra, op) /\ NamesRegisters(r.type, op)
BY SMTT(120) DEF Placed, NamesRegisters, AluR8, AluHL, Pairs, Stacked, Conditional, O!LogicRows, O!Row, O!Column, O!R8Src, O!R8Dest

LEMMA JumpPlaces == \A r \in O!JumpRows : \A op \in r.ops : Placed(r.type, r.extra, op) /\ NamesRegisters(r.type, op)
BY SMTT(120) DEF Placed, NamesRegisters, AluR8, AluHL, Pairs, Stacked, Conditional, O!JumpRows, O!Row, O!CondRow, O!Column, O!CC

Typed(t, o) ==
    /\ t = "LD_R8_R8" => \E r, s \in Reg8 : o = <<r, s>>
    /\ t \in R8Column \cup AluR8 \cup {"LD_HL_R8"} => \E r \in Reg8 : o = <<r>>
    /\ t \in AluHL \cup {"INC_HL", "DEC_HL"} => o = <<"(HL)">>
    /\ t \in Pairs => \E r \in {"BC", "DE", "HL", "SP"} : o = <<r>>
    /\ t \in Stacked => \E r \in {"BC", "DE", "HL", "AF"} : o = <<r>>
    /\ t \in Conditional => \E cc \in {"NZ", "Z", "NC", "C"} : o = <<cc>>
    /\ t = "RST_N" => \E k \in 0..7 : o = <<8 * k>>
    /\ t \notin Named => o = <<>>

\* The names of registers and conditions in an opcode are read the same.
LEMMA ByteNames ==
    ASSUME NEW op \in Int
    PROVE  /\ O!reg8FromEncoding(op) = E!get_reg8(op)
           /\ op % 8 # 6 => O!reg8FromEncoding(op) \in Reg8
           /\ op % 8 = 6 => O!reg8FromEncoding(op) = "(HL)"
BY DEF O!reg8FromEncoding, E!get_reg8, E!R8Names, Reg8

LEMMA LowNames ==
    ASSUME NEW op \in Int, 0 <= op, op < 64
    PROVE  /\ O!reg8FromEncoding(op \div 8) = E!R8Names[1 + op \div 8]
           /\ O!reg16FromEncoding(op \div 16) = E!PairNames[1 + op \div 16]
           /\ O!reg16FromEncoding(op \div 16) \in {"BC", "DE", "HL", "SP"}
BY DEF O!reg8FromEncoding, E!R8Names, O!reg16FromEncoding, E!PairNames

LEMMA StackNames ==
    ASSUME NEW op \in Int, 192 <= op, op <= 255, op % 16 \in {1, 5}
    PROVE  /\ O!StackRegister(op) = E!StackNames[1 + (op - 192) \div 16]
           /\ O!StackRegister(op) \in {"BC", "DE", "HL", "AF"}
<1>1. op \in {193, 197, 209, 213, 225, 229, 241, 245}
  OBVIOUS
<1> QED BY <1>1, SMTT(30) DEF O!reg16FromEncoding, O!StackRegister, E!StackNames

LEMMA ConditionNames ==
    ASSUME NEW op \in Int
    PROVE  /\ O!JumpCondition(op) = E!cond((op \div 8) % 4)
           /\ O!JumpCondition(op) \in {"NZ", "Z", "NC", "C"}
BY DEF O!JumpCondition, E!cond

\* So are the operands of a row and of the case with the same opcode.
LEMMA SameOperands ==
    ASSUME NEW r \in O!Rows, NEW op \in r.ops,
           E!Switch[op].operation = r.type, E!Switch[op].extra = r.extra
    PROVE  LET o == O!Operands(r.type, op)
           IN  E!CaseOperands(op) = o /\ Typed(r.type, o)
<1> DEFINE t == r.type
           o == O!Operands(t, op)
           c == E!CaseOperands(op)
<1>1. /\ op \in Int /\ 0 <= op /\ op <= 255 /\ Placed(t, r.extra, op) /\ NamesRegisters(t, op)
      /\ E!Switch[op].operation = t /\ E!Switch[op].extra = r.extra
  BY NoHole, LoadPlaces, WordPlaces, ArithmeticPlaces, LogicPlaces, JumpPlaces DEF O!Rows
<1> SUFFICES c = o /\ Typed(t, o)
  OBVIOUS
<1> HIDE DEF t
<1>2. CASE t = "LD_R8_R8"
  <2>1. o = <<O!reg8FromEncoding(op \div 8), O!reg8FromEncoding(op)>>
    BY <1>2 DEF O!Operands, O!AluTypes, O!AluMemory, R8Column, AluR8, AluHL, Pairs, Stacked, Conditional
  <2>2. c = <<E!get_reg8(op \div 8), E!get_reg8(op)>>
    BY <1>1, <1>2 DEF E!CaseOperands, Placed, R8Column, AluR8, AluHL, Pairs, Stacked, Conditional, Named
  <2>3. O!reg8FromEncoding(op \div 8) = E!get_reg8(op \div 8) /\ O!reg8FromEncoding(op) = E!get_reg8(op) /\ O!reg8FromEncoding(op \div 8) \in Reg8 /\ O!reg8FromEncoding(op) \in Reg8
    BY <1>1, <1>2, ByteNames DEF Placed, NamesRegisters, R8Column, AluR8, AluHL, Pairs, Stacked, Conditional
  <2> QED BY <1>2, <2>1, <2>2, <2>3 DEF Typed, R8Column, AluR8, AluHL, Pairs, Stacked, Conditional, Named
<1>3. CASE t = "LD_R8_HL"
  <2>1. o = <<O!reg8FromEncoding(op \div 8)>>
    BY <1>3 DEF O!Operands, O!AluTypes, O!AluMemory, R8Column, AluR8, AluHL, Pairs, Stacked, Conditional
  <2>2. c = <<E!get_reg8(op \div 8)>>
    BY <1>1, <1>3 DEF E!CaseOperands, Placed, R8Column, AluR8, AluHL, Pairs, Stacked, Conditional, Named
  <2>3. O!reg8FromEncoding(op \div 8) = E!get_reg8(op \div 8) /\ O!reg8FromEncoding(op \div 8) \in Reg8
    BY <1>1, <1>3, ByteNames DEF Placed, NamesRegisters, R8Column, AluR8, AluHL, Pairs, Stacked, Conditional
  <2> QED BY <1>3, <2>1, <2>2, <2>3 DEF Typed, R8Column, AluR8, AluHL, Pairs, Stacked, Conditional, Named
<1>4. CASE t \in {"LD_R8_N", "INC_R8", "DEC_R8"}
  <2>1. o = <<O!reg8FromEncoding(op \div 8)>>
    BY <1>4 DEF O!Operands, O!AluTypes, O!AluMemory, R8Column, AluR8, AluHL, Pairs, Stacked, Conditional
  <2>2. c = <<E!R8Names[1 + op \div 8]>>
    BY <1>1, <1>4 DEF E!CaseOperands, Placed, R8Column, AluR8, AluHL, Pairs, Stacked, Conditional, Named
  <2>3. O!reg8FromEncoding(op \div 8) = E!R8Names[1 + op \div 8] /\ O!reg8FromEncoding(op \div 8) \in Reg8
    BY <1>1, <1>4, ByteNames, LowNames DEF Placed, NamesRegisters, R8Column, AluR8, AluHL, Pairs, Stacked, Conditional
  <2> QED BY <1>4, <2>1, <2>2, <2>3 DEF Typed, R8Column, AluR8, AluHL, Pairs, Stacked, Conditional, Named
<1>5. CASE t \in {"INC_HL", "DEC_HL"}
  <2>1. o = <<"(HL)">>
    BY <1>5 DEF O!Operands, O!AluTypes, O!AluMemory, R8Column, AluR8, AluHL, Pairs, Stacked, Conditional
  <2>2. c = <<E!R8Names[1 + op \div 8]>>
    BY <1>1, <1>5 DEF E!CaseOperands, Placed, R8Column, AluR8, AluHL, Pairs, Stacked, Conditional, Named
  <2>3. E!R8Names[1 + op \div 8] = "(HL)"
    BY <1>1, <1>5 DEF NamesRegisters, E!R8Names
  <2> QED BY <1>5, <2>1, <2>2, <2>3 DEF Typed, R8Column, AluR8, AluHL, Pairs, Stacked, Conditional, Named
<1>6. CASE t \in AluR8 \cup {"LD_HL_R8"}
  <2>1. o = <<O!reg8FromEncoding(op)>>
    BY <1>6 DEF O!Operands, O!AluTypes, O!AluMemory, R8Column, AluR8, AluHL, Pairs, Stacked, Conditional
  <2>2. c = <<E!get_reg8(op)>>
    BY <1>1, <1>6 DEF E!CaseOperands, Placed, R8Column, AluR8, AluHL, Pairs, Stacked, Conditional, Named
  <2>3. O!reg8FromEncoding(op) = E!get_reg8(op) /\ O!reg8FromEncoding(op) \in Reg8
    BY <1>1, <1>6, ByteNames DEF Placed, NamesRegisters, R8Column, AluR8, AluHL, Pairs, Stacked, Conditional
  <2> QED BY <1>6, <2>1, <2>2, <2>3 DEF Typed, R8Column, AluR8, AluHL, Pairs, Stacked, Conditional, Named
<1>7. CASE t \in AluHL
  <2>1. o = <<"(HL)">>
    BY <1>7 DEF O!Operands, O!AluTypes, O!AluMemory, R8Column, AluR8, AluHL, Pairs, Stacked, Conditional
  <2>2. c = <<E!get_reg8(op)>>
    BY <1>1, <1>7 DEF E!CaseOperands, Placed, R8Column, AluR8, AluHL, Pairs, Stacked, Conditional, Named
  <2>3. E!get_reg8(op) = "(HL)"
    BY <1>1, <1>7, ByteNames DEF Placed, NamesRegisters, R8Column, AluR8, AluHL, Pairs, Stacked, Conditional
  <2> QED BY <1>7, <2>1, <2>2, <2>3 DEF Typed, R8Column, AluR8, AluHL, Pairs, Stacked, Conditional, Named
<1>8. CASE t \in Pairs
  <2>1. o = <<O!reg16FromEncoding(op \div 16)>>
    BY <1>8 DEF O!Operands, O!AluTypes, O!AluMemory, R8Column, AluR8, AluHL, Pairs, Stacked, Conditional
  <2>2. c = <<E!PairNames[1 + op \div 16]>>
    BY <1>1, <1>8 DEF E!CaseOperands, Placed, R8Column, AluR8, AluHL, Pairs, Stacked, Conditional, Named
  <2>3. O!reg16FromEncoding(op \div 16) = E!PairNames[1 + op \div 16] /\ O!reg16FromEncoding(op \div 16) \in {"BC", "DE", "HL", "SP"}
    BY <1>1, <1>8, LowNames DEF Placed, NamesRegisters, R8Column, AluR8, AluHL, Pairs, Stacked, Conditional
  <2> QED BY <1>8, <2>1, <2>2, <2>3 DEF Typed, R8Column, AluR8, AluHL, Pairs, Stacked, Conditional, Named
<1>9. CASE t \in Stacked
  <2>1. o = <<O!StackRegister(op)>>
    BY <1>9 DEF O!Operands, O!AluTypes, O!AluMemory, R8Column, AluR8, AluHL, Pairs, Stacked, Conditional
  <2>2. c = <<E!StackNames[1 + (op - 192) \div 16]>>
    BY <1>1, <1>9 DEF E!CaseOperands, Placed, R8Column, AluR8, AluHL, Pairs, Stacked, Conditional, Named
  <2>3. O!StackRegister(op) = E!StackNames[1 + (op - 192) \div 16] /\ O!StackRegister(op) \in {"BC", "DE", "HL", "AF"}
    BY <1>1, <1>9, StackNames DEF Placed, NamesRegisters, R8Column, AluR8, AluHL, Pairs, Stacked, Conditional
  <2> QED BY <1>9, <2>1, <2>2, <2>3 DEF Typed, R8Column, AluR8, AluHL, Pairs, Stacked, Conditional, Named
<1>10. CASE t \in Conditional
  <2>1. o = <<O!JumpCondition(op)>>
    BY <1>10 DEF O!Operands, O!AluTypes, O!AluMemory, R8Column, AluR8, AluHL, Pairs, Stacked, Conditional
  <2>2. c = <<E!cond((op \div 8) % 4)>>
    BY <1>1, <1>10 DEF E!CaseOperands, Placed, R8Column, AluR8, AluHL, Pairs, Stacked, Conditional, Named
  <2>3. O!JumpCondition(op) = E!cond((op \div 8) % 4) /\ O!JumpCondition(op) \in {"NZ", "Z", "NC", "C"}
    BY <1>1, <1>10, ConditionNames DEF Placed, NamesRegisters, R8Column, AluR8, AluHL, Pairs, Stacked, Conditional
  <2> QED BY <1>10, <2>1, <2>2, <2>3 DEF Typed, R8Column, AluR8, AluHL, Pairs, Stacked, Conditional, Named
<1>11. CASE t = "RST_N"
  <2>1. o = <<8 * ((op \div 8) % 8)>>
    BY <1>11 DEF O!Operands, O!BitOpIndex, O!AluTypes, O!AluMemory
  <2>2. c = <<8 * ((op \div 8) % 8)>>
    BY <1>1, <1>11 DEF E!CaseOperands, Placed, R8Column, AluR8, AluHL, Pairs, Stacked, Conditional
  <2>3. (op \div 8) % 8 \in 0..7
    BY <1>1
  <2> QED BY <1>11, <2>1, <2>2, <2>3 DEF Typed, R8Column, AluR8, AluHL, Pairs, Stacked, Conditional, Named
<1>12. CASE t \notin Named
  <2>1. o = <<>>
    BY <1>12 DEF O!Operands, O!AluTypes, O!AluMemory, R8Column, AluR8, AluHL, Pairs, Stacked, Conditional, Named
  <2>2. c = <<>>
    BY <1>1, <1>12 DEF E!CaseOperands, Placed, R8Column, AluR8, AluHL, Pairs, Stacked, Conditional, Named
  <2> QED BY <1>12, <2>1, <2>2 DEF Typed, R8Column, AluR8, AluHL, Pairs, Stacked, Conditional, Named
<1> QED BY <1>2, <1>3, <1>4, <1>5, <1>6, <1>7, <1>8, <1>9, <1>10, <1>11, <1>12 DEF Named, R8Column

Len3 == {"LD_A_NN", "LD_NN_A", "LD_R16_NN", "LD_NN_SP", "JP_NN", "JP_CC_NN", "CALL_NN", "CALL_CC_NN"}
Len2 == AluN \cup {"LD_R8_N", "LD_HL_N", "LDH_A_N", "LDH_N_A", "LD_HL_SP_E", "ADD_SP_E", "JR_E", "JR_CC_E", "STOP"}

\* What the rows say of lengths and cycles, and which types there are.
Types1 == {"NOP", "HALT", "LD_R8_R8", "LD_R8_HL", "LD_HL_R8", "LD_A_BC", "LD_A_DE", "LD_BC_A", "LD_DE_A",
           "LDH_A_C", "LDH_C_A", "LD_A_HL_DEC", "LD_HL_DEC_A", "LD_A_HL_INC", "LD_HL_INC_A", "LD_SP_HL",
           "PUSH_R16", "POP_R16", "INC_R16", "DEC_R16", "ADD_HL_R16", "INC_R8", "DEC_R8", "INC_HL", "DEC_HL",
           "CCF", "SCF", "DAA", "CPL", "RLCA", "RRCA", "RLA", "RRA", "JP_HL", "RET", "RET_CC", "RETI", "RST_N",
           "DI", "EI"}
Sized(r) ==
    /\ r.len = 1 => r.type \in Types1 \cup AluR8 \cup AluHL
    /\ r.len = 2 => r.type \in Len2
    /\ r.len = 3 => r.type \in Len3
    /\ r.len \in 1..3 /\ r.cycles \in Nat /\ r.extra \in Nat

\* The lengths of the instructions, which their types decide.
LEMMA LoadSizes == \A r \in O!LoadRows : Sized(r)
BY SMTT(60) DEF Sized, Types1, AluR8, AluHL, AluN, Len2, Len3, O!LoadRows, O!Row

LEMMA WordSizes == \A r \in O!WordRows : Sized(r)
BY SMTT(60) DEF Sized, Types1, AluR8, AluHL, AluN, Len2, Len3, O!WordRows, O!Row

LEMMA ArithmeticSizes == \A r \in O!ArithmeticRows : Sized(r)
BY SMTT(60) DEF Sized, Types1, AluR8, AluHL, AluN, Len2, Len3, O!ArithmeticRows, O!Row

LEMMA LogicSizes == \A r \in O!LogicRows : Sized(r)
BY SMTT(60) DEF Sized, Types1, AluR8, AluHL, AluN, Len2, Len3, O!LogicRows, O!Row

LEMMA JumpSizes == \A r \in O!JumpRows : Sized(r)
BY SMTT(60) DEF Sized, Types1, AluR8, AluHL, AluN, Len2, Len3, O!JumpRows, O!Row, O!CondRow

LEMMA NotTerminators ==
    \A r \in O!LoadRows \cup O!WordRows \cup O!ArithmeticRows \cup O!LogicRows : r.type \notin L!Terminators
<1>1. \A r \in O!LoadRows : r.type \notin L!Terminators
  BY DEF L!Terminators, O!LoadRows, O!Row
<1>2. \A r \in O!WordRows : r.type \notin L!Terminators
  BY DEF L!Terminators, O!WordRows, O!Row
<1>3. \A r \in O!ArithmeticRows : r.type \notin L!Terminators
  BY DEF L!Terminators, O!ArithmeticRows, O!Row
<1>4. \A r \in O!LogicRows : r.type \notin L!Terminators
  BY DEF L!Terminators, O!LogicRows, O!Row
<1> QED BY <1>1, <1>2, <1>3, <1>4

\* The interpreter goes to a case that lists the opcode.
LEMMA CaseOf ==
    ASSUME NEW r \in O!Rows, NEW op \in r.ops
    PROVE  E!Switch[op] \in E!Cases /\ op \in E!Switch[op].ops
<1>1. op \in Int /\ 0 <= op /\ op <= 255 /\ op \notin Holes /\ op \in 0..255
  BY NoHole
<1>2. \E s \in E!Cases : op \in s.ops
  <2>1. CASE op <= 63
    BY <1>1, <2>1, LowCase DEF E!Cases
  <2>2. CASE 64 <= op /\ op <= 127
    BY <1>1, <2>2, LoadCase DEF E!Cases
  <2>3. CASE 128 <= op /\ op <= 191
    BY <1>1, <2>3, AluCase DEF E!Cases
  <2>4. CASE 192 <= op
    BY <1>1, <2>4, HighCase DEF E!Cases
  <2> QED BY <1>1, <2>1, <2>2, <2>3, <2>4
<1>3. E!Switch[op] = CHOOSE s \in E!Cases : op \in s.ops
  BY <1>1, <1>2 DEF E!Switch
<1> QED BY <1>2, <1>3

\* The decoder's row for op, and the interpreter's case.
LEMMA Matched ==
    ASSUME NEW op \in 0..255, O!decodeOpcode[op].type # "UNKNOWN"
    PROVE  LET r == O!decodeOpcode[op]
           IN  /\ Sized(r) /\ SameAs(r, E!Switch[op])
               /\ (E!Switch[op].continue <=> r.type \in L!Terminators)
               /\ E!CaseOperands(op) = O!Operands(r.type, op)
               /\ Typed(r.type, O!Operands(r.type, op)) /\ Placed(r.type, r.extra, op)
               /\ r.type \in AluHL => op % 8 = 6
               /\ r.type \in AluR8 => op % 8 # 6
<1> DEFINE r == O!decodeOpcode[op]
           s == E!Switch[op]
<1>1. r \in O!Rows /\ op \in r.ops
  <2>1. r = IF \E x \in O!Rows : op \in x.ops THEN CHOOSE x \in O!Rows : op \in x.ops ELSE O!UnknownRow
    BY DEF O!decodeOpcode, O!Byte
  <2>2. O!UnknownRow.type = "UNKNOWN"
    BY DEF O!UnknownRow, O!Row
  <2> QED BY <2>1, <2>2
<1>2. s \in E!Cases /\ op \in s.ops
  BY <1>1, CaseOf
<1> HIDE DEF r, s
<1>3. SameAs(r, s) /\ (s.continue <=> r.type \in L!Terminators)
  <2>1. CASE r \in O!JumpRows
    BY <1>1, <1>2, <2>1, JumpCases
  <2>2. CASE r \in O!LoadRows \cup O!WordRows \cup O!ArithmeticRows \cup O!LogicRows
    BY <1>1, <1>2, <2>2, LoadCases, WordCases, ArithmeticCases, LogicCases, NotTerminators
  <2> QED BY <1>1, <2>1, <2>2 DEF O!Rows
<1>4. Sized(r) /\ Placed(r.type, r.extra, op) /\ NamesRegisters(r.type, op)
  BY <1>1, LoadSizes, WordSizes, ArithmeticSizes, LogicSizes, JumpSizes,
     LoadPlaces, WordPlaces, ArithmeticPlaces, LogicPlaces, JumpPlaces DEF O!Rows
<1>5. E!CaseOperands(op) = O!Operands(r.type, op) /\ Typed(r.type, O!Operands(r.type, op))
  BY <1>1, <1>3, SameOperands DEF SameAs, s
<1> QED BY <1>3, <1>4, <1>5 DEF r, s, NamesRegisters

\* So it is for the instruction of every code without a prefix.
LEMMA Unprefixed ==
    ASSUME NEW st, st.code \in Codes, st.code < 256
    PROVE  LET i == Instruction(st)
           IN  /\ st.code \in 0..255 /\ Agrees(i, st.code) /\ Typed(i.type, i.operands)
               /\ Sized(i) /\ Placed(i.type, i.extra, st.code)
               /\ i.type \in AluHL => st.code % 8 = 6
               /\ i.type \in AluR8 => st.code % 8 # 6
               /\ i.type = Type(st.code)
<1> DEFINE op == st.code
           i == Instruction(st)
           r == O!decodeOpcode[op]
<1>1. op \in 0..255 /\ op # 203 /\ ~O!Prefixed(op)
  BY SMTT(30) DEF Codes, O!Codes, O!Prefixed
<1>2. O!Decoded(op) = O!WithOperands(r, O!Operands(r.type, op))
  BY <1>1 DEF O!Decoded
<1>3. r.type # "UNKNOWN" /\ Type(op) = r.type
  BY <1>2 DEF Codes, Type, O!WithOperands
<1>4. /\ i.type = r.type /\ i.len = r.len /\ i.cycles = r.cycles /\ i.extra = r.extra
      /\ i.operands = O!Operands(r.type, op)
  BY <1>2 DEF Instruction, O!WithOperands
<1> HIDE DEF r, i, op
<1>5. /\ Sized(r) /\ SameAs(r, E!Switch[op])
      /\ (E!Switch[op].continue <=> r.type \in L!Terminators)
      /\ E!CaseOperands(op) = O!Operands(r.type, op)
      /\ Typed(r.type, O!Operands(r.type, op)) /\ Placed(r.type, r.extra, op)
      /\ r.type \in AluHL => op % 8 = 6
      /\ r.type \in AluR8 => op % 8 # 6
  BY <1>1, <1>3, Matched DEF r
<1>6. Agrees(i, op) /\ Sized(i)
  BY <1>1, <1>4, <1>5 DEF Agrees, Sized, SameAs
<1> QED BY <1>1, <1>3, <1>4, <1>5, <1>6 DEF op, i

-----------------------------------------------------------------------------
(* Bits *)

\* And, or and exclusive or are the same operators in both.
LEMMA SameBits ==
    \A x, y : L!And(x, y) = E!And(x, y) /\ L!Or(x, y) = E!Or(x, y) /\ L!Xor(x, y) = E!Xor(x, y)
<1>1. \A x, y : L!And(x, y) = E!And(x, y)
  BY DEF L!And, L!And8, L!And4, L!And2, L!And1, L!Halves, E!And, E!And8, E!And4, E!And2, E!And1, E!Halves
<1>2. \A x, y : L!Or(x, y) = E!Or(x, y)
  BY DEF L!Or, L!Or8, L!Or4, L!Or2, L!Or1, L!Halves, E!Or, E!Or8, E!Or4, E!Or2, E!Or1, E!Halves
<1>3. \A x, y : L!Xor(x, y) = E!Xor(x, y)
  BY DEF L!Xor, L!Xor8, L!Xor4, L!Xor2, L!Xor1, L!Halves, E!Xor, E!Xor8, E!Xor4, E!Xor2, E!Xor1, E!Halves
<1> QED BY <1>1, <1>2, <1>3

\* Nibbles, by enumeration.
LEMMA And4Is ==
    ASSUME NEW x \in 0..15
    PROVE  /\ E!And4(x, 0) = 0 /\ E!And4(x, 15) = x /\ E!And4(0, x) = 0
           /\ E!And4(x, 1) = x % 2 /\ E!And4(x, 8) = 8 * (x \div 8)
           /\ \A y \in 0..15 : E!And4(x, y) \in 0..15 /\ E!Or4(x, y) \in 0..15 /\ E!Xor4(x, y) \in 0..15
                               /\ E!Or4(x, y) = E!Or4(y, x)
BY SMTT(60) DEF E!And4, E!And2, E!And1, E!Or4, E!Or2, E!Or1, E!Xor4, E!Xor2, E!Xor1, E!Halves

\* The masks the instructions use, as arithmetic.
LEMMA ByteAnd ==
    ASSUME NEW x \in Byte
    PROVE  /\ E!And(x, 15) = x % 16 /\ E!And(x, 1) = x % 2
           /\ E!And(x, 128) = 128 * (x \div 128)
<1> x \div 16 \in 0..15 /\ x % 16 \in 0..15 /\ x \in Int /\ 0 <= x /\ x <= 255
  BY ByteIs
<1>1. \A y \in Int : 0 <= y /\ y <= 255 => E!And(x, y) = 256 * E!And8(0, 0) + E!And8(x, y)
  BY DEF E!And, E!Halves
<1>2. E!And8(0, 0) = 0
  BY DEF E!And8, E!And4, E!And2, E!And1, E!Halves
<1>3. E!And8(x, 15) = 16 * E!And4(x \div 16, 0) + E!And4(x % 16, 15)
  BY DEF E!And8, E!Halves
<1>4. E!And8(x, 1) = 16 * E!And4(x \div 16, 0) + E!And4(x % 16, 1)
  BY DEF E!And8, E!Halves
<1>5. E!And8(x, 128) = 16 * E!And4(x \div 16, 8) + E!And4(x % 16, 0)
  BY DEF E!And8, E!Halves
<1> QED BY <1>1, <1>2, <1>3, <1>4, <1>5, And4Is

LEMMA ByteBits ==
    ASSUME NEW x \in Byte, NEW y \in Byte
    PROVE  /\ E!And(x, y) \in Byte /\ E!Or(x, y) \in Byte /\ E!Xor(x, y) \in Byte
           /\ E!Or(x, y) = E!Or(y, x)
<1>1. /\ x \div 16 \in 0..15 /\ x % 16 \in 0..15 /\ x \in Int /\ 0 <= x /\ x <= 255
      /\ y \div 16 \in 0..15 /\ y % 16 \in 0..15 /\ y \in Int /\ 0 <= y /\ y <= 255
  BY ByteIs
<1>2. E!And(x, y) = 256 * E!And8(0, 0) + (16 * E!And4(x \div 16, y \div 16) + E!And4(x % 16, y % 16))
  BY <1>1 DEF E!And, E!And8, E!Halves
<1>3. E!Or(x, y) = 256 * E!Or8(0, 0) + (16 * E!Or4(x \div 16, y \div 16) + E!Or4(x % 16, y % 16))
  BY <1>1 DEF E!Or, E!Or8, E!Halves
<1>4. E!Xor(x, y) = 256 * E!Xor8(0, 0) + (16 * E!Xor4(x \div 16, y \div 16) + E!Xor4(x % 16, y % 16))
  BY <1>1 DEF E!Xor, E!Xor8, E!Halves
<1>5. E!Or(y, x) = 256 * E!Or8(0, 0) + (16 * E!Or4(y \div 16, x \div 16) + E!Or4(y % 16, x % 16))
  BY <1>1 DEF E!Or, E!Or8, E!Halves
<1>6. E!And8(0, 0) = 0 /\ E!Or8(0, 0) = 0 /\ E!Xor8(0, 0) = 0
  BY DEF E!And8, E!And4, E!And2, E!And1, E!Or8, E!Or4, E!Or2, E!Or1, E!Xor8, E!Xor4, E!Xor2, E!Xor1, E!Halves
<1> DEFINE a == x \div 16  b == x % 16  c == y \div 16  d == y % 16
<1>7. /\ E!And4(a, c) \in 0..15 /\ E!And4(b, d) \in 0..15
      /\ E!Or4(a, c) \in 0..15 /\ E!Or4(b, d) \in 0..15
      /\ E!Xor4(a, c) \in 0..15 /\ E!Xor4(b, d) \in 0..15
      /\ E!Or4(a, c) = E!Or4(c, a) /\ E!Or4(b, d) = E!Or4(d, b)
  BY <1>1, And4Is
<1>8. \A u, v \in 0..15 : 256 * 0 + (16 * u + v) \in Byte
  BY ByteIs
<1> HIDE DEF a, b, c, d
<1> QED BY <1>2, <1>3, <1>4, <1>5, <1>6, <1>7, <1>8 DEF a, b, c, d

\* Or on a word does to its low byte what or on the byte does.
LEMMA OrLow ==
    ASSUME NEW y \in Word, NEW z \in Byte
    PROVE  E!Or(y, z) % 256 = E!Or(y % 256, z)
<1>1. y \in Int /\ 0 <= y /\ y <= 65535 /\ z \in Int /\ 0 <= z /\ z <= 255
  BY WordIs, ByteIs
<1>2. y % 256 \in Byte /\ y \div 256 \in Byte /\ 0 \in Byte
  BY <1>1, ByteIs
<1>3. E!Or(y, z) = 256 * E!Or8(y \div 256, 0) + E!Or8(y % 256, z)
  BY <1>1 DEF E!Or, E!Halves
<1>4. \A a, b \in Byte : E!Or(a, b) = 256 * E!Or8(0, 0) + E!Or8(a, b)
  BY ByteIs DEF E!Or, E!Halves
<1>5. E!Or8(0, 0) = 0
  BY DEF E!Or8, E!Or4, E!Or2, E!Or1, E!Halves
<1>6. \A a, b \in Byte : E!Or8(a, b) \in Int
  <2> TAKE a, b \in Byte
  <2>1. a \div 16 \in 0..15 /\ a % 16 \in 0..15 /\ b \div 16 \in 0..15 /\ b % 16 \in 0..15
    BY ByteIs
  <2>2. E!Or8(a, b) = 16 * E!Or4(a \div 16, b \div 16) + E!Or4(a % 16, b % 16)
    BY DEF E!Or8, E!Halves
  <2> QED BY <2>1, <2>2, And4Is
<1>7. \A a, b \in Byte : E!Or8(a, b) = E!Or(a, b)
  BY <1>4, <1>5, <1>6
<1>8. E!Or8(y % 256, z) = E!Or(y % 256, z) /\ E!Or(y % 256, z) \in Byte /\ E!Or8(y \div 256, 0) \in Int
  BY <1>1, <1>2, <1>6, <1>7, ByteBits
<1> QED BY <1>3, <1>8, ByteIs

LEMMA Nibble ==
    ASSUME NEW x \in 0..15
    PROVE  /\ E!And4(x, 2) = 2 * ((x \div 2) % 2) /\ E!And4(x, 4) = 4 * ((x \div 4) % 2)
           /\ E!Xor4(x, 15) = 15 - x /\ E!And4(0, x) = 0
           /\ \A y \in 0..15 : E!Xor4(x, y) % 2 = (x + y) % 2
BY SMTT(60) DEF E!And4, E!And2, E!And1, E!Xor4, E!Xor2, E!Xor1, E!Halves

LEMMA Nibbles ==
    ASSUME NEW r \in Int, 0 <= r, r <= 255
    PROVE  /\ r = 16 * (r \div 16) + (r % 16) /\ 0 <= r \div 16 /\ r \div 16 <= 15 /\ 0 <= r % 16 /\ r % 16 <= 15
           /\ r \div 16 \in 0..15 /\ r % 16 \in 0..15 /\ r \div 16 \in Int /\ r % 16 \in Int
OBVIOUS

LEMMA TwoBytes ==
    ASSUME NEW w \in Int, 0 <= w, w <= 65535
    PROVE  /\ w = 256 * (w \div 256) + (w % 256) /\ w \div 256 \in Int /\ w % 256 \in Int
           /\ 0 <= w \div 256 /\ w \div 256 <= 255 /\ 0 <= w % 256 /\ w % 256 <= 255
OBVIOUS

LEMMA ByteXor == ASSUME NEW x \in Byte PROVE E!Xor(x, 255) = 255 - x
<1>1. x \div 16 \in 0..15 /\ x % 16 \in 0..15 /\ x \in Int /\ 0 <= x /\ x <= 255
  BY ByteIs
<1>2. E!Xor(x, 255) = 256 * E!Xor8(0, 0) + (16 * E!Xor4(x \div 16, 15) + E!Xor4(x % 16, 15))
  BY <1>1 DEF E!Xor, E!Xor8, E!Halves
<1>3. E!Xor8(0, 0) = 0
  BY DEF E!Xor8, E!Xor4, E!Xor2, E!Xor1, E!Halves
<1> QED BY <1>1, <1>2, <1>3, Nibble

\* One bit of a word, by its place.
LEMMA WordBit ==
    ASSUME NEW w \in Word
    PROVE  /\ E!And(w, 128) = 128 * ((w \div 128) % 2) /\ E!And(w, 64) = 64 * ((w \div 64) % 2)
           /\ E!And(w, 32) = 32 * ((w \div 32) % 2) /\ E!And(w, 16) = 16 * ((w \div 16) % 2)
           /\ E!And(w, 256) = 256 * ((w \div 256) % 2)
<1> DEFINE h == w \div 256
           r == w % 256
           a == r \div 16
           b == r % 16
           g == h \div 16
           f == h % 16
<1>1. w \in Int /\ 0 <= w /\ w <= 65535
  BY WordIs
<1>2. /\ w = 256 * h + r /\ h \in Int /\ r \in Int
      /\ 0 <= h /\ h <= 255 /\ 0 <= r /\ r <= 255
  BY <1>1, TwoBytes
<1>3. /\ r = 16 * a + b /\ a \in Int /\ 0 <= a /\ a <= 15 /\ b \in Int /\ 0 <= b /\ b <= 15
      /\ h = 16 * g + f /\ g \in Int /\ 0 <= g /\ g <= 15 /\ f \in Int /\ 0 <= f /\ f <= 15
  <2> HIDE DEF h, r
  <2> QED BY <1>2, Nibbles
<1>4. /\ E!And(w, 128) = 256 * (16 * E!And4(g, 0) + E!And4(f, 0)) + (16 * E!And4(a, 8) + E!And4(b, 0))
      /\ E!And(w, 64) = 256 * (16 * E!And4(g, 0) + E!And4(f, 0)) + (16 * E!And4(a, 4) + E!And4(b, 0))
      /\ E!And(w, 32) = 256 * (16 * E!And4(g, 0) + E!And4(f, 0)) + (16 * E!And4(a, 2) + E!And4(b, 0))
      /\ E!And(w, 16) = 256 * (16 * E!And4(g, 0) + E!And4(f, 0)) + (16 * E!And4(a, 1) + E!And4(b, 0))
      /\ E!And(w, 256) = 256 * (16 * E!And4(g, 0) + E!And4(f, 1)) + (16 * E!And4(a, 0) + E!And4(b, 0))
  BY DEF E!And, E!And8, E!Halves
<1> HIDE DEF a, b, g, f, h, r
<1>5. /\ E!And4(a, 8) = 8 * (a \div 8) /\ E!And4(a, 4) = 4 * ((a \div 4) % 2)
      /\ E!And4(a, 2) = 2 * ((a \div 2) % 2) /\ E!And4(a, 1) = a % 2 /\ E!And4(b, 0) = 0 /\ E!And4(a, 0) = 0
      /\ E!And4(g, 0) = 0 /\ E!And4(f, 1) = f % 2 /\ E!And4(f, 0) = 0
  BY <1>3, And4Is, Nibble
<1>6. w = 4096 * g + 256 * f + 16 * a + b
  BY <1>2, <1>3
<1>7. a \div 8 = (w \div 128) % 2
  BY <1>3, <1>6
<1>8. (a \div 4) % 2 = (w \div 64) % 2
  BY <1>3, <1>6
<1>9. (a \div 2) % 2 = (w \div 32) % 2
  BY <1>3, <1>6
<1>10. a % 2 = (w \div 16) % 2
  BY <1>3, <1>6
<1>11. f % 2 = (w \div 256) % 2
  BY <1>3, <1>6
<1>12. /\ E!And(w, 128) = 8 * (a \div 8) * 16
       /\ E!And(w, 64) = 16 * (4 * ((a \div 4) % 2))
       /\ E!And(w, 32) = 16 * (2 * ((a \div 2) % 2))
       /\ E!And(w, 16) = 16 * (a % 2)
       /\ E!And(w, 256) = 256 * (f % 2)
  BY <1>3, <1>4, <1>5
<1>13. w \in Int
  BY WordIs
<1> QED BY <1>3, <1>7, <1>8, <1>9, <1>10, <1>11, <1>12, <1>13

\* Exclusive or adds the bits of one place.
LEMMA WordXor ==
    ASSUME NEW x \in Word, NEW y \in Word
    PROVE  /\ E!Xor(x, y) \in Word
           /\ (E!Xor(x, y) \div 16) % 2 = ((x \div 16) + (y \div 16)) % 2
           /\ (E!Xor(x, y) \div 256) % 2 = ((x \div 256) + (y \div 256)) % 2
<1>1. x \in Int /\ 0 <= x /\ x <= 65535 /\ y \in Int /\ 0 <= y /\ y <= 65535
  BY WordIs
<1> DEFINE x3 == (x \div 256) \div 16  x2 == (x \div 256) % 16  x1 == (x % 256) \div 16  x0 == (x % 256) % 16
           y3 == (y \div 256) \div 16  y2 == (y \div 256) % 16  y1 == (y % 256) \div 16  y0 == (y % 256) % 16
<1>2. /\ x3 \in 0..15 /\ x2 \in 0..15 /\ x1 \in 0..15 /\ x0 \in 0..15
      /\ y3 \in 0..15 /\ y2 \in 0..15 /\ y1 \in 0..15 /\ y0 \in 0..15
  BY <1>1, TwoBytes, Nibbles
<1> DEFINE z3 == E!Xor4(x3, y3)  z2 == E!Xor4(x2, y2)  z1 == E!Xor4(x1, y1)  z0 == E!Xor4(x0, y0)
<1>3. E!Xor(x, y) = 256 * (16 * z3 + z2) + (16 * z1 + z0)
  BY DEF E!Xor, E!Xor8, E!Halves
<1>4. z3 \in 0..15 /\ z2 \in 0..15 /\ z1 \in 0..15 /\ z0 \in 0..15
  BY <1>2, And4Is
<1>5. z2 % 2 = (x2 + y2) % 2 /\ z1 % 2 = (x1 + y1) % 2
  BY <1>2, Nibble
<1>6. /\ (x1 + y1) % 2 = ((x \div 16) + (y \div 16)) % 2
      /\ (x2 + y2) % 2 = ((x \div 256) + (y \div 256)) % 2
  BY <1>1
<1> DEFINE z == E!Xor(x, y)
<1> HIDE DEF x3, x2, x1, x0, y3, y2, y1, y0, z3, z2, z1, z0, z
<1>9. /\ z3 \in Int /\ z2 \in Int /\ z1 \in Int /\ z0 \in Int /\ 0 <= z3 /\ z3 <= 15 /\ 0 <= z2 /\ z2 <= 15
      /\ 0 <= z1 /\ z1 <= 15 /\ 0 <= z0 /\ z0 <= 15
  BY <1>4
<1>7. z = 4096 * z3 + 256 * z2 + 16 * z1 + z0
  BY <1>3, <1>9 DEF z
<1>8. z \in Int /\ 0 <= z /\ z <= 65535 /\ (z \div 16) % 2 = z1 % 2 /\ (z \div 256) % 2 = z2 % 2
  BY <1>7, <1>9
<1> QED BY <1>5, <1>6, <1>8, WordIs DEF z

\* SP with an offset: compiled code has the half carry and the carry from exclusive or
\* (arithmetic.go calculateOffsetFlags), the interpreter from the sums of the low bits.
LEMMA OffsetFlags ==
    ASSUME NEW sp \in Word, NEW n \in Byte
    PROVE  LET v == L!Trunc16(L!SExt8(n))
               f == L!calculateOffsetFlags(sp, v)
           IN  /\ L!Trunc16(sp + v) = E!Trunc16(sp + E!SExt8(n)) /\ E!Trunc16(sp + E!SExt8(n)) \in Word
               /\ f.h = ((sp % 16) + (n % 16) > 15) /\ f.c = ((sp % 256) + n > 255)
<1> DEFINE v == L!Trunc16(L!SExt8(n))
           t == L!Trunc16(sp + v)
           d == E!Xor(E!Xor(sp, v), t)
<1>1. sp \in Int /\ 0 <= sp /\ sp <= 65535 /\ n \in Int /\ 0 <= n /\ n <= 255
  BY WordIs, ByteIs
<1>2. v = IF n < 128 THEN n ELSE n + 65280
  BY <1>1 DEF L!Trunc16, L!SExt8
<1>3. v \in Int /\ 0 <= v /\ v <= 65535 /\ t \in Int /\ 0 <= t /\ t <= 65535 /\ v \in Word /\ t \in Word
      /\ t = (sp + v) % 65536 /\ v % 256 = n /\ v % 16 = n % 16
  BY <1>1, <1>2, WordIs DEF L!Trunc16
<1>4. t = E!Trunc16(sp + E!SExt8(n))
  BY <1>1, <1>2, <1>3 DEF E!Trunc16, E!SExt8
<1> HIDE DEF v, t
<1>5. d \in Word /\ (d \div 16) % 2 = ((sp \div 16) + (v \div 16) + (t \div 16)) % 2
               /\ (d \div 256) % 2 = ((sp \div 256) + (v \div 256) + (t \div 256)) % 2
  <2>1. E!Xor(sp, v) \in Word /\ E!Xor(sp, v) \in Int
    BY <1>3, WordXor, WordIs
  <2>2. /\ (E!Xor(sp, v) \div 16) % 2 = ((sp \div 16) + (v \div 16)) % 2
        /\ (E!Xor(sp, v) \div 256) % 2 = ((sp \div 256) + (v \div 256)) % 2
    BY <1>3, WordXor
  <2>3. /\ (d \div 16) % 2 = ((E!Xor(sp, v) \div 16) + (t \div 16)) % 2
        /\ (d \div 256) % 2 = ((E!Xor(sp, v) \div 256) + (t \div 256)) % 2 /\ d \in Word
    BY <1>3, <2>1, WordXor
  <2>4. d \in Int
    BY <2>3, WordIs
  <2> DEFINE u == E!Xor(sp, v)
  <2>5. /\ sp \div 16 \in Int /\ v \div 16 \in Int /\ t \div 16 \in Int /\ u \div 16 \in Int /\ d \div 16 \in Int
        /\ sp \div 256 \in Int /\ v \div 256 \in Int /\ t \div 256 \in Int /\ u \div 256 \in Int /\ d \div 256 \in Int
    BY <1>1, <1>3, <2>1, <2>4
  <2> DEFINE a == sp \div 16  b == v \div 16  c == t \div 16  p == u \div 16  q == d \div 16
  <2>6. q % 2 = (a + b + c) % 2
    <3>1. a \in Int /\ b \in Int /\ c \in Int /\ p \in Int /\ q \in Int /\ p % 2 = (a + b) % 2 /\ q % 2 = (p + c) % 2
      BY <2>2, <2>3, <2>5
    <3> HIDE DEF a, b, c, p, q
    <3> QED BY <3>1
  <2> DEFINE a2 == sp \div 256  b2 == v \div 256  c2 == t \div 256  p2 == u \div 256  q2 == d \div 256
  <2>7. q2 % 2 = (a2 + b2 + c2) % 2
    <3>1. a2 \in Int /\ b2 \in Int /\ c2 \in Int /\ p2 \in Int /\ q2 \in Int /\ p2 % 2 = (a2 + b2) % 2 /\ q2 % 2 = (p2 + c2) % 2
      BY <2>2, <2>3, <2>5
    <3> HIDE DEF a2, b2, c2, p2, q2
    <3> QED BY <3>1
  <2> QED BY <2>3, <2>6, <2>7
<1>6. ((sp \div 16) + (v \div 16) + (t \div 16)) % 2 = IF (sp % 16) + (v % 16) > 15 THEN 1 ELSE 0
  BY <1>1, <1>3
<1>7. ((sp \div 256) + (v \div 256) + (t \div 256)) % 2 = IF (sp % 256) + (v % 256) > 255 THEN 1 ELSE 0
  BY <1>1, <1>3
<1>8. /\ E!And(d, 16) = 16 * ((d \div 16) % 2)
      /\ E!And(d, 256) = 256 * ((d \div 256) % 2)
  BY <1>5, WordBit
<1>9. L!calculateOffsetFlags(sp, v) = [h |-> E!And(d, 16) # 0, c |-> E!And(d, 256) # 0]
  BY SameBits DEF L!calculateOffsetFlags, t
<1>10. /\ (E!And(d, 16) # 0) = ((sp % 16) + (n % 16) > 15)
       /\ (E!And(d, 256) # 0) = ((sp % 256) + n > 255)
  <2>1. /\ E!And(d, 16) = IF (sp % 16) + (v % 16) > 15 THEN 16 ELSE 0
        /\ E!And(d, 256) = IF (sp % 256) + (v % 256) > 255 THEN 256 ELSE 0
    BY <1>5, <1>6, <1>7, <1>8
  <2> QED BY <1>3, <2>1
<1> QED BY <1>3, <1>4, <1>9, <1>10 DEF v, t

\* The flags make F, each in its bit.
LEMMA FlagByte ==
    \A a \in {0, 128}, b \in {0, 64}, c \in {0, 32}, d \in {0, 16} :
        E!Or(E!Or(E!Or(a, b), c), d) = a + b + c + d
<1>1. \A a \in {0, 128}, b \in {0, 64} : E!Or(a, b) = a + b
  BY DEF E!Or, E!Or8, E!Or4, E!Or2, E!Or1, E!Halves
<1>2. \A a \in {0, 64, 128, 192}, c \in {0, 32} : E!Or(a, c) = a + c
  BY DEF E!Or, E!Or8, E!Or4, E!Or2, E!Or1, E!Halves
<1>3. \A a \in {0, 32, 64, 96, 128, 160, 192, 224}, d \in {0, 16} : E!Or(a, d) = a + d
  BY DEF E!Or, E!Or8, E!Or4, E!Or2, E!Or1, E!Halves
<1> QED BY <1>1, <1>2, <1>3

LEMMA Powers == 2^0 = 1 /\ 2^1 = 2 /\ 2^2 = 4 /\ 2^3 = 8 /\ 2^4 = 16 /\ 2^5 = 32 /\ 2^6 = 64 /\ 2^7 = 128
<1>1. 2^0 = 1 /\ 2^1 = 2
  BY SMT
<1>2. 2^2 = 4 /\ 2^3 = 8
  BY SMT
<1>3. 2^4 = 16 /\ 2^5 = 32
  BY SMT
<1>4. 2^6 = 64 /\ 2^7 = 128
  BY SMT
<1> QED BY <1>1, <1>2, <1>3, <1>4

-----------------------------------------------------------------------------
(* Words and pairs of registers *)

Pair == {"BC", "DE", "HL", "SP", "AF"}

\* Words, their halves, and the pairs of registers.
LEMMA JoinType == \A a, b \in Byte : E!Join(a, b) \in Word /\ L!Join(a, b) = E!Join(a, b)
BY ByteIs, WordIs DEF E!Join, L!Join

LEMMA HighLow ==
    \A w \in Word : /\ E!High(w) \in Byte /\ E!Low(w) \in Byte /\ L!High(w) = E!High(w) /\ L!Low(w) = E!Low(w)
                    /\ E!Join(E!High(w), E!Low(w)) = w
BY ByteIs, WordIs DEF E!High, E!Low, L!High, L!Low, E!Join

LEMMA JoinParts == \A a, b \in Byte : E!High(E!Join(a, b)) = a /\ E!Low(E!Join(a, b)) = b
BY ByteIs DEF E!High, E!Low, E!Join

LEMMA TruncType == \A k \in Int : E!Trunc16(k) \in Word /\ L!Trunc16(k) = E!Trunc16(k) /\ (k \in Word => E!Trunc16(k) = k)
BY WordIs DEF E!Trunc16, L!Trunc16

\* The flags in F are the same byte, and POP AF takes the same flags out of one.
LEMMA SameF ==
    ASSUME NEW n, Good(n)
    PROVE  L!buildFReg(n) = E!get_f(n) /\ E!get_f(n) \in Byte
<1> DEFINE a == IF n.flag.Z THEN 128 ELSE 0
           b == IF n.flag.N THEN 64 ELSE 0
           c == IF n.flag.H THEN 32 ELSE 0
           d == IF n.flag.C THEN 16 ELSE 0
<1>1. E!get_f(n) = E!Or(E!Or(E!Or(a, b), c), d) /\ L!buildFReg(n) = a + b + c + d
  BY DEF E!get_f, L!buildFReg
<1>2. a \in {0, 128} /\ b \in {0, 64} /\ c \in {0, 32} /\ d \in {0, 16}
  OBVIOUS
<1> HIDE DEF a, b, c, d
<1>3. E!Or(E!Or(E!Or(a, b), c), d) = a + b + c + d
  BY <1>2, FlagByte
<1>4. a + b + c + d \in Byte
  BY <1>2, ByteIs
<1> QED BY <1>1, <1>3, <1>4

LEMMA BitIs ==
    ASSUME NEW w \in Word
    PROVE  /\ L!Bit(L!Low(w), 7) = (E!And(w, 128) # 0) /\ L!Bit(L!Low(w), 6) = (E!And(w, 64) # 0)
           /\ L!Bit(L!Low(w), 5) = (E!And(w, 32) # 0) /\ L!Bit(L!Low(w), 4) = (E!And(w, 16) # 0)
<1>1. w \in Int
  BY WordIs
<1>2. /\ ((w % 256) \div 128) % 2 = (w \div 128) % 2 /\ ((w % 256) \div 64) % 2 = (w \div 64) % 2
      /\ ((w % 256) \div 32) % 2 = (w \div 32) % 2 /\ ((w % 256) \div 16) % 2 = (w \div 16) % 2
  BY <1>1
<1>3. /\ L!Bit(L!Low(w), 7) = (((w % 256) \div 128) % 2 = 1) /\ L!Bit(L!Low(w), 6) = (((w % 256) \div 64) % 2 = 1)
      /\ L!Bit(L!Low(w), 5) = (((w % 256) \div 32) % 2 = 1) /\ L!Bit(L!Low(w), 4) = (((w % 256) \div 16) % 2 = 1)
  BY Powers DEF L!Bit, L!Low
<1>4. \A k \in Int : k % 2 = 0 \/ k % 2 = 1
  OBVIOUS
<1> QED BY <1>1, <1>2, <1>3, <1>4, WordBit

\* Both read the same pair of registers.
LEMMA SamePair ==
    ASSUME NEW n, Good(n), NEW r \in Pair
    PROVE  /\ L!readReg16(n, r) = E!get16(n, r) /\ E!get16(n, r) \in Word
           /\ L!HL(n) = E!get_hl(n) /\ E!get_hl(n) \in Word /\ E!get_hl(n) = E!get16(n, "HL")
           /\ E!get_bc(n) = E!get16(n, "BC") /\ E!get_de(n) = E!get16(n, "DE")
<1>1. /\ \A q \in Reg8 : n.reg[q] \in Byte
      /\ n.sp \in Word /\ L!buildFReg(n) = E!get_f(n) /\ E!get_f(n) \in Byte
  BY GoodFields, SameF
<1>2. \A q \in Pair : L!readReg16(n, q) = E!get16(n, q) /\ E!get16(n, q) \in Word
  BY <1>1, JoinType DEF Pair, Reg8, L!readReg16, L!SplitUp, E!get16, E!get_bc, E!get_de, E!get_hl, E!get_af
<1> QED BY <1>2 DEF L!HL, E!get16, Pair

\* Both set a register the same, and the flags.
LEMMA SameSet ==
    ASSUME NEW n, Good(n)
    PROVE  /\ \A r \in Reg8, v \in Byte : L!set(n, r, v) = E!set_reg8(n, r, v) /\ From(n, E!set_reg8(n, r, v))
           /\ \A z, nn, h, c \in BOOLEAN : From(n, E!set_flags(n, z, nn, h, c))
<1>1. \A r \in Reg8, v \in Byte : L!set(n, r, v) = E!set_reg8(n, r, v) /\ From(n, E!set_reg8(n, r, v))
  BY SetReg DEF L!set, E!set_reg8
<1>2. \A z, nn, h, c \in BOOLEAN : From(n, E!set_flags(n, z, nn, h, c))
  <2> TAKE z, nn, h, c \in BOOLEAN
  <2>1. [Z |-> z, N |-> nn, H |-> h, C |-> c] \in Flags
    BY DEF Flags
  <2> QED BY <2>1, SetFlag DEF E!set_flags
<1> QED BY <1>1, <1>2

LEMMA SameSetPair ==
    ASSUME NEW n, Good(n), NEW r \in Pair, NEW w \in Word
    PROVE  L!updateReg16(n, r, w) = E!set16(n, r, w) /\ From(n, E!set16(n, r, w))
<1>1. E!High(w) \in Byte /\ E!Low(w) \in Byte /\ L!High(w) = E!High(w) /\ L!Low(w) = E!Low(w)
  BY HighLow
<1>2. n.reg \in Registers8
  BY GoodFields
<1>3. CASE r = "SP"
  BY <1>3, SetSp DEF L!updateReg16, E!set16
<1>4. CASE r = "AF"
  <2> DEFINE x == [n EXCEPT !.reg["A"] = E!High(w)]
             f == [Z |-> E!And(w, 128) # 0, N |-> E!And(w, 64) # 0, H |-> E!And(w, 32) # 0, C |-> E!And(w, 16) # 0]
  <2>1. From(n, x)
    BY <1>1, SetReg DEF Reg8
  <2>2. f \in Flags
    BY DEF Flags
  <2>3. E!set16(n, r, w) = [x EXCEPT !.flag = f]
    BY <1>4 DEF E!set16, E!set_flags
  <2>4. L!updateReg16(n, r, w) = L!updateFReg(x, L!Low(w))
    BY <1>1, <1>4 DEF L!updateReg16
  <2> HIDE DEF x
  <2>5. L!updateFReg(x, L!Low(w)) = [x EXCEPT !.flag = f]
    BY BitIs DEF L!updateFReg
  <2> HIDE DEF f
  <2>6. From(x, [x EXCEPT !.flag = f])
    BY <2>1, <2>2, SetFlag DEF From
  <2> QED BY <2>1, <2>3, <2>4, <2>5, <2>6, FromFrom
<1>5. ASSUME NEW a \in Reg8, NEW b \in Reg8
      PROVE  From(n, [n EXCEPT !.reg[a] = E!High(w), !.reg[b] = E!Low(w)])
  <2> DEFINE x == [n EXCEPT !.reg[a] = E!High(w)]
  <2>1. From(n, x)
    BY <1>1, SetReg
  <2>2. [n EXCEPT !.reg[a] = E!High(w), !.reg[b] = E!Low(w)] = [x EXCEPT !.reg[b] = E!Low(w)]
    OBVIOUS
  <2> HIDE DEF x
  <2> QED BY <1>1, <2>1, <2>2, SetReg, FromFrom DEF From
<1>6. CASE r \in {"BC", "DE", "HL"}
  <2>1. L!updateReg16(n, r, w) = E!set16(n, r, w)
    <3>1. L!updateReg16(n, r, w) = [n EXCEPT !.reg[L!SplitUp[r][1]] = E!High(w), !.reg[L!SplitUp[r][2]] = E!Low(w)]
      BY <1>1, <1>6 DEF L!updateReg16
    <3>2. CASE r = "BC"
      <4>1. L!SplitUp[r][1] = "B" /\ L!SplitUp[r][2] = "C"
        BY <3>2 DEF L!SplitUp
      <4> QED BY <3>1, <3>2, <4>1 DEF E!set16
    <3>3. CASE r = "DE"
      <4>1. L!SplitUp[r][1] = "D" /\ L!SplitUp[r][2] = "E"
        BY <3>3 DEF L!SplitUp
      <4> QED BY <3>1, <3>3, <4>1 DEF E!set16
    <3>4. CASE r = "HL"
      <4>1. L!SplitUp[r][1] = "H" /\ L!SplitUp[r][2] = "L"
        BY <3>4 DEF L!SplitUp
      <4> QED BY <3>1, <3>4, <4>1 DEF E!set16
    <3> QED BY <1>6, <3>2, <3>3, <3>4
  <2>2. \/ E!set16(n, r, w) = [n EXCEPT !.reg["B"] = E!High(w), !.reg["C"] = E!Low(w)]
        \/ E!set16(n, r, w) = [n EXCEPT !.reg["D"] = E!High(w), !.reg["E"] = E!Low(w)]
        \/ E!set16(n, r, w) = [n EXCEPT !.reg["H"] = E!High(w), !.reg["L"] = E!Low(w)]
    BY <1>6 DEF E!set16
  <2> QED BY <1>5, <2>1, <2>2 DEF Reg8
<1> QED BY <1>3, <1>4, <1>6 DEF Pair
-----------------------------------------------------------------------------
(* What the work does not see: pc *)

\* None of it depends on the pc.
LEMMA SetsAt ==
    ASSUME NEW n, Good(n), NEW p \in Word
    PROVE  /\ \A r, v : E!set_reg8(At(n, p), r, v) = At(E!set_reg8(n, r, v), p)
           /\ \A z, nn, h, c : E!set_flags(At(n, p), z, nn, h, c) = At(E!set_flags(n, z, nn, h, c), p)
           /\ \A r \in Pair : /\ E!get16(At(n, p), r) = E!get16(n, r)
                              /\ \A w : E!set16(At(n, p), r, w) = At(E!set16(n, r, w), p)
           /\ E!get_hl(At(n, p)) = E!get_hl(n) /\ E!get_bc(At(n, p)) = E!get_bc(n) /\ E!get_de(At(n, p)) = E!get_de(n)
           /\ E!Carry(At(n, p)) = E!Carry(n)
<1>1. At(n, p).reg = n.reg /\ At(n, p).flag = n.flag /\ At(n, p).sp = n.sp
  BY SetPc
<1>2. \A r, v : E!set_reg8(At(n, p), r, v) = At(E!set_reg8(n, r, v), p)
  BY DEF At, E!set_reg8
<1>3. \A z, nn, h, c : E!set_flags(At(n, p), z, nn, h, c) = At(E!set_flags(n, z, nn, h, c), p)
  BY DEF At, E!set_flags
<1>4. E!get_hl(At(n, p)) = E!get_hl(n) /\ E!get_bc(At(n, p)) = E!get_bc(n) /\ E!get_de(At(n, p)) = E!get_de(n)
      /\ E!Carry(At(n, p)) = E!Carry(n) /\ E!get_af(At(n, p)) = E!get_af(n)
  BY <1>1 DEF E!get_hl, E!get_bc, E!get_de, E!Carry, E!get_af, E!get_f
<1>5. \A r \in Pair : E!get16(At(n, p), r) = E!get16(n, r)
  BY <1>1, <1>4 DEF Pair, E!get16
<1>6. \A r \in Pair : \A w : E!set16(At(n, p), r, w) = At(E!set16(n, r, w), p)
  <2> TAKE r \in Pair
  <2> TAKE w
  <2>1. CASE r = "AF"
    <3> DEFINE x == [n EXCEPT !.reg["A"] = E!High(w)]
               z == E!And(w, 128) # 0
               nn == E!And(w, 64) # 0
               h == E!And(w, 32) # 0
               c == E!And(w, 16) # 0
    <3>1. [At(n, p) EXCEPT !.reg["A"] = E!High(w)] = At(x, p)
      BY DEF At
    <3>2. E!set16(At(n, p), r, w) = E!set_flags([At(n, p) EXCEPT !.reg["A"] = E!High(w)], z, nn, h, c)
      BY <2>1 DEF E!set16
    <3>3. E!set16(n, r, w) = E!set_flags(x, z, nn, h, c)
      BY <2>1 DEF E!set16
    <3> HIDE DEF x, z, nn, h, c
    <3>4. E!set_flags(At(x, p), z, nn, h, c) = At(E!set_flags(x, z, nn, h, c), p)
      BY DEF At, E!set_flags
    <3> QED BY <3>1, <3>2, <3>3, <3>4
  <2>2. CASE r = "BC"
    BY <2>2 DEF At, E!set16
  <2>3. CASE r = "DE"
    BY <2>3 DEF At, E!set16
  <2>4. CASE r = "HL"
    BY <2>4 DEF At, E!set16
  <2>5. CASE r = "SP"
    BY <2>5 DEF At, E!set16
  <2> QED BY <2>1, <2>2, <2>3, <2>4, <2>5 DEF Pair
<1> QED BY <1>2, <1>3, <1>4, <1>5, <1>6

-----------------------------------------------------------------------------
(* Loads *)

LEMMA Lengths ==
    ASSUME NEW i, Sized(i)
    PROVE  (i.type \in Len2 => i.len = 2) /\ (i.type \in Len3 => i.len = 3)
<1>1. i.len \in {1, 2, 3}
  BY DEF Sized
<1>2. Len2 \cap Len3 = {}
  BY DEF Len2, Len3, AluN
<1>3. (Types1 \cup AluR8 \cup AluHL) \cap (Len2 \cup Len3) = {}
  BY SMTT(30) DEF Len2, Len3, AluN, Types1, AluR8, AluHL
<1> QED BY <1>1, <1>2, <1>3 DEF Sized

\* A byte is loaded into a register the same way, and stored.
LEMMA LoadFrom ==
    ASSUME NEW n, Good(n), NEW r \in Reg8, NEW a \in Word
    PROVE  /\ From(n, E!load_from(n, r, a))
           /\ L!set(L!AfterRead(n, a), r, L!readMemory(n, a)) = E!load_from(n, r, a)
           /\ r = "A" => L!load_a(n, a) = E!load_from(n, "A", a)
           /\ \A p \in Word : E!load_from(At(n, p), r, a) = At(E!load_from(n, r, a), p)
<1>1. From(n, E!AfterRead(n, a)) /\ E!read_ram(n, a) \in Byte
  BY ReadKeeps, ReadType
<1>2. L!AfterRead(n, a) = E!AfterRead(n, a) /\ L!readMemory(n, a) = E!read_ram(n, a)
  BY SameBus, SameRead
<1> DEFINE x == E!AfterRead(n, a)
           v == E!read_ram(n, a)
<1>3. E!load_from(n, r, a) = E!set_reg8(x, r, v)
  BY DEF E!load_from
<1>4. L!set(L!AfterRead(n, a), r, L!readMemory(n, a)) = L!set(x, r, v)
  BY <1>2
<1>5. \A p \in Word : E!load_from(At(n, p), r, a) = E!set_reg8(At(x, p), r, v)
  BY ReadAt DEF E!load_from
<1>6. L!load_a(n, a) = L!set(x, "A", v)
  BY <1>2 DEF L!load_a
<1> HIDE DEF x, v
<1>7. Good(x) /\ v \in Byte
  BY <1>1 DEF From, x, v
<1>8. L!set(x, r, v) = E!set_reg8(x, r, v) /\ From(x, E!set_reg8(x, r, v))
  BY <1>7, SameSet
<1>9. \A p \in Word : E!set_reg8(At(x, p), r, v) = At(E!set_reg8(x, r, v), p)
  BY <1>7, SetsAt
<1>10. From(n, E!set_reg8(x, r, v))
  BY <1>1, <1>8, FromFrom DEF x
<1> QED BY <1>3, <1>4, <1>5, <1>6, <1>8, <1>9, <1>10

LEMMA StoreTo ==
    ASSUME NEW n, Good(n), NEW a \in Word, NEW v \in Byte
    PROVE  /\ From(n, E!store_to(n, a, v))
           /\ L!updateMemory(n, a, v) = E!store_to(n, a, v)
           /\ \A p \in Word : E!store_to(At(n, p), a, v) = At(E!store_to(n, a, v), p)
BY WriteKeeps, WriteAt, SameBus DEF E!store_to, L!updateMemory

\* Memory is accessed, and the processor is as it was.
SameCpu(n, x) == x.reg = n.reg /\ x.flag = n.flag /\ x.sp = n.sp /\ x.ime = n.ime /\ x.pc = n.pc

LEMMA AccessKeeps ==
    ASSUME NEW n, Good(n), NEW a \in Word, NEW v
    PROVE  SameCpu(n, E!write_ram(n, a, v)) /\ SameCpu(n, E!AfterRead(n, a))
<1>1. n \in Machine
  BY DEF Good
<1>2. \A o, u : SameCpu(n, E!Logged(n, o, a, u))
  BY <1>1 DEF Machine, SameCpu, E!Logged
<1>3. SameCpu(n, E!store(n, E!Cell(a), v))
  BY <1>1 DEF Machine, SameCpu, E!store
<1>4. SameCpu(n, n)
  BY DEF SameCpu
<1> QED BY <1>2, <1>3, <1>4, WriteIs DEF E!AfterRead

LoadTypes == (L!R8Loads \cup L!ALoads \cup L!HlLoads \cup L!R16Loads) \ {"LD_HL_SP_E"}

\* Which part of each backend makes a load.
LEMMA WorkLoads ==
    ASSUME NEW i, NEW op, Agrees(i, op), i.type \in LoadTypes, NEW x
    PROVE  E!Work(x, E!Switch[op], op) = E!loads(x, i.type, i.operands)
<1>1. E!Switch[op].operation = i.type /\ E!CaseOperands(op) = i.operands
  BY DEF Agrees
<1>2. E!Row8(i.type) = 8
  BY DEF E!Row8, LoadTypes, L!R8Loads, L!ALoads, L!HlLoads, L!R16Loads
<1>3. i.type \notin E!ArithmeticOperations /\ i.type \notin {"NOP", "HALT", "STOP", "UNKNOWN", "DI", "EI"}
  BY DEF E!ArithmeticOperations, LoadTypes, L!R8Loads, L!ALoads, L!HlLoads, L!R16Loads
<1> QED BY <1>1, <1>2, <1>3 DEF E!Work

LEMMA EmitLoads ==
    ASSUME NEW n, NEW i
    PROVE  /\ i.type \in L!R8Loads => L!emitInstruction(n, i) = L!r8_loads(n, i)
           /\ i.type \in L!ALoads => L!emitInstruction(n, i) = L!a_loads(n, i)
           /\ i.type \in L!HlLoads => L!emitInstruction(n, i) = L!hl_loads(n, i)
           /\ i.type \in L!R16Loads => L!emitInstruction(n, i) = L!r16_loads(n, i)
<1>1. i.type \in L!R8Loads \cup L!ALoads \cup L!HlLoads \cup L!R16Loads => i.type \notin L!Rotates
  BY DEF L!R8Loads, L!ALoads, L!HlLoads, L!R16Loads, L!Rotates, L!CbGroups
<1> QED BY <1>1 DEF L!emitInstruction, L!R8Loads, L!ALoads, L!HlLoads, L!R16Loads, L!R16Arithmetic, L!FlagOps, L!BitOps

\* What a Works lemma is about.
Runs(n, i, op) == Fetched(n, i, op) /\ Agrees(i, op) /\ Typed(i.type, i.operands) /\ Sized(i)

\* The loads, group by group as opcodes.go emits them: 8-bit registers, A, (HL).
LEMMA R8LoadsWork ==
    ASSUME NEW n, NEW i, NEW op, Runs(n, i, op), i.type \in L!R8Loads
    PROVE  Works(n, i, op)
<1> DEFINE p == n.pc + 1
           x == L!r8_loads(n, i)
           y == E!loads(Past(n), i.type, i.operands)
<1>1. Good(n) /\ p \in Word /\ Past(n) = At(n, p) /\ Good(Past(n))
  BY PastOpcode DEF Runs, Past
<1>2. L!emitInstruction(n, i) = x /\ E!Work(Past(n), E!Switch[op], op) = y
  <2>1. i.type \in LoadTypes
    BY DEF LoadTypes, L!R8Loads
  <2> QED BY <2>1, EmitLoads, WorkLoads DEF Runs
<1>3. L!HL(n) = E!get_hl(n) /\ E!get_hl(n) \in Word /\ E!get_hl(Past(n)) = E!get_hl(n)
  BY <1>1, SamePair, SetsAt DEF Pair
<1>4. Past(n).reg = n.reg /\ \A r \in Reg8 : n.reg[r] \in Byte
  <2>1. \A r \in Reg8 : n.reg[r] \in Byte
    BY <1>1, GoodFields
  <2>2. At(n, p).reg = n.reg
    BY <1>1, SetPc
  <2> QED BY <1>1, <2>1, <2>2
<1>5. i.type \in {"LD_R8_N", "LD_HL_N"} => i.len = 2 /\ i.imm \in Byte /\ E!byte(Past(n)) = i.imm
  <2>1. i.type \in {"LD_R8_N", "LD_HL_N"} => i.len = 2
    BY Lengths DEF Runs, Len2
  <2> QED BY <2>1, Constants DEF Runs, Fetched
<1>6. CASE i.type = "LD_R8_R8"
  <2>1. PICK r, s \in Reg8 : i.operands = <<r, s>>
    BY <1>6 DEF Runs, Typed
  <2>2. x = L!set(n, r, n.reg[s]) /\ y = E!set_reg8(Past(n), r, Past(n).reg[s])
    BY <1>6, <2>1 DEF L!r8_loads, E!loads
  <2> QED BY <1>1, <1>2, <1>4, <2>2, SameSet, SetsAt DEF Works
<1>7. CASE i.type = "LD_R8_N"
  <2>1. PICK r \in Reg8 : i.operands = <<r>>
    BY <1>7 DEF Runs, Typed, R8Column
  <2>2. x = L!set(n, r, i.imm) /\ y = E!set_reg8(Past(n), r, i.imm)
    BY <1>5, <1>7, <2>1 DEF L!r8_loads, E!loads
  <2> QED BY <1>1, <1>2, <1>5, <1>7, <2>2, SameSet, SetsAt DEF Works
<1>8. CASE i.type = "LD_R8_HL"
  <2>1. PICK r \in Reg8 : i.operands = <<r>>
    BY <1>8 DEF Runs, Typed, R8Column
  <2>2. /\ x = L!set(L!AfterRead(n, E!get_hl(n)), r, L!readMemory(n, E!get_hl(n)))
        /\ y = E!load_from(Past(n), r, E!get_hl(n))
    BY <1>3, <1>8, <2>1 DEF L!r8_loads, E!loads
  <2> QED BY <1>1, <1>2, <1>3, <2>2, LoadFrom DEF Works
<1>9. CASE i.type = "LD_HL_R8"
  <2>1. PICK r \in Reg8 : i.operands = <<r>>
    BY <1>9 DEF Runs, Typed
  <2>2. x = L!updateMemory(n, E!get_hl(n), n.reg[r]) /\ y = E!store_to(Past(n), E!get_hl(n), n.reg[r])
    BY <1>3, <1>4, <1>9, <2>1 DEF L!r8_loads, E!loads
  <2> QED BY <1>1, <1>2, <1>3, <1>4, <2>2, StoreTo DEF Works
<1>10. CASE i.type = "LD_HL_N"
  <2>1. x = L!updateMemory(n, E!get_hl(n), i.imm) /\ y = E!store_to(Past(n), E!get_hl(n), i.imm)
    BY <1>3, <1>5, <1>10 DEF L!r8_loads, E!loads
  <2> QED BY <1>1, <1>2, <1>3, <1>5, <1>10, <2>1, StoreTo DEF Works
<1> QED BY <1>6, <1>7, <1>8, <1>9, <1>10 DEF L!R8Loads

LEMMA ALoadsWork ==
    ASSUME NEW n, NEW i, NEW op, Runs(n, i, op), i.type \in L!ALoads
    PROVE  Works(n, i, op)
<1> DEFINE p == n.pc + 1
           x == L!a_loads(n, i)
           y == E!loads(Past(n), i.type, i.operands)
           high == 65280 + n.reg["C"]
<1>1. Good(n) /\ p \in Word /\ Past(n) = At(n, p)
  BY PastOpcode DEF Runs, Past
<1>2. L!emitInstruction(n, i) = x /\ E!Work(Past(n), E!Switch[op], op) = y
  <2>1. i.type \in LoadTypes
    BY DEF LoadTypes, L!ALoads
  <2> QED BY <2>1, EmitLoads, WorkLoads DEF Runs
<1>3. /\ L!readReg16(n, "BC") = E!get_bc(n) /\ E!get_bc(n) \in Word /\ E!get_bc(Past(n)) = E!get_bc(n)
      /\ L!readReg16(n, "DE") = E!get_de(n) /\ E!get_de(n) \in Word /\ E!get_de(Past(n)) = E!get_de(n)
  BY <1>1, SamePair, SetsAt DEF Pair
<1>4. Past(n).reg = n.reg /\ n.reg["A"] \in Byte /\ n.reg["C"] \in Byte
  <2>1. n.reg["A"] \in Byte /\ n.reg["C"] \in Byte
    BY <1>1, GoodFields DEF Reg8
  <2>2. At(n, p).reg = n.reg
    BY <1>1, SetPc
  <2> QED BY <1>1, <2>1, <2>2
<1>5. \A v \in Byte : 65280 + v \in Word
  BY ByteIs, WordIs
<1>6. i.type \in {"LDH_A_N", "LDH_N_A"} => i.imm \in Byte /\ E!byte(Past(n)) = i.imm
  <2>1. i.type \in {"LDH_A_N", "LDH_N_A"} => i.len = 2
    BY Lengths DEF Runs, Len2
  <2> QED BY <2>1, Constants DEF Runs, Fetched
<1>7. i.type \in {"LD_A_NN", "LD_NN_A"} => i.imm \in Word /\ E!word(Past(n)) = i.imm /\ E!AfterRead16(Past(n), Past(n).pc) = Past(n)
  <2>1. i.type \in {"LD_A_NN", "LD_NN_A"} => i.len = 3
    BY Lengths DEF Runs, Len3
  <2> QED BY <2>1, Constants DEF Runs, Fetched
<1>8. ASSUME NEW a \in Word, x = L!load_a(n, a), y = E!load_from(Past(n), "A", a)
      PROVE  Works(n, i, op)
  BY <1>1, <1>2, <1>8, LoadFrom DEF Works, Reg8
<1>9. ASSUME NEW a \in Word, x = L!store_a(n, a), y = E!store_to(Past(n), a, n.reg["A"])
      PROVE  Works(n, i, op)
  BY <1>1, <1>2, <1>4, <1>9, StoreTo DEF Works, L!store_a
<1>10. CASE i.type = "LD_A_BC"
  <2>1. x = L!load_a(n, E!get_bc(n)) /\ y = E!load_from(Past(n), "A", E!get_bc(n))
    BY <1>3, <1>10 DEF L!a_loads, E!loads
  <2> QED BY <1>3, <1>8, <2>1
<1>11. CASE i.type = "LD_A_DE"
  <2>1. x = L!load_a(n, E!get_de(n)) /\ y = E!load_from(Past(n), "A", E!get_de(n))
    BY <1>3, <1>11 DEF L!a_loads, E!loads
  <2> QED BY <1>3, <1>8, <2>1
<1>12. CASE i.type = "LD_A_NN"
  <2>1. x = L!load_a(n, i.imm) /\ y = E!load_from(Past(n), "A", i.imm)
    BY <1>7, <1>12 DEF L!a_loads, E!loads
  <2> QED BY <1>7, <1>8, <1>12, <2>1
<1>13. CASE i.type = "LDH_A_C"
  <2>1. x = L!load_a(n, high) /\ y = E!load_from(Past(n), "A", high)
    BY <1>4, <1>13 DEF L!a_loads, E!loads, L!calculateHighPageAddress
  <2> QED BY <1>4, <1>5, <1>8, <2>1
<1>14. CASE i.type = "LDH_A_N"
  <2>1. x = L!load_a(n, 65280 + i.imm) /\ y = E!load_from(Past(n), "A", 65280 + i.imm)
    BY <1>6, <1>14 DEF L!a_loads, E!loads, L!calculateHighPageAddress
  <2> QED BY <1>5, <1>6, <1>8, <1>14, <2>1
<1>15. CASE i.type = "LD_BC_A"
  <2>1. x = L!store_a(n, E!get_bc(n)) /\ y = E!store_to(Past(n), E!get_bc(n), n.reg["A"])
    BY <1>3, <1>4, <1>15 DEF L!a_loads, E!loads
  <2> QED BY <1>3, <1>9, <2>1
<1>16. CASE i.type = "LD_DE_A"
  <2>1. x = L!store_a(n, E!get_de(n)) /\ y = E!store_to(Past(n), E!get_de(n), n.reg["A"])
    BY <1>3, <1>4, <1>16 DEF L!a_loads, E!loads
  <2> QED BY <1>3, <1>9, <2>1
<1>17. CASE i.type = "LD_NN_A"
  <2>1. x = L!store_a(n, i.imm) /\ y = E!store_to(Past(n), i.imm, n.reg["A"])
    BY <1>4, <1>7, <1>17 DEF L!a_loads, E!loads
  <2> QED BY <1>7, <1>9, <1>17, <2>1
<1>18. CASE i.type = "LDH_C_A"
  <2>1. x = L!store_a(n, high) /\ y = E!store_to(Past(n), high, n.reg["A"])
    BY <1>4, <1>18 DEF L!a_loads, E!loads, L!calculateHighPageAddress
  <2> QED BY <1>4, <1>5, <1>9, <2>1
<1>19. CASE i.type = "LDH_N_A"
  <2>1. x = L!store_a(n, 65280 + i.imm) /\ y = E!store_to(Past(n), 65280 + i.imm, n.reg["A"])
    BY <1>4, <1>6, <1>19 DEF L!a_loads, E!loads, L!calculateHighPageAddress
  <2> QED BY <1>5, <1>6, <1>9, <1>19, <2>1
<1> QED BY <1>10, <1>11, <1>12, <1>13, <1>14, <1>15, <1>16, <1>17, <1>18, <1>19 DEF L!ALoads

LEMMA HlLoadsWork ==
    ASSUME NEW n, NEW i, NEW op, Runs(n, i, op), i.type \in L!HlLoads
    PROVE  Works(n, i, op)
<1> DEFINE p == n.pc + 1
           x == L!hl_loads(n, i)
           y == E!loads(Past(n), i.type, i.operands)
           hl == E!get_hl(n)
           r == E!load_from(n, "A", hl)
           w == E!store_to(n, hl, n.reg["A"])
<1>1. Good(n) /\ p \in Word /\ Past(n) = At(n, p)
  BY PastOpcode DEF Runs, Past
<1>2. L!emitInstruction(n, i) = x /\ E!Work(Past(n), E!Switch[op], op) = y
  <2>1. i.type \in LoadTypes
    BY DEF LoadTypes, L!HlLoads
  <2> QED BY <2>1, EmitLoads, WorkLoads DEF Runs
<1>3. L!HL(n) = hl /\ hl \in Word /\ E!get_hl(Past(n)) = hl
  BY <1>1, SamePair, SetsAt DEF Pair
<1>4. Past(n).reg = n.reg /\ n.reg["A"] \in Byte
  <2>1. n.reg["A"] \in Byte
    BY <1>1, GoodFields DEF Reg8
  <2>2. At(n, p).reg = n.reg
    BY <1>1, SetPc
  <2> QED BY <1>1, <2>1, <2>2
<1>5. /\ From(n, r) /\ L!load_a(n, hl) = r /\ E!load_from(Past(n), "A", hl) = At(r, p)
      /\ From(n, w) /\ L!store_a(n, hl) = w /\ E!store_to(Past(n), hl, n.reg["A"]) = At(w, p)
  BY <1>1, <1>3, <1>4, LoadFrom, StoreTo DEF Reg8, L!store_a
<1>6. E!get_hl(w) = hl
  <2>1. w.reg = n.reg
    BY <1>1, <1>3, AccessKeeps DEF SameCpu, E!store_to
  <2> QED BY <2>1 DEF E!get_hl
<1>7. E!get_hl(r) = hl
  <2>1. E!AfterRead(n, hl).reg = n.reg
    BY <1>1, <1>3, AccessKeeps DEF SameCpu
  <2>2. \A q \in {"H", "L"} : r.reg[q] = n.reg[q]
    BY <2>1 DEF E!load_from, E!set_reg8
  <2> QED BY <2>2 DEF E!get_hl
<1> HIDE DEF r, w, hl
<1>8. hl \in Int
  BY <1>3, WordIs
<1>9. ASSUME NEW z, From(n, z), E!get_hl(z) = hl, NEW d \in Int, x = L!step_hl(z, d),
             y = E!set16(At(z, p), "HL", E!Trunc16(hl + d))
      PROVE  Works(n, i, op)
  <2>1. Good(z) /\ L!HL(z) = hl /\ E!Trunc16(hl + d) \in Word /\ L!Trunc16(hl + d) = E!Trunc16(hl + d) /\ "HL" \in Pair
    BY <1>8, <1>9, SamePair, TruncType DEF From, Pair
  <2>2. x = E!set16(z, "HL", E!Trunc16(hl + d)) /\ From(z, x)
    BY <1>9, <2>1, SameSetPair DEF L!step_hl
  <2>3. y = At(x, p)
    BY <1>1, <1>9, <2>1, <2>2, SetsAt
  <2> QED BY <1>1, <1>2, <1>9, <2>2, <2>3, FromFrom DEF Works
<1>10. CASE i.type = "LD_A_HL_INC"
  <2>1. x = L!step_hl(r, 1) /\ y = E!set16(At(r, p), "HL", E!Trunc16(hl + 1))
    BY <1>3, <1>5, <1>10 DEF L!hl_loads, E!loads
  <2> QED BY <1>5, <1>7, <1>9, <2>1
<1>11. CASE i.type = "LD_A_HL_DEC"
  <2>1. x = L!step_hl(r, -1) /\ y = E!set16(At(r, p), "HL", E!Trunc16(hl - 1))
    BY <1>3, <1>5, <1>11 DEF L!hl_loads, E!loads
  <2>2. hl - 1 = hl + (-1)
    BY <1>8
  <2> QED BY <1>5, <1>7, <1>9, <2>1, <2>2
<1>12. CASE i.type = "LD_HL_INC_A"
  <2>1. x = L!step_hl(w, 1) /\ y = E!set16(At(w, p), "HL", E!Trunc16(hl + 1))
    BY <1>3, <1>4, <1>5, <1>12 DEF L!hl_loads, E!loads
  <2> QED BY <1>5, <1>6, <1>9, <2>1
<1>13. CASE i.type = "LD_HL_DEC_A"
  <2>1. x = L!step_hl(w, -1) /\ y = E!set16(At(w, p), "HL", E!Trunc16(hl - 1))
    BY <1>3, <1>4, <1>5, <1>13 DEF L!hl_loads, E!loads
  <2>2. hl - 1 = hl + (-1)
    BY <1>8
  <2> QED BY <1>5, <1>6, <1>9, <2>1, <2>2
<1> QED BY <1>10, <1>11, <1>12, <1>13 DEF L!HlLoads

-----------------------------------------------------------------------------
(* Words, and arithmetic on pairs *)

WordTypes == {"LD_R16_NN", "LD_NN_SP", "LD_SP_HL"}

\* LD rr,nn; LD (nn),SP; LD SP,HL.
LEMMA WordLoadsWork ==
    ASSUME NEW n, NEW i, NEW op, Runs(n, i, op), i.type \in WordTypes
    PROVE  Works(n, i, op)
<1> DEFINE p == n.pc + 1
           x == L!r16_loads(n, i)
           y == E!loads(Past(n), i.type, i.operands)
<1>1. Good(n) /\ p \in Word /\ Past(n) = At(n, p)
  BY PastOpcode DEF Runs, Past
<1>2. L!emitInstruction(n, i) = x /\ E!Work(Past(n), E!Switch[op], op) = y
  <2>1. i.type \in LoadTypes /\ i.type \in L!R16Loads
    BY DEF LoadTypes, L!R16Loads, WordTypes
  <2> QED BY <2>1, EmitLoads, WorkLoads DEF Runs
<1>3. i.type \in {"LD_R16_NN", "LD_NN_SP"} => i.imm \in Word /\ E!word(Past(n)) = i.imm /\ E!AfterRead16(Past(n), Past(n).pc) = Past(n)
  <2>1. i.type \in {"LD_R16_NN", "LD_NN_SP"} => i.len = 3
    BY Lengths DEF Runs, Len3
  <2> QED BY <2>1, Constants DEF Runs, Fetched
<1>4. n.sp \in Word /\ Past(n).sp = n.sp
  BY <1>1, GoodFields, SetPc
<1>5. CASE i.type = "LD_R16_NN"
  <2>1. PICK r \in {"BC", "DE", "HL", "SP"} : i.operands = <<r>>
    BY <1>5 DEF Runs, Typed, Pairs
  <2>2. x = L!updateReg16(n, r, i.imm) /\ y = E!set16(At(n, p), r, i.imm)
    BY <1>1, <1>3, <1>5, <2>1 DEF L!r16_loads, E!loads
  <2>3. r \in Pair
    BY DEF Pair
  <2> QED BY <1>1, <1>2, <1>3, <1>5, <2>2, <2>3, SameSetPair, SetsAt DEF Works
<1>6. CASE i.type = "LD_NN_SP"
  <2> DEFINE a == i.imm
             b == E!Trunc16(i.imm + 1)
             lo == E!Low(n.sp)
             hi == E!High(n.sp)
             z == E!write_ram(n, a, lo)
  <2>1. /\ a \in Word /\ b \in Word /\ L!Trunc16(a + 1) = b /\ lo \in Byte /\ hi \in Byte
        /\ L!Low(n.sp) = lo /\ L!High(n.sp) = hi
    BY <1>3, <1>4, <1>6, WordIs, TruncType, HighLow
  <2>2. From(n, z) /\ L!updateMemory(n, a, lo) = z /\ E!write_ram(At(n, p), a, lo) = At(z, p)
    BY <1>1, <2>1, StoreTo DEF E!store_to
  <2>3. x = L!updateMemory(z, b, hi)
    BY <1>6, <2>1, <2>2 DEF L!r16_loads
  <2>4. y = E!write_ram(At(z, p), b, hi)
    BY <1>1, <1>3, <1>4, <1>6, <2>2 DEF E!loads, E!write16
  <2> HIDE DEF z, a, b, lo, hi
  <2>5. Good(z)
    BY <2>2 DEF From
  <2>6. From(z, E!write_ram(z, b, hi)) /\ L!updateMemory(z, b, hi) = E!write_ram(z, b, hi)
        /\ E!write_ram(At(z, p), b, hi) = At(E!write_ram(z, b, hi), p)
    BY <1>1, <2>1, <2>5, StoreTo DEF E!store_to
  <2>7. From(n, E!write_ram(z, b, hi))
    BY <2>2, <2>6, FromFrom
  <2> QED BY <1>1, <1>2, <2>3, <2>4, <2>6, <2>7 DEF Works
<1>7. CASE i.type = "LD_SP_HL"
  <2>1. L!HL(n) = E!get_hl(n) /\ E!get_hl(n) \in Word /\ E!get_hl(Past(n)) = E!get_hl(n)
    BY <1>1, SamePair, SetsAt DEF Pair
  <2>2. x = [n EXCEPT !.sp = E!get_hl(n)] /\ y = E!set16(At(n, p), "SP", E!get_hl(n))
    BY <1>1, <1>7, <2>1 DEF L!r16_loads, E!loads
  <2>3. E!set16(n, "SP", E!get_hl(n)) = [n EXCEPT !.sp = E!get_hl(n)]
    BY DEF E!set16
  <2> QED BY <1>1, <1>2, <2>1, <2>2, <2>3, SameSetPair, SetsAt DEF Works, Pair
<1> QED BY <1>5, <1>6, <1>7 DEF WordTypes

\* Which part of each backend makes arithmetic.
LEMMA WorkArithmetic ==
    ASSUME NEW i, NEW op, Agrees(i, op), i.type \in E!ArithmeticOperations, NEW x
    PROVE  E!Work(x, E!Switch[op], op) = E!arithmetic(x, i.type, i.operands)
<1>1. E!Switch[op].operation = i.type /\ E!CaseOperands(op) = i.operands
  BY DEF Agrees
<1>2. E!Row8(i.type) = 8
  BY DEF E!Row8, E!ArithmeticOperations
<1>3. i.type \notin {"NOP", "HALT", "STOP", "UNKNOWN", "DI", "EI"}
  BY DEF E!ArithmeticOperations
<1> QED BY <1>1, <1>2, <1>3 DEF E!Work

LEMMA EmitArithmetic ==
    ASSUME NEW n, NEW i
    PROVE  /\ i.type \in L!R16Arithmetic => L!emitInstruction(n, i) = L!r16_arithmetic(n, i)
           /\ i.type \in L!FlagOps => L!emitInstruction(n, i) = L!flag_ops(n, i)
           /\ i.type \in {"RLCA", "RRCA", "RLA", "RRA"} => L!emitInstruction(n, i) = L!bitwise(n, i)
           /\ i.type \in {"INC_R8", "DEC_R8", "INC_HL", "DEC_HL"} => L!emitInstruction(n, i) = L!bit8_arithmetic(n, i)
<1>1. i.type \in L!R16Arithmetic \cup L!FlagOps \cup {"INC_R8", "DEC_R8", "INC_HL", "DEC_HL"} => i.type \notin L!Rotates
  BY DEF L!R16Arithmetic, L!FlagOps, L!Rotates, L!CbGroups
<1>2. i.type \in {"RLCA", "RRCA", "RLA", "RRA"} => i.type \in L!Rotates
  BY DEF L!Rotates
<1> QED BY <1>1, <1>2 DEF L!emitInstruction, L!R8Loads, L!ALoads, L!HlLoads, L!R16Loads, L!R16Arithmetic, L!FlagOps, L!BitOps

\* What arithmetic ends with: the flags.
LEMMA FlagsAfter ==
    ASSUME NEW n, NEW x, From(n, x), NEW p \in Word, NEW f \in Flags
    PROVE  /\ From(n, [x EXCEPT !.flag = f])
           /\ [At(x, p) EXCEPT !.flag = f] = At([x EXCEPT !.flag = f], p)
<1>1. From(x, [x EXCEPT !.flag = f])
  BY SetFlag DEF From
<1>2. [At(x, p) EXCEPT !.flag = f] = At([x EXCEPT !.flag = f], p)
  BY DEF At
<1> QED BY <1>1, <1>2, FromFrom

\* LD HL,SP+e and ADD SP,e.
LEMMA OffsetWorks ==
    ASSUME NEW n, NEW i, NEW op, Runs(n, i, op), i.type \in {"LD_HL_SP_E", "ADD_SP_E"}
    PROVE  Works(n, i, op)
<1> DEFINE p == n.pc + 1
           d == IF i.type = "LD_HL_SP_E" THEN "HL" ELSE "SP"
           v == L!Trunc16(L!SExt8(i.imm))
           f == L!calculateOffsetFlags(n.sp, v)
           w == E!Trunc16(n.sp + E!SExt8(i.imm))
           h == (n.sp % 16) + (i.imm % 16) > 15
           c == (n.sp % 256) + i.imm > 255
           z == E!set16(n, d, w)
<1>1. Good(n) /\ p \in Word /\ Past(n) = At(n, p) /\ n.sp \in Word /\ At(n, p).sp = n.sp
  BY PastOpcode, GoodFields, SetPc DEF Runs, Past
<1>2. i.imm \in Byte /\ E!byte(At(n, p)) = i.imm
  <2>1. i.len = 2
    BY Lengths DEF Runs, Len2
  <2> QED BY <1>1, <2>1, Constants DEF Runs, Fetched
<1>3. d \in Pair
  BY DEF Pair
<1>4. L!Trunc16(n.sp + v) = w /\ w \in Word /\ f.h = h /\ f.c = c
  BY <1>1, <1>2, OffsetFlags
<1>5. L!emitInstruction(n, i) = L!offset(n, i, d)
  <2>1. CASE i.type = "LD_HL_SP_E"
    BY <2>1, EmitLoads DEF L!R16Loads, L!r16_loads
  <2>2. CASE i.type = "ADD_SP_E"
    BY <2>2, EmitArithmetic DEF L!R16Arithmetic, L!r16_arithmetic
  <2> QED BY <2>1, <2>2
<1>6. E!Work(Past(n), E!Switch[op], op) = E!sp_plus(At(n, p), d, i.imm)
  <2>1. i.type \in E!ArithmeticOperations
    BY DEF E!ArithmeticOperations
  <2>2. E!Work(Past(n), E!Switch[op], op) = E!arithmetic(At(n, p), i.type, i.operands)
    BY <1>1, <2>1, WorkArithmetic DEF Runs
  <2> QED BY <1>2, <2>2 DEF E!arithmetic
<1>7. L!updateReg16(n, d, w) = z /\ From(n, z) /\ E!set16(At(n, p), d, w) = At(z, p)
  BY <1>1, <1>3, <1>4, SameSetPair, SetsAt
<1>8. L!offset(n, i, d) = [L!updateReg16(n, d, L!Trunc16(n.sp + v)) EXCEPT !.flag = [Z |-> FALSE, N |-> FALSE, H |-> f.h, C |-> f.c]]
  BY DEF L!offset
<1> DEFINE g == [Z |-> FALSE, N |-> FALSE, H |-> h, C |-> c]
<1>9. E!sp_plus(At(n, p), d, i.imm) = [E!set16(At(n, p), d, w) EXCEPT !.flag = g]
  BY <1>1 DEF E!sp_plus, E!set_flags
<1> g \in Flags
  BY DEF Flags
<1> HIDE DEF w, z, d, v, f, h, c
<1>10. L!offset(n, i, d) = [z EXCEPT !.flag = g]
  BY <1>4, <1>7, <1>8
<1> HIDE DEF g
<1> QED BY <1>1, <1>5, <1>6, <1>7, <1>9, <1>10, FlagsAfter DEF Works

\* INC rr, DEC rr and ADD HL,rr.
LEMMA PairArithmeticWorks ==
    ASSUME NEW n, NEW i, NEW op, Runs(n, i, op), i.type \in {"INC_R16", "DEC_R16", "ADD_HL_R16"}
    PROVE  Works(n, i, op)
<1> DEFINE p == n.pc + 1
<1>1. Good(n) /\ p \in Word /\ Past(n) = At(n, p)
  BY PastOpcode DEF Runs, Past
<1>2. PICK r \in {"BC", "DE", "HL", "SP"} : i.operands = <<r>>
  BY DEF Runs, Typed, Pairs
<1> DEFINE w == E!get16(n, r)
           hl == E!get_hl(n)
<1>3. r \in Pair /\ "HL" \in Pair
  BY DEF Pair
<1>4. /\ L!readReg16(n, r) = w /\ w \in Word /\ w \in Int /\ E!get16(At(n, p), r) = w
      /\ L!HL(n) = hl /\ hl \in Word /\ hl \in Int /\ E!get_hl(At(n, p)) = hl
  BY <1>1, <1>3, SamePair, SetsAt, WordIs
<1>5. /\ L!emitInstruction(n, i) = L!r16_arithmetic(n, i)
      /\ E!Work(Past(n), E!Switch[op], op) = E!arithmetic(At(n, p), i.type, i.operands)
  BY <1>1, EmitArithmetic, WorkArithmetic DEF Runs, L!R16Arithmetic, E!ArithmeticOperations
<1> HIDE DEF w, hl
<1>6. ASSUME NEW d \in Int, L!r16_arithmetic(n, i) = L!updateReg16(n, r, L!Trunc16(w + d)),
             E!arithmetic(At(n, p), i.type, i.operands) = E!set16(At(n, p), r, E!Trunc16(w + d))
      PROVE  Works(n, i, op)
  <2>1. E!Trunc16(w + d) \in Word /\ L!Trunc16(w + d) = E!Trunc16(w + d)
    BY <1>4, TruncType
  <2> QED BY <1>1, <1>3, <1>5, <1>6, <2>1, SameSetPair, SetsAt DEF Works
<1>7. CASE i.type = "INC_R16"
  BY <1>2, <1>4, <1>6, <1>7 DEF L!r16_arithmetic, L!step_r16, E!arithmetic
<1>8. CASE i.type = "DEC_R16"
  <2>1. w - 1 = w + (-1)
    BY <1>4
  <2>2. L!r16_arithmetic(n, i) = L!updateReg16(n, r, L!Trunc16(w + (-1)))
    BY <1>2, <1>4, <1>8 DEF L!r16_arithmetic, L!step_r16
  <2>3. E!arithmetic(At(n, p), i.type, i.operands) = E!set16(At(n, p), r, E!Trunc16(w - 1))
    BY <1>2, <1>4, <1>8 DEF E!arithmetic
  <2> QED BY <1>6, <2>1, <2>2, <2>3
<1>9. CASE i.type = "ADD_HL_R16"
  <2> DEFINE s == E!Trunc16(hl + w)
             z == E!set16(n, "HL", s)
             h == (hl % 4096) + (w % 4096) > 4095
             c == hl + w > 65535
  <2>1. s \in Word /\ L!Trunc16(hl + w) = s
    BY <1>4, TruncType
  <2>2. From(n, z) /\ L!updateReg16(n, "HL", s) = z /\ E!set16(At(n, p), "HL", s) = At(z, p)
    BY <1>1, <1>3, <2>1, SameSetPair, SetsAt
  <2>3. z.flag = n.flag /\ n.flag.Z \in BOOLEAN /\ At(n, p).flag = n.flag
    <3>1. n \in Machine
      BY <1>1 DEF Good
    <3>2. z.flag = n.flag
      BY <3>1 DEF Machine, E!set16
    <3> QED BY <1>1, <3>2, GoodFields, SetPc
  <2> DEFINE h2 == (hl % 4096) + (w % 4096) >= 4096
             c2 == hl + w >= 65536
             zf == n.flag.Z
  <2>4. (h <=> h2) /\ (c <=> c2)
    BY <1>4
  <2>5. L!r16_arithmetic(n, i) = [L!updateReg16(n, "HL", L!Trunc16(hl + w)) EXCEPT
            !.flag = [Z |-> @.Z, N |-> FALSE, H |-> h2, C |-> c2]]
    BY <1>2, <1>4, <1>9 DEF L!r16_arithmetic, L!add_hl_r16
  <2>6. E!arithmetic(At(n, p), i.type, i.operands) = E!add_hl(At(n, p), w)
    BY <1>2, <1>4, <1>9 DEF E!arithmetic
  <2> h \in BOOLEAN /\ c \in BOOLEAN /\ h2 \in BOOLEAN /\ c2 \in BOOLEAN
    OBVIOUS
  <2> DEFINE g == [Z |-> zf, N |-> FALSE, H |-> h, C |-> c]
  <2>7. E!add_hl(At(n, p), w) = [E!set16(At(n, p), "HL", s) EXCEPT !.flag = g]
    <3> DEFINE v == At(n, p)
    <3>1. E!get_hl(v) = hl /\ v.flag.Z = zf
      BY <1>4, <2>3
    <3> HIDE DEF v
    <3>2. E!add_hl(v, w) = E!set_flags(E!set16(v, "HL", s), zf, FALSE, h, c)
      BY <3>1 DEF E!add_hl
    <3> QED BY <3>2 DEF E!set_flags, v
  <2>8. g \in Flags
    BY <2>3 DEF Flags
  <2> HIDE DEF s, z, h, c, h2, c2
  <2>9. h = h2 /\ c = c2
    BY <2>4
  <2>10. L!r16_arithmetic(n, i) = [z EXCEPT !.flag = [Z |-> @.Z, N |-> FALSE, H |-> h, C |-> c]]
    BY <2>1, <2>2, <2>5, <2>9
  <2>11. L!r16_arithmetic(n, i) = [z EXCEPT !.flag = g]
    BY <2>3, <2>10
  <2> HIDE DEF g
  <2> QED BY <1>1, <1>5, <2>2, <2>6, <2>7, <2>8, <2>11, FlagsAfter DEF Works
<1> QED BY <1>7, <1>8, <1>9

-----------------------------------------------------------------------------
(* Arithmetic, logic and shifts of a byte *)

LEMMA LowOr ==
    ASSUME NEW y \in Word, NEW z \in Byte
    PROVE  E!Or(z, y) % 256 = E!Or(z, y % 256)
<1>1. y \in Int /\ 0 <= y /\ y <= 65535 /\ z \in Int /\ 0 <= z /\ z <= 255
  BY WordIs, ByteIs
<1>2. y % 256 \in Byte /\ y \div 256 \in Byte /\ 0 \in Byte
  BY <1>1, ByteIs
<1>3. E!Or(z, y) = 256 * E!Or8(0, y \div 256) + E!Or8(z, y % 256)
  BY <1>1 DEF E!Or, E!Halves
<1>4. \A a, b \in Byte : E!Or(a, b) = 256 * E!Or8(0, 0) + E!Or8(a, b)
  BY ByteIs DEF E!Or, E!Halves
<1>5. E!Or8(0, 0) = 0
  BY DEF E!Or8, E!Or4, E!Or2, E!Or1, E!Halves
<1>6. \A a, b \in Byte : E!Or8(a, b) \in Int
  BY ByteIs DEF E!Or8, E!Or4, E!Or2, E!Or1, E!Halves
<1>7. \A a, b \in Byte : E!Or8(a, b) = E!Or(a, b)
  BY <1>4, <1>5, <1>6
<1>8. E!Or8(z, y % 256) = E!Or(z, y % 256) /\ E!Or(z, y % 256) \in Byte /\ E!Or8(0, y \div 256) \in Int
  BY <1>2, <1>6, <1>7, ByteBits
<1> QED BY <1>3, <1>8, ByteIs

\* The operations of the eight groups of shifts and rotates.
ShiftOps == <<"RotateLeftCircular", "RotateRightCircular", "RotateLeft", "RotateRight",
              "ShiftLeft", "ShiftRightArithmetic", "Swap", "ShiftRightLogical">>

\* Eight shifts and rotates: the same byte and the same carry.
LEMMA SameShift ==
    ASSUME NEW x \in Byte, NEW c \in {0, 1}, NEW g \in 0..7
    PROVE  LET r == L!BitwiseResult(ShiftOps[1 + g], x, c)
               s == E!Shifted(g, x, c)
           IN  r.r = s.v /\ s.v \in Byte /\ (r.c = 1 <=> s.c) /\ s.c \in BOOLEAN
<1> DEFINE r == L!BitwiseResult(ShiftOps[1 + g], x, c)
           s == E!Shifted(g, x, c)
<1> SUFFICES r.r = s.v /\ s.v \in Byte /\ (r.c = 1 <=> s.c) /\ s.c \in BOOLEAN
  OBVIOUS
<1>1. x \in Int /\ 0 <= x /\ x <= 255
  BY ByteIs
<1> DEFINE up == (2 * x) % 256
           down == x \div 2
           top == x \div 128
           low == x % 2
<1>2. /\ L!Shl(x, 1) = up /\ L!LShr(x, 1) = down /\ L!LShr(x, 7) = top
      /\ L!Shl(x, 4) = (16 * x) % 256 /\ L!LShr(x, 4) = x \div 16
      /\ L!Shl(c, 7) = 128 * c /\ L!And(x, 1) = low /\ L!Shl(low, 7) = 128 * low
      /\ L!And(x, 128) = 128 * top /\ E!And(x, 1) = low /\ E!And(x, 128) = 128 * top
  BY <1>1, Powers, ByteAnd, SameBits DEF L!Shl, L!LShr
<1>3. /\ up \in Byte /\ down \in Byte /\ top \in Byte /\ 128 * low \in Byte /\ 128 * top \in Byte
      /\ (16 * x) % 256 \in Byte /\ x \div 16 \in Byte /\ 128 * c \in Byte /\ c \in Byte
      /\ 2 * x \in Word /\ 16 * x \in Word /\ 128 * x \in Word /\ (128 * x) % 256 = 128 * low
  BY <1>1, ByteIs, WordIs
<1>4. (top = 1 <=> 128 * top # 0) /\ (low = 1 <=> low # 0)
  BY <1>1
<1>5. /\ E!Or(2 * x, c) % 256 = E!Or(up, c) /\ E!Or(2 * x, top) % 256 = E!Or(up, top)
      /\ E!Or(16 * x, x \div 16) % 256 = E!Or((16 * x) % 256, x \div 16)
      /\ E!Or(down, 128 * x) % 256 = E!Or(down, 128 * low)
  BY <1>3, OrLow, LowOr
<1>6. /\ E!Or(up, c) \in Byte /\ E!Or(up, top) \in Byte /\ E!Or((16 * x) % 256, x \div 16) \in Byte
      /\ E!Or(down, 128 * low) \in Byte /\ E!Or(128 * low, down) = E!Or(down, 128 * low)
      /\ E!Or(down, 128 * c) \in Byte /\ E!Or(128 * c, down) = E!Or(down, 128 * c)
      /\ E!Or(down, 128 * top) \in Byte
  BY <1>3, ByteBits
<1>7. \A a, b : L!Or(a, b) = E!Or(a, b)
  BY SameBits
<1> HIDE DEF up, down, top, low
<1>8. CASE g = 0
  <2>1. r = [r |-> E!Or(up, top), c |-> top]
    BY <1>2, <1>7, <1>8 DEF L!BitwiseResult, ShiftOps
  <2>2. s = [v |-> E!Or(up, top), c |-> 128 * top # 0]
    BY <1>2, <1>5, <1>8 DEF E!Shifted, E!cb_rlc, top
  <2> HIDE DEF r, s
  <2> QED BY <1>4, <1>6, <2>1, <2>2
<1>9. CASE g = 1
  <2>1. r = [r |-> E!Or(128 * low, down), c |-> low]
    BY <1>2, <1>7, <1>9 DEF L!BitwiseResult, ShiftOps
  <2>2. s = [v |-> E!Or(down, 128 * low), c |-> low # 0]
    BY <1>2, <1>5, <1>9 DEF E!Shifted, E!cb_rrc, down
  <2> HIDE DEF r, s
  <2> QED BY <1>4, <1>6, <2>1, <2>2
<1>10. CASE g = 2
  <2>1. r = [r |-> E!Or(up, c), c |-> top]
    BY <1>2, <1>7, <1>10 DEF L!BitwiseResult, ShiftOps
  <2>2. s = [v |-> E!Or(up, c), c |-> 128 * top # 0]
    BY <1>2, <1>5, <1>10 DEF E!Shifted, E!cb_rl
  <2> HIDE DEF r, s
  <2> QED BY <1>4, <1>6, <2>1, <2>2
<1>11. CASE g = 3
  <2>1. r = [r |-> E!Or(128 * c, down), c |-> low]
    BY <1>2, <1>7, <1>11 DEF L!BitwiseResult, ShiftOps
  <2>2. s = [v |-> E!Or(down, 128 * c), c |-> low # 0]
    BY <1>2, <1>11 DEF E!Shifted, E!cb_rr, down
  <2> HIDE DEF r, s
  <2> QED BY <1>4, <1>6, <2>1, <2>2
<1>12. CASE g = 4
  <2>1. r = [r |-> up, c |-> top]
    BY <1>2, <1>12 DEF L!BitwiseResult, ShiftOps
  <2>2. s = [v |-> up, c |-> 128 * top # 0]
    BY <1>2, <1>12 DEF E!Shifted, E!cb_sla, up
  <2> HIDE DEF r, s
  <2> QED BY <1>3, <1>4, <2>1, <2>2
<1>13. CASE g = 5
  <2>1. r = [r |-> E!Or(down, 128 * top), c |-> low]
    BY <1>2, <1>7, <1>13 DEF L!BitwiseResult, ShiftOps
  <2>2. s = [v |-> E!Or(down, 128 * top), c |-> low # 0]
    BY <1>2, <1>13 DEF E!Shifted, E!cb_sra, down
  <2> HIDE DEF r, s
  <2> QED BY <1>4, <1>6, <2>1, <2>2
<1>14. CASE g = 6
  <2>1. r = [r |-> E!Or((16 * x) % 256, x \div 16), c |-> 0]
    BY <1>2, <1>7, <1>14 DEF L!BitwiseResult, ShiftOps
  <2>2. s = [v |-> E!Or((16 * x) % 256, x \div 16), c |-> FALSE]
    <3>1. s = E!cb_swap(x)
      BY <1>14 DEF E!Shifted
    <3> QED BY <1>5, <3>1 DEF E!cb_swap
  <2> HIDE DEF r, s
  <2> QED BY <1>6, <2>1, <2>2
<1>15. CASE g = 7
  <2>1. r = [r |-> down, c |-> low]
    BY <1>2, <1>15 DEF L!BitwiseResult, ShiftOps
  <2>2. s = [v |-> down, c |-> low # 0]
    BY <1>2, <1>15 DEF E!Shifted, E!cb_srl, down
  <2> HIDE DEF r, s
  <2> QED BY <1>3, <1>4, <2>1, <2>2
<1>16. g \in {0, 1, 2, 3, 4, 5, 6, 7}
  OBVIOUS
<1> QED BY <1>8, <1>9, <1>10, <1>11, <1>12, <1>13, <1>14, <1>15, <1>16

\* n with a register and the flags set, which is how the 8-bit operations end.
Sets(n, r, v, f) == [E!set_reg8(n, r, v) EXCEPT !.flag = f]
Built(n, r, v, f) == [L!set(n, r, v) EXCEPT !.flag = f]

\* It does not matter whether the register or the flags are set first.
LEMMA SetsBoth ==
    ASSUME NEW n, Good(n), NEW r \in Reg8, NEW v \in Byte, NEW f \in Flags
    PROVE  /\ From(n, Sets(n, r, v, f))
           /\ Built(n, r, v, f) = Sets(n, r, v, f)
           /\ E!set_reg8([n EXCEPT !.flag = f], r, v) = Sets(n, r, v, f)
           /\ \A p \in Word : Sets(At(n, p), r, v, f) = At(Sets(n, r, v, f), p)
<1> DEFINE x == E!set_reg8(n, r, v)
<1>1. From(n, x) /\ L!set(n, r, v) = x
  BY SameSet
<1>2. From(x, [x EXCEPT !.flag = f])
  BY <1>1, SetFlag DEF From
<1>3. E!set_reg8([n EXCEPT !.flag = f], r, v) = [x EXCEPT !.flag = f]
  <2>1. n \in Machine
    BY DEF Good
  <2> QED BY <2>1 DEF Machine, E!set_reg8
<1>4. \A p \in Word : [E!set_reg8(At(n, p), r, v) EXCEPT !.flag = f] = At([x EXCEPT !.flag = f], p)
  <2> TAKE p \in Word
  <2>1. E!set_reg8(At(n, p), r, v) = At(x, p)
    BY SetsAt
  <2> HIDE DEF x
  <2> QED BY <2>1 DEF At
<1> HIDE DEF x
<1> QED BY <1>1, <1>2, <1>3, <1>4, FromFrom DEF Sets, Built, x

\* The operations of the eight rows of 8-bit arithmetic.
AluOps == <<"Add", "Add", "Sub", "Sub", "And", "Xor", "Or", "Compare">>
AluResult(n, row, v) ==
    L!Bit8Result(AluOps[1 + row], n.reg["A"], v, IF row \in {1, 3} THEN E!Carry(n) ELSE 0, n.flag.C)
FlagsOf(res) == [Z |-> res.r = 0, N |-> res.n, H |-> res.h, C |-> res.c]

\* 8-bit arithmetic: what perform8BitArithmetic computes is what alu_add, alu_sub and
\* their kind do, for every A, operand and carry (arithmetic.go, emulator.c).
LEMMA AluIs ==
    ASSUME NEW n, Good(n), NEW v \in Byte, NEW row \in 0..7
    PROVE  LET res == AluResult(n, row, v)
           IN  /\ res.r \in Byte /\ FlagsOf(res) \in Flags
               /\ E!alu(n, row, v) = IF row = 7 THEN [n EXCEPT !.flag = FlagsOf(res)]
                                     ELSE Sets(n, "A", res.r, FlagsOf(res))
<1> DEFINE a == n.reg["A"]
           k == E!Carry(n)
           res == AluResult(n, row, v)
           f == FlagsOf(res)
<1> SUFFICES /\ res.r \in Byte /\ f \in Flags
             /\ E!alu(n, row, v) = IF row = 7 THEN [n EXCEPT !.flag = f] ELSE Sets(n, "A", res.r, f)
  OBVIOUS
<1>1. /\ a \in Byte /\ a \in Int /\ 0 <= a /\ a <= 255 /\ v \in Int /\ 0 <= v /\ v <= 255
      /\ k \in {0, 1} /\ k \in Int /\ 0 <= k /\ k <= 1
  BY GoodFields, ByteIs DEF Reg8, E!Carry
<1>2. E!And(a, 15) = a % 16 /\ E!And(v, 15) = v % 16
  BY <1>1, ByteAnd
<1>3. \A x, y : L!And(x, y) = E!And(x, y) /\ L!Or(x, y) = E!Or(x, y) /\ L!Xor(x, y) = E!Xor(x, y)
  BY SameBits
<1>4. E!And(a, v) \in Byte /\ E!Or(a, v) \in Byte /\ E!Xor(a, v) \in Byte
  BY <1>1, ByteBits
<1> HIDE DEF a, k
<1>5. ASSUME row \in {0, 1}
      PROVE  res.r \in Byte /\ f \in Flags /\ E!alu(n, row, v) = Sets(n, "A", res.r, f)
  <2> DEFINE c == IF row = 1 THEN k ELSE 0
             r == (a + v + c) % 256
             h1 == (a % 16) + (v % 16) + c >= 16
             h2 == (a % 16) + (v % 16) + c > 15
             c1 == a + v + c >= 256
             c2 == a + v + c > 255
             z == r = 0
  <2> h1 \in BOOLEAN /\ h2 \in BOOLEAN /\ c1 \in BOOLEAN /\ c2 \in BOOLEAN /\ z \in BOOLEAN
    OBVIOUS
  <2>1. c \in Int /\ 0 <= c /\ c <= 1
    BY <1>1
  <2>2. res = [r |-> r, n |-> FALSE, h |-> h1, c |-> c1]
    <3>1. AluOps[1 + row] = "Add" /\ (IF row \in {1, 3} THEN k ELSE 0) = c
      BY <1>5 DEF AluOps
    <3>2. res = L!Bit8Result("Add", a, v, c, n.flag.C)
      BY <3>1 DEF AluResult, a, k
    <3> HIDE DEF c
    <3> QED BY <3>2 DEF L!Bit8Result, L!Result
  <2>3. (h1 <=> h2) /\ (c1 <=> c2) /\ r \in Byte
    BY <1>1, <2>1, ByteIs
  <2>4. ASSUME row = 0
        PROVE  E!alu(n, row, v) = [E!set_reg8(n, "A", r) EXCEPT !.flag = [Z |-> z, N |-> FALSE, H |-> h2, C |-> c2]]
    <3>1. E!alu(n, row, v) = E!alu_add(n, v, FALSE) /\ c = 0
      BY <2>4 DEF E!alu
    <3> HIDE DEF c
    <3>2. E!alu_add(n, v, FALSE) = E!set_flags(E!set_reg8(n, "A", r), z, FALSE, h2, c2)
      BY <1>1, <1>2, <3>1 DEF E!alu_add, a
    <3> HIDE DEF r, z, h2, c2
    <3> QED BY <3>1, <3>2 DEF E!set_flags
  <2>5. ASSUME row = 1
        PROVE  E!alu(n, row, v) = [E!set_reg8(n, "A", r) EXCEPT !.flag = [Z |-> z, N |-> FALSE, H |-> h2, C |-> c2]]
    <3>1. E!alu(n, row, v) = E!alu_add(n, v, TRUE) /\ c = k
      BY <2>5 DEF E!alu
    <3> HIDE DEF c
    <3>2. E!alu_add(n, v, TRUE) = E!set_flags(E!set_reg8(n, "A", r), z, FALSE, h2, c2)
      BY <1>1, <1>2, <3>1 DEF E!alu_add, a, k
    <3> HIDE DEF r, z, h2, c2
    <3> QED BY <3>1, <3>2 DEF E!set_flags
  <2>9. E!alu(n, row, v) = [E!set_reg8(n, "A", r) EXCEPT !.flag = [Z |-> z, N |-> FALSE, H |-> h2, C |-> c2]]
    <3> HIDE DEF c, r, z, h2, c2
    <3> QED BY <1>5, <2>4, <2>5
  <2>6. f = [Z |-> z, N |-> FALSE, H |-> h1, C |-> c1] /\ res.r = r
    BY <2>2 DEF FlagsOf
  <2> HIDE DEF c, r, h1, h2, c1, c2, z, res, f
  <2>7. h1 = h2 /\ c1 = c2
    BY <2>3
  <2>8. f \in Flags
    BY <2>6 DEF Flags
  <2> QED BY <2>3, <2>6, <2>7, <2>8, <2>9 DEF Sets
<1>6. ASSUME row \in {2, 3}
      PROVE  res.r \in Byte /\ f \in Flags /\ E!alu(n, row, v) = Sets(n, "A", res.r, f)
  <2> DEFINE c == IF row = 3 THEN k ELSE 0
             r == (a - v - c) % 256
             h == a % 16 < (v % 16) + c
             c1 == a < v + c
             c2 == a - v - c < 0
             z == r = 0
  <2> h \in BOOLEAN /\ c1 \in BOOLEAN /\ c2 \in BOOLEAN /\ z \in BOOLEAN
    OBVIOUS
  <2>1. c \in Int /\ 0 <= c /\ c <= 1
    BY <1>1
  <2>2. res = [r |-> r, n |-> TRUE, h |-> h, c |-> c1]
    <3>1. AluOps[1 + row] = "Sub" /\ (IF row \in {1, 3} THEN k ELSE 0) = c
      BY <1>6 DEF AluOps
    <3>2. res = L!Bit8Result("Sub", a, v, c, n.flag.C)
      BY <3>1 DEF AluResult, a, k
    <3> HIDE DEF c
    <3> QED BY <3>2 DEF L!Bit8Result, L!Result
  <2>3. (c1 <=> c2) /\ r \in Byte
    BY <1>1, <2>1, ByteIs
  <2>4. ASSUME row = 2
        PROVE  E!alu(n, row, v) = [E!set_reg8(n, "A", r) EXCEPT !.flag = [Z |-> z, N |-> TRUE, H |-> h, C |-> c2]]
    <3>1. E!alu(n, row, v) = E!alu_sub(n, v, FALSE) /\ c = 0
      BY <2>4 DEF E!alu
    <3> HIDE DEF c
    <3>2. E!alu_sub(n, v, FALSE) = E!set_flags(E!set_reg8(n, "A", r), z, TRUE, h, c2)
      BY <1>1, <1>2, <3>1 DEF E!alu_sub, a
    <3> HIDE DEF r, z, h, c2
    <3> QED BY <3>1, <3>2 DEF E!set_flags
  <2>5. ASSUME row = 3
        PROVE  E!alu(n, row, v) = [E!set_reg8(n, "A", r) EXCEPT !.flag = [Z |-> z, N |-> TRUE, H |-> h, C |-> c2]]
    <3>1. E!alu(n, row, v) = E!alu_sub(n, v, TRUE) /\ c = k
      BY <2>5 DEF E!alu
    <3> HIDE DEF c
    <3>2. E!alu_sub(n, v, TRUE) = E!set_flags(E!set_reg8(n, "A", r), z, TRUE, h, c2)
      BY <1>1, <1>2, <3>1 DEF E!alu_sub, a, k
    <3> HIDE DEF r, z, h, c2
    <3> QED BY <3>1, <3>2 DEF E!set_flags
  <2>9. E!alu(n, row, v) = [E!set_reg8(n, "A", r) EXCEPT !.flag = [Z |-> z, N |-> TRUE, H |-> h, C |-> c2]]
    <3> HIDE DEF c, r, z, h, c2
    <3> QED BY <1>6, <2>4, <2>5
  <2>6. f = [Z |-> z, N |-> TRUE, H |-> h, C |-> c1] /\ res.r = r
    BY <2>2 DEF FlagsOf
  <2> HIDE DEF c, r, h, c1, c2, z, res, f
  <2>7. c1 = c2
    BY <2>3
  <2>8. f \in Flags
    BY <2>6 DEF Flags
  <2> QED BY <2>3, <2>6, <2>7, <2>8, <2>9 DEF Sets
<1>7. ASSUME row = 4
      PROVE  res.r \in Byte /\ f \in Flags /\ E!alu(n, row, v) = Sets(n, "A", res.r, f)
  <2> DEFINE r == E!And(a, v)
             z == r = 0
  <2>1. res = [r |-> r, n |-> FALSE, h |-> TRUE, c |-> FALSE]
    <3>1. AluOps[1 + row] = "And" /\ (IF row \in {1, 3} THEN k ELSE 0) = 0
      BY <1>7 DEF AluOps
    <3>2. res = L!Bit8Result("And", a, v, 0, n.flag.C)
      BY <3>1 DEF AluResult, a, k
    <3> QED BY <1>3, <3>2 DEF L!Bit8Result, L!Result
  <2>2. E!alu(n, row, v) = [E!set_reg8(n, "A", r) EXCEPT !.flag = [Z |-> z, N |-> FALSE, H |-> TRUE, C |-> FALSE]]
    BY <1>7 DEF E!alu, E!alu_and, E!set_flags, a
  <2>3. f = [Z |-> z, N |-> FALSE, H |-> TRUE, C |-> FALSE] /\ res.r = r
    BY <2>1 DEF FlagsOf
  <2> z \in BOOLEAN
    OBVIOUS
  <2>4. r \in Byte
    BY <1>4
  <2> HIDE DEF r, z, res, f
  <2>5. f \in Flags
    BY <2>3 DEF Flags
  <2> QED BY <2>2, <2>3, <2>4, <2>5 DEF Sets
<1>8. ASSUME row = 5
      PROVE  res.r \in Byte /\ f \in Flags /\ E!alu(n, row, v) = Sets(n, "A", res.r, f)
  <2> DEFINE r == E!Xor(a, v)
             z == r = 0
  <2>1. res = [r |-> r, n |-> FALSE, h |-> FALSE, c |-> FALSE]
    <3>1. AluOps[1 + row] = "Xor" /\ (IF row \in {1, 3} THEN k ELSE 0) = 0
      BY <1>8 DEF AluOps
    <3>2. res = L!Bit8Result("Xor", a, v, 0, n.flag.C)
      BY <3>1 DEF AluResult, a, k
    <3> QED BY <1>3, <3>2 DEF L!Bit8Result, L!Result
  <2>2. E!alu(n, row, v) = [E!set_reg8(n, "A", r) EXCEPT !.flag = [Z |-> z, N |-> FALSE, H |-> FALSE, C |-> FALSE]]
    BY <1>8 DEF E!alu, E!alu_xor, E!set_flags, a
  <2>3. f = [Z |-> z, N |-> FALSE, H |-> FALSE, C |-> FALSE] /\ res.r = r
    BY <2>1 DEF FlagsOf
  <2> z \in BOOLEAN
    OBVIOUS
  <2>4. r \in Byte
    BY <1>4
  <2> HIDE DEF r, z, res, f
  <2>5. f \in Flags
    BY <2>3 DEF Flags
  <2> QED BY <2>2, <2>3, <2>4, <2>5 DEF Sets
<1>9. ASSUME row = 6
      PROVE  res.r \in Byte /\ f \in Flags /\ E!alu(n, row, v) = Sets(n, "A", res.r, f)
  <2> DEFINE r == E!Or(a, v)
             z == r = 0
  <2>1. res = [r |-> r, n |-> FALSE, h |-> FALSE, c |-> FALSE]
    <3>1. AluOps[1 + row] = "Or" /\ (IF row \in {1, 3} THEN k ELSE 0) = 0
      BY <1>9 DEF AluOps
    <3>2. res = L!Bit8Result("Or", a, v, 0, n.flag.C)
      BY <3>1 DEF AluResult, a, k
    <3> QED BY <1>3, <3>2 DEF L!Bit8Result, L!Result
  <2>2. E!alu(n, row, v) = [E!set_reg8(n, "A", r) EXCEPT !.flag = [Z |-> z, N |-> FALSE, H |-> FALSE, C |-> FALSE]]
    BY <1>9 DEF E!alu, E!alu_or, E!set_flags, a
  <2>3. f = [Z |-> z, N |-> FALSE, H |-> FALSE, C |-> FALSE] /\ res.r = r
    BY <2>1 DEF FlagsOf
  <2> z \in BOOLEAN
    OBVIOUS
  <2>4. r \in Byte
    BY <1>4
  <2> HIDE DEF r, z, res, f
  <2>5. f \in Flags
    BY <2>3 DEF Flags
  <2> QED BY <2>2, <2>3, <2>4, <2>5 DEF Sets
<1>10. ASSUME row = 7
       PROVE  res.r \in Byte /\ f \in Flags /\ E!alu(n, row, v) = [n EXCEPT !.flag = f]
  <2> DEFINE r == (a - v - 0) % 256
             z1 == r = 0
             z2 == a = v
             h1 == a % 16 < (v % 16) + 0
             h2 == a % 16 < v % 16
             c1 == a < v + 0
             c2 == a < v
  <2> z1 \in BOOLEAN /\ z2 \in BOOLEAN /\ h1 \in BOOLEAN /\ h2 \in BOOLEAN /\ c1 \in BOOLEAN /\ c2 \in BOOLEAN
    OBVIOUS
  <2>1. res = [r |-> r, n |-> TRUE, h |-> h1, c |-> c1]
    <3>1. AluOps[1 + row] = "Compare" /\ (IF row \in {1, 3} THEN k ELSE 0) = 0
      BY <1>10 DEF AluOps
    <3>2. res = L!Bit8Result("Compare", a, v, 0, n.flag.C)
      BY <3>1 DEF AluResult, a, k
    <3> QED BY <3>2 DEF L!Bit8Result, L!Result
  <2>2. (z1 <=> z2) /\ (h1 <=> h2) /\ (c1 <=> c2) /\ r \in Byte
    BY <1>1, ByteIs
  <2>3. E!alu(n, row, v) = [n EXCEPT !.flag = [Z |-> z2, N |-> TRUE, H |-> h2, C |-> c2]]
    <3>1. E!alu(n, row, v) = E!alu_cp(n, v)
      BY <1>10 DEF E!alu
    <3>2. E!alu_cp(n, v) = E!set_flags(n, z2, TRUE, h2, c2)
      BY <1>2 DEF E!alu_cp, a
    <3> HIDE DEF z2, h2, c2
    <3> QED BY <3>1, <3>2 DEF E!set_flags
  <2>4. f = [Z |-> z1, N |-> TRUE, H |-> h1, C |-> c1] /\ res.r = r
    BY <2>1 DEF FlagsOf
  <2> HIDE DEF r, z1, z2, h1, h2, c1, c2, res, f
  <2>5. z1 = z2 /\ h1 = h2 /\ c1 = c2
    BY <2>2
  <2>6. f \in Flags
    BY <2>4 DEF Flags
  <2> QED BY <2>2, <2>3, <2>4, <2>5, <2>6
<1>11. row \in {0, 1, 2, 3, 4, 5, 6, 7}
  OBVIOUS
<1> HIDE DEF res, f
<1> QED BY <1>5, <1>6, <1>7, <1>8, <1>9, <1>10, <1>11

\* INC and DEC of a byte.
LEMMA IncreaseIs ==
    ASSUME NEW n, Good(n), NEW v \in Byte
    PROVE  LET res == L!Bit8Result("Increase", n.reg["A"], v, 0, n.flag.C)
           IN  /\ res.r \in Byte /\ FlagsOf(res) \in Flags
               /\ E!inc8(v) = res.r /\ E!inc8_flags(n, v) = [n EXCEPT !.flag = FlagsOf(res)]
<1> DEFINE res == L!Bit8Result("Increase", n.reg["A"], v, 0, n.flag.C)
           f == FlagsOf(res)
           r == (v + 1) % 256
           z == r = 0
           h1 == (v % 16) + 1 >= 16
           h2 == v % 16 = 15
           c == n.flag.C
<1> SUFFICES res.r \in Byte /\ f \in Flags /\ E!inc8(v) = res.r /\ E!inc8_flags(n, v) = [n EXCEPT !.flag = f]
  OBVIOUS
<1> z \in BOOLEAN /\ h1 \in BOOLEAN /\ h2 \in BOOLEAN
  OBVIOUS
<1>1. v \in Int /\ 0 <= v /\ v <= 255 /\ E!And(v, 15) = v % 16 /\ c \in BOOLEAN
  BY ByteIs, ByteAnd, GoodFields
<1>2. r \in Byte /\ (h1 <=> h2)
  BY <1>1, ByteIs
<1>3. res = [r |-> r, n |-> FALSE, h |-> h1, c |-> c]
  BY DEF L!Bit8Result, L!Result
<1>4. f = [Z |-> z, N |-> FALSE, H |-> h1, C |-> c] /\ res.r = r
  <2> HIDE DEF res, r, h1, c
  <2>1. res.r = r /\ res.n = FALSE /\ res.h = h1 /\ res.c = c
    BY <1>3
  <2> QED BY <2>1 DEF FlagsOf
<1>5. E!inc8(v) = r
  BY DEF E!inc8
<1>6. E!inc8_flags(n, v) = E!set_flags(n, z, FALSE, h2, c)
  <2> HIDE DEF r, c
  <2>1. E!inc8(v) = r /\ E!And(v, 15) = v % 16 /\ c = n.flag.C
    BY <1>1, <1>5 DEF c
  <2> QED BY <2>1 DEF E!inc8_flags
<1> HIDE DEF res, f, r, z, h1, h2, c
<1>7. h1 = h2
  BY <1>2
<1>8. f \in Flags
  BY <1>1, <1>4 DEF Flags
<1> QED BY <1>2, <1>4, <1>5, <1>6, <1>7, <1>8 DEF E!set_flags

LEMMA DecreaseIs ==
    ASSUME NEW n, Good(n), NEW v \in Byte
    PROVE  LET res == L!Bit8Result("Decrease", n.reg["A"], v, 0, n.flag.C)
           IN  /\ res.r \in Byte /\ FlagsOf(res) \in Flags
               /\ E!dec8(v) = res.r /\ E!dec8_flags(n, v) = [n EXCEPT !.flag = FlagsOf(res)]
<1> DEFINE res == L!Bit8Result("Decrease", n.reg["A"], v, 0, n.flag.C)
           f == FlagsOf(res)
           r == (v - 1) % 256
           z == r = 0
           h1 == v % 16 < 1
           h2 == v % 16 = 0
           c == n.flag.C
<1> SUFFICES res.r \in Byte /\ f \in Flags /\ E!dec8(v) = res.r /\ E!dec8_flags(n, v) = [n EXCEPT !.flag = f]
  OBVIOUS
<1> z \in BOOLEAN /\ h1 \in BOOLEAN /\ h2 \in BOOLEAN
  OBVIOUS
<1>1. v \in Int /\ 0 <= v /\ v <= 255 /\ E!And(v, 15) = v % 16 /\ c \in BOOLEAN
  BY ByteIs, ByteAnd, GoodFields
<1>2. r \in Byte /\ (h1 <=> h2)
  BY <1>1, ByteIs
<1>3. res = [r |-> r, n |-> TRUE, h |-> h1, c |-> c]
  BY DEF L!Bit8Result, L!Result
<1>4. f = [Z |-> z, N |-> TRUE, H |-> h1, C |-> c] /\ res.r = r
  <2> HIDE DEF res, r, h1, c
  <2>1. res.r = r /\ res.n = TRUE /\ res.h = h1 /\ res.c = c
    BY <1>3
  <2> QED BY <2>1 DEF FlagsOf
<1>5. E!dec8(v) = r
  BY DEF E!dec8
<1>6. E!dec8_flags(n, v) = E!set_flags(n, z, TRUE, h2, c)
  <2> HIDE DEF r, c
  <2>1. E!dec8(v) = r /\ E!And(v, 15) = v % 16 /\ c = n.flag.C
    BY <1>1, <1>5 DEF c
  <2> QED BY <2>1 DEF E!dec8_flags
<1> HIDE DEF res, f, r, z, h1, h2, c
<1>7. h1 = h2
  BY <1>2
<1>8. f \in Flags
  BY <1>1, <1>4 DEF Flags
<1> QED BY <1>2, <1>4, <1>5, <1>6, <1>7, <1>8 DEF E!set_flags

\* DAA: the same digits and flags.
LEMMA DaaIs ==
    ASSUME NEW n, Good(n)
    PROVE  \E r \in Byte, f \in Flags :
               \A p \in Word : L!daa(n) = Sets(n, "A", r, f) /\ E!daa(At(n, p)) = Sets(At(n, p), "A", r, f)
<1> DEFINE a == n.reg["A"]
           nf == n.flag.N
           hf == n.flag.H
           cf == n.flag.C
           adjHi == cf \/ a > 153
           addResult == a + (IF hf \/ a % 16 > 9 THEN 6 ELSE 0) + (IF adjHi THEN 96 ELSE 0)
           subResult == a - (IF cf THEN 96 ELSE 0) - (IF hf THEN 6 ELSE 0)
           r == (IF nf THEN subResult ELSE addResult) % 256
           a1 == IF nf THEN (IF cf THEN a - 96 ELSE a) % 256 ELSE IF cf \/ a > 153 THEN (a + 96) % 256 ELSE a
           c1 == cf \/ (~nf /\ a > 153)
           a2 == (CASE nf /\ hf -> a1 - 6 [] ~nf /\ (hf \/ a1 % 16 > 9) -> a1 + 6 [] OTHER -> a1) % 256
           z == r = 0
           c == IF nf THEN cf ELSE adjHi
           f == [Z |-> z, N |-> nf, H |-> FALSE, C |-> c]
<1> z \in BOOLEAN /\ c1 \in BOOLEAN
  OBVIOUS
<1>1. /\ a \in Int /\ 0 <= a /\ a <= 255 /\ a \in Byte
      /\ nf \in BOOLEAN /\ hf \in BOOLEAN /\ cf \in BOOLEAN /\ c \in BOOLEAN
  BY GoodFields, ByteIs DEF Reg8
<1>2. /\ nf => a1 = (IF cf THEN a - 96 ELSE a) % 256
      /\ ~nf /\ adjHi => a1 = (a + 96) % 256
      /\ ~nf /\ ~adjHi => a1 = a
  OBVIOUS
<1>3. /\ nf /\ hf => a2 = (a1 - 6) % 256
      /\ ~nf /\ (hf \/ a1 % 16 > 9) => a2 = (a1 + 6) % 256
      /\ ~(nf /\ hf) /\ ~(~nf /\ (hf \/ a1 % 16 > 9)) => a2 = a1 % 256
  OBVIOUS
<1>4. a1 \in Int /\ (~nf => a1 % 16 = a % 16)
  BY <1>1, <1>2
<1>5. a2 = r /\ (c1 <=> c) /\ r \in Byte
  <2>1. a2 = r
    <3>1. CASE nf
      BY <1>1, <1>2, <1>3, <3>1
    <3>2. CASE ~nf
      BY <1>1, <1>2, <1>3, <1>4, <3>2
    <3> QED BY <1>1, <3>1, <3>2
  <2>2. r \in Int /\ 0 <= r /\ r <= 255
    BY <1>1
  <2> QED BY <1>1, <2>1, <2>2, ByteIs
<1>6. L!daa(n) = [L!set(n, "A", r) EXCEPT !.flag = f]
  BY DEF L!daa
<1>7. ASSUME NEW p \in Word
      PROVE  E!daa(At(n, p)) = E!set_flags(E!set_reg8(At(n, p), "A", a2), a2 = 0, nf, FALSE, c1)
  <2> DEFINE x == At(n, p)
  <2>1. x.reg = n.reg /\ x.flag = n.flag
    BY SetPc
  <2>3. x.reg["A"] = a /\ x.flag.N = nf /\ x.flag.H = hf /\ x.flag.C = cf
    BY <2>1
  <2> HIDE DEF x, a, nf, hf, cf
  <2>2. E!daa(x) = E!set_flags(E!set_reg8(x, "A", a2), a2 = 0, nf, FALSE, c1)
    BY <1>1, <2>3 DEF E!daa
  <2> QED BY <2>2 DEF x
<1> HIDE DEF r, c, c1, a2, a1, adjHi, addResult, subResult, nf, a, hf, cf
<1>8. c1 = c
  BY <1>1, <1>5
<1>9. f \in Flags
  BY <1>1 DEF Flags
<1> HIDE DEF f
<1>10. ASSUME NEW p \in Word PROVE E!daa(At(n, p)) = Sets(At(n, p), "A", r, f)
  BY <1>5, <1>7, <1>8 DEF E!set_flags, Sets, f
<1>11. L!daa(n) = Sets(n, "A", r, f)
  <2>1. "A" \in Reg8 /\ r \in Byte
    BY <1>5 DEF Reg8
  <2>2. Built(n, "A", r, f) = Sets(n, "A", r, f)
    BY <1>9, <2>1, SetsBoth
  <2> QED BY <1>6, <2>2 DEF Built
<1> QED BY <1>5, <1>9, <1>10, <1>11

-----------------------------------------------------------------------------
(* The instructions that go on to the next one *)

\* x is n, or n when it has read memory: what an 8-bit operation sets its result in.
LEMMA SetsWork ==
    ASSUME NEW n, NEW i, NEW op, Runs(n, i, op), NEW x, From(n, x),
           NEW r \in Reg8, NEW v \in Byte, NEW f \in Flags,
           L!emitInstruction(n, i) = Sets(x, r, v, f),
           E!Work(Past(n), E!Switch[op], op) = Sets(At(x, n.pc + 1), r, v, f)
    PROVE  Works(n, i, op)
<1>1. n.pc + 1 \in Word
  BY PastOpcode DEF Runs
<1>2. Good(x)
  BY DEF From
<1>3. From(x, Sets(x, r, v, f)) /\ Sets(At(x, n.pc + 1), r, v, f) = At(Sets(x, r, v, f), n.pc + 1)
  BY <1>1, <1>2, SetsBoth
<1> QED BY <1>3, FromFrom DEF Works

\* NOP, HALT, STOP, DI and EI.
LEMMA RestWorks ==
    ASSUME NEW n, NEW i, NEW op, Runs(n, i, op), i.type \in {"NOP", "HALT", "STOP", "DI", "EI"}
    PROVE  Works(n, i, op)
<1> DEFINE p == n.pc + 1
<1>1. Good(n) /\ p \in Word /\ Past(n) = At(n, p)
  BY PastOpcode DEF Runs, Past
<1>2. E!Switch[op].operation = i.type
  BY DEF Runs, Agrees
<1>3. E!Row8(i.type) = 8 /\ i.type \notin E!ArithmeticOperations
  BY DEF E!Row8, E!ArithmeticOperations
<1>4. i.type \notin L!Rotates
  BY DEF L!Rotates, L!CbGroups
<1>5. CASE i.type \in {"NOP", "HALT", "STOP"}
  <2>1. L!emitInstruction(n, i) = n
    BY <1>5 DEF L!emitInstruction, L!R8Loads, L!ALoads, L!HlLoads, L!R16Loads, L!R16Arithmetic, L!FlagOps, L!Rotates, L!CbGroups, L!BitOps
  <2>2. E!Work(Past(n), E!Switch[op], op) = Past(n)
    BY <1>2, <1>3, <1>5 DEF E!Work
  <2> QED BY <1>1, <2>1, <2>2, GoodIsFrom DEF Works
<1>6. ASSUME NEW b \in {0, 1}, i.type = IF b = 0 THEN "DI" ELSE "EI"
      PROVE  Works(n, i, op)
  <2>1. L!emitInstruction(n, i) = [n EXCEPT !.ime = b]
    BY <1>4, <1>6 DEF L!emitInstruction, L!R8Loads, L!ALoads, L!HlLoads, L!R16Loads, L!R16Arithmetic, L!FlagOps, L!BitOps, L!di, L!ei
  <2>2. E!Work(Past(n), E!Switch[op], op) = [Past(n) EXCEPT !.ime = b]
    BY <1>2, <1>3, <1>6 DEF E!Work
  <2>3. [At(n, p) EXCEPT !.ime = b] = At([n EXCEPT !.ime = b], p)
    BY DEF At
  <2>4. From(n, [n EXCEPT !.ime = b])
    BY <1>1, SetIme
  <2> DEFINE x == [n EXCEPT !.ime = b]
             y == [At(n, p) EXCEPT !.ime = b]
  <2>5. L!emitInstruction(n, i) = x /\ E!Work(Past(n), E!Switch[op], op) = y /\ y = At(x, p) /\ From(n, x)
    BY <1>1, <2>1, <2>2, <2>3, <2>4
  <2> HIDE DEF x, y
  <2> QED BY <1>1, <2>5 DEF Works
<1>7. CASE i.type = "DI"
  BY <1>6, <1>7
<1>8. CASE i.type = "EI"
  BY <1>6, <1>8
<1> QED BY <1>5, <1>7, <1>8

\* CCF, SCF, CPL and DAA.
LEMMA FlagOpsWork ==
    ASSUME NEW n, NEW i, NEW op, Runs(n, i, op), i.type \in L!FlagOps
    PROVE  Works(n, i, op)
<1> DEFINE p == n.pc + 1
           y == At(n, p)
           a == n.reg["A"]
           z == n.flag.Z
           c == n.flag.C
<1>1. Good(n) /\ p \in Word /\ Past(n) = y /\ From(n, n)
  BY PastOpcode, GoodIsFrom DEF Runs, Past
<1>2. a \in Byte /\ z \in BOOLEAN /\ c \in BOOLEAN /\ y.reg = n.reg /\ y.flag = n.flag /\ "A" \in Reg8
  BY <1>1, GoodFields, SetPc DEF Reg8
<1>3. /\ L!emitInstruction(n, i) = L!flag_ops(n, i)
      /\ E!Work(y, E!Switch[op], op) = E!arithmetic(y, i.type, i.operands)
  <2>1. i.type \in E!ArithmeticOperations
    BY DEF L!FlagOps, E!ArithmeticOperations
  <2> QED BY <2>1, EmitArithmetic, WorkArithmetic DEF Runs
<1> HIDE DEF y
<1>4. ASSUME NEW f \in Flags, L!flag_ops(n, i) = [n EXCEPT !.flag = f],
             E!arithmetic(y, i.type, i.operands) = [y EXCEPT !.flag = f]
      PROVE  Works(n, i, op)
  BY <1>1, <1>3, <1>4, FlagsAfter DEF Works, y
<1>5. CASE i.type = "CCF"
  <2> DEFINE f == [Z |-> z, N |-> FALSE, H |-> FALSE, C |-> ~c]
  <2>1. f \in Flags
    BY <1>2 DEF Flags
  <2>2. L!flag_ops(n, i) = [n EXCEPT !.flag = f]
    BY <1>5 DEF L!flag_ops
  <2>3. E!arithmetic(y, i.type, i.operands) = [y EXCEPT !.flag = f]
    BY <1>2, <1>5 DEF E!arithmetic, E!set_flags
  <2> HIDE DEF f
  <2> QED BY <1>4, <2>1, <2>2, <2>3
<1>6. CASE i.type = "SCF"
  <2> DEFINE f == [Z |-> z, N |-> FALSE, H |-> FALSE, C |-> TRUE]
  <2>1. f \in Flags
    BY <1>2 DEF Flags
  <2>2. L!flag_ops(n, i) = [n EXCEPT !.flag = f]
    BY <1>6 DEF L!flag_ops
  <2>3. E!arithmetic(y, i.type, i.operands) = [y EXCEPT !.flag = f]
    BY <1>2, <1>6 DEF E!arithmetic, E!set_flags
  <2> HIDE DEF f
  <2> QED BY <1>4, <2>1, <2>2, <2>3
<1>7. CASE i.type = "CPL"
  <2> DEFINE f == [Z |-> z, N |-> TRUE, H |-> TRUE, C |-> c]
             v == 255 - a
  <2>1. f \in Flags /\ v \in Byte /\ L!Xor(a, 255) = v
    BY <1>2, ByteIs, ByteXor, SameBits DEF Flags
  <2>2. L!flag_ops(n, i) = [n EXCEPT !.reg["A"] = L!Xor(a, 255), !.flag = f]
    BY <1>7 DEF L!flag_ops
  <2>3. E!arithmetic(y, i.type, i.operands) = [E!set_reg8(y, "A", v) EXCEPT !.flag = f]
    BY <1>2, <1>7 DEF E!arithmetic, E!set_flags
  <2> HIDE DEF f, v
  <2>4. L!flag_ops(n, i) = [E!set_reg8(n, "A", v) EXCEPT !.flag = f]
    BY <2>1, <2>2 DEF E!set_reg8
  <2> QED BY <1>1, <1>2, <1>3, <2>1, <2>3, <2>4, SetsWork DEF Sets, y
<1>8. CASE i.type = "DAA"
  <2>1. PICK r \in Byte, f \in Flags :
            \A q \in Word : L!daa(n) = Sets(n, "A", r, f) /\ E!daa(At(n, q)) = Sets(At(n, q), "A", r, f)
    BY <1>1, DaaIs
  <2>2. L!flag_ops(n, i) = L!daa(n) /\ E!arithmetic(y, i.type, i.operands) = E!daa(y)
    BY <1>8 DEF L!flag_ops, E!arithmetic
  <2> QED BY <1>1, <1>2, <1>3, <2>1, <2>2, SetsWork DEF y
<1> QED BY <1>5, <1>6, <1>7, <1>8 DEF L!FlagOps

AluTypes == AluR8 \cup AluHL \cup AluN

\* Both backends find the operation in the type.
LEMMA AluNamed ==
    ASSUME NEW t, t \in AluTypes
    PROVE  /\ E!Row8(t) \in 0..7
           /\ L!bit8ArithmeticInstrTypeToOpType(t) = AluOps[1 + E!Row8(t)]
           /\ (L!toIncludeCarryFlag(t) <=> E!Row8(t) \in {1, 3})
<1>1. CASE t \in {"ADD_R8", "ADD_HL", "ADD_N"}
  BY <1>1 DEF E!Row8, L!bit8ArithmeticInstrTypeToOpType, L!toIncludeCarryFlag, AluOps
<1>2. CASE t \in {"ADC_R8", "ADC_HL", "ADC_N"}
  BY <1>2 DEF E!Row8, L!bit8ArithmeticInstrTypeToOpType, L!toIncludeCarryFlag, AluOps
<1>3. CASE t \in {"SUB_R8", "SUB_HL", "SUB_N"}
  BY <1>3 DEF E!Row8, L!bit8ArithmeticInstrTypeToOpType, L!toIncludeCarryFlag, AluOps
<1>4. CASE t \in {"SBC_R8", "SBC_HL", "SBC_N"}
  BY <1>4 DEF E!Row8, L!bit8ArithmeticInstrTypeToOpType, L!toIncludeCarryFlag, AluOps
<1>5. CASE t \in {"AND_R8", "AND_HL", "AND_N"}
  BY <1>5 DEF E!Row8, L!bit8ArithmeticInstrTypeToOpType, L!toIncludeCarryFlag, AluOps
<1>6. CASE t \in {"XOR_R8", "XOR_HL", "XOR_N"}
  BY <1>6 DEF E!Row8, L!bit8ArithmeticInstrTypeToOpType, L!toIncludeCarryFlag, AluOps
<1>7. CASE t \in {"OR_R8", "OR_HL", "OR_N"}
  BY <1>7 DEF E!Row8, L!bit8ArithmeticInstrTypeToOpType, L!toIncludeCarryFlag, AluOps
<1>8. CASE t \in {"CP_R8", "CP_HL", "CP_N"}
  BY <1>8 DEF E!Row8, L!bit8ArithmeticInstrTypeToOpType, L!toIncludeCarryFlag, AluOps
<1> QED BY <1>1, <1>2, <1>3, <1>4, <1>5, <1>6, <1>7, <1>8 DEF AluTypes, AluR8, AluHL, AluN

\* One operation on a byte: the same machine, whatever the address.
LEMMA AluEnds ==
    ASSUME NEW n, Good(n), NEW v \in Byte, NEW row \in 0..7, NEW i
    PROVE  /\ L!perform8BitArithmetic(n, i, AluOps[1 + row], v, IF row \in {1, 3} THEN E!Carry(n) ELSE 0) = E!alu(n, row, v)
           /\ From(n, E!alu(n, row, v))
           /\ \A p \in Word : E!alu(At(n, p), row, v) = At(E!alu(n, row, v), p)
<1> DEFINE c == IF row \in {1, 3} THEN E!Carry(n) ELSE 0
           res == AluResult(n, row, v)
           f == FlagsOf(res)
           o == AluOps[1 + row]
           y == L!perform8BitArithmetic(n, i, o, v, c)
<1> SUFFICES /\ y = E!alu(n, row, v) /\ From(n, E!alu(n, row, v))
             /\ \A p \in Word : E!alu(At(n, p), row, v) = At(E!alu(n, row, v), p)
  OBVIOUS
<1>1. /\ res.r \in Byte /\ f \in Flags
      /\ E!alu(n, row, v) = IF row = 7 THEN [n EXCEPT !.flag = f] ELSE Sets(n, "A", res.r, f)
  BY AluIs
<1>2. row = 7 => o = "Compare"
  BY DEF AluOps
<1>3. row # 7 => o \in {"Add", "Sub", "And", "Xor", "Or"}
  BY DEF AluOps
<1>4. res = L!Bit8Result(o, n.reg["A"], v, c, n.flag.C)
  BY DEF AluResult
<1>5. \A p \in Word : AluResult(At(n, p), row, v) = res /\ Good(At(n, p))
  BY SetPc DEF AluResult, E!Carry
<1>6. "A" \in Reg8
  BY DEF Reg8
<1> HIDE DEF c, res, o
<1>7. y = [(CASE o = "Compare" -> n [] o \in {"Increase", "Decrease"} -> L!Back(n, i, res.r)
               [] OTHER -> L!set(n, "A", res.r)) EXCEPT !.flag = f]
  BY <1>4 DEF L!perform8BitArithmetic, FlagsOf
<1>8. \A p \in Word : E!alu(At(n, p), row, v) = IF row = 7 THEN [At(n, p) EXCEPT !.flag = f]
                                                ELSE Sets(At(n, p), "A", res.r, f)
  BY <1>5, AluIs
<1> HIDE DEF y, f
<1>9. CASE row = 7
  <2>1. y = [n EXCEPT !.flag = f]
    BY <1>2, <1>7, <1>9
  <2>2. E!alu(n, row, v) = [n EXCEPT !.flag = f]
    BY <1>1, <1>9
  <2>3. From(n, [n EXCEPT !.flag = f])
    BY <1>1, SetFlag
  <2>4. \A p \in Word : E!alu(At(n, p), row, v) = At([n EXCEPT !.flag = f], p)
    <3> TAKE p \in Word
    <3>1. E!alu(At(n, p), row, v) = [At(n, p) EXCEPT !.flag = f]
      BY <1>8, <1>9
    <3> QED BY <3>1 DEF At
  <2> DEFINE x == [n EXCEPT !.flag = f]
  <2>5. y = x /\ E!alu(n, row, v) = x /\ From(n, x) /\ \A p \in Word : E!alu(At(n, p), row, v) = At(x, p)
    BY <2>1, <2>2, <2>3, <2>4
  <2> HIDE DEF x
  <2> QED BY <2>5
<1>10. CASE row # 7
  <2>1. y = Built(n, "A", res.r, f)
    BY <1>3, <1>7, <1>10 DEF Built
  <2>2. E!alu(n, row, v) = Sets(n, "A", res.r, f)
    BY <1>1, <1>10
  <2>3. \A p \in Word : E!alu(At(n, p), row, v) = Sets(At(n, p), "A", res.r, f)
    BY <1>8, <1>10
  <2>4. /\ From(n, Sets(n, "A", res.r, f)) /\ Built(n, "A", res.r, f) = Sets(n, "A", res.r, f)
        /\ \A p \in Word : Sets(At(n, p), "A", res.r, f) = At(Sets(n, "A", res.r, f), p)
    BY <1>1, <1>6, SetsBoth
  <2> QED BY <2>1, <2>2, <2>3, <2>4
<1> QED BY <1>9, <1>10

\* The rows of 8-bit arithmetic and the eighth register of each column.
Columns(i, op) == (i.type \in AluHL => op % 8 = 6) /\ (i.type \in AluR8 => op % 8 # 6)

LEMMA AluChoice ==
    ASSUME NEW n, NEW i, NEW op, NEW x, Agrees(i, op), i.type \in AluTypes
    PROVE  LET row == E!Row8(i.type)
               w == E!Work(x, E!Switch[op], op)
           IN  /\ L!emitInstruction(n, i) = L!bit8_arithmetic(n, i)
               /\ i.len = 2 => w = E!alu(x, row, E!byte(x))
               /\ i.len = 1 /\ op % 8 = 6 => w = E!alu(E!AfterRead(x, E!get_hl(x)), row, E!read_ram(x, E!get_hl(x)))
               /\ i.len = 1 /\ op % 8 # 6 => w = E!alu(x, row, x.reg[i.operands[1]])
<1> DEFINE row == E!Row8(i.type)
           w == E!Work(x, E!Switch[op], op)
<1> SUFFICES /\ L!emitInstruction(n, i) = L!bit8_arithmetic(n, i)
             /\ i.len = 2 => w = E!alu(x, row, E!byte(x))
             /\ i.len = 1 /\ op % 8 = 6 => w = E!alu(E!AfterRead(x, E!get_hl(x)), row, E!read_ram(x, E!get_hl(x)))
             /\ i.len = 1 /\ op % 8 # 6 => w = E!alu(x, row, x.reg[i.operands[1]])
  OBVIOUS
<1>1. i.type \notin {"NOP", "HALT", "STOP", "UNKNOWN", "DI", "EI"} /\ i.type \notin E!ArithmeticOperations
  BY SMTT(30) DEF AluTypes, AluR8, AluHL, AluN, E!ArithmeticOperations
<1>2. i.type \notin L!Rotates /\ i.type \notin L!BitOps /\ i.type \notin L!FlagOps /\ i.type \notin L!R16Arithmetic
  BY SMTT(30) DEF AluTypes, AluR8, AluHL, AluN, L!Rotates, L!CbGroups, L!BitOps, L!FlagOps, L!R16Arithmetic
<1>3. i.type \notin L!R8Loads /\ i.type \notin L!ALoads /\ i.type \notin L!HlLoads /\ i.type \notin L!R16Loads
  BY SMTT(30) DEF AluTypes, AluR8, AluHL, AluN, L!R8Loads, L!ALoads, L!HlLoads, L!R16Loads
<1>4. row \in Int /\ row < 8 /\ row # 8
  BY AluNamed
<1>5. L!emitInstruction(n, i) = L!bit8_arithmetic(n, i)
  BY <1>1, <1>2, <1>3 DEF L!emitInstruction
<1>6. E!Switch[op].operation = i.type /\ E!CaseOperands(op) = i.operands /\ E!Switch[op].len = i.len
  BY DEF Agrees
<1>7. w = CASE row < 8 /\ i.len = 2 -> E!alu(x, row, E!byte(x))
            [] row < 8 /\ i.len = 1 /\ op % 8 = 6 -> E!alu(E!AfterRead(x, E!get_hl(x)), row, E!read_ram(x, E!get_hl(x)))
            [] row < 8 /\ i.len = 1 /\ op % 8 # 6 -> E!alu(x, row, x.reg[i.operands[1]])
            [] OTHER -> E!loads(x, i.type, i.operands)
  BY <1>1, <1>6 DEF E!Work
<1> HIDE DEF row, w
<1> QED BY <1>4, <1>5, <1>7

\* The operand in memory is read first.
LEMMA MemoryOperand ==
    ASSUME NEW n, Good(n), NEW i, i.operands = <<"(HL)">>
    PROVE  LET hl == E!get_hl(n)
               x == E!AfterRead(n, hl)
               v == E!read_ram(n, hl)
           IN  /\ hl \in Word /\ v \in Byte /\ From(n, x) /\ x.reg = n.reg /\ x.flag = n.flag
               /\ L!UsesMemory(i) /\ L!AfterOperand(n, i) = x /\ L!Operand(n, i) = v
               /\ L!HL(x) = hl /\ E!get_hl(x) = hl
               /\ \A p \in Word : /\ E!get_hl(At(n, p)) = hl /\ E!AfterRead(At(n, p), hl) = At(x, p)
                                  /\ E!read_ram(At(n, p), hl) = v
<1> DEFINE hl == E!get_hl(n)
           x == E!AfterRead(n, hl)
           v == E!read_ram(n, hl)
<1>1. hl \in Word /\ L!HL(n) = hl
  BY SamePair DEF Pair
<1>2. v \in Byte /\ From(n, x)
  BY <1>1, ReadType, ReadKeeps
<1>3. x.reg = n.reg /\ x.flag = n.flag
  BY <1>1, AccessKeeps DEF SameCpu
<1>4. i.operands # <<>> /\ i.operands[Len(i.operands)] = "(HL)"
  OBVIOUS
<1>5. L!UsesMemory(i)
  BY <1>4 DEF L!UsesMemory
<1>6. L!AfterOperand(n, i) = x
  BY <1>1, <1>5, SameBus DEF L!AfterOperand
<1>7. L!Operand(n, i) = v
  BY <1>1, <1>4, <1>5, SameRead DEF L!Operand
<1>8. E!get_hl(x) = hl
  BY <1>3 DEF E!get_hl
<1>9. L!HL(x) = hl
  <2>1. Good(x)
    BY <1>2 DEF From
  <2> HIDE DEF x, hl
  <2> QED BY <1>8, <2>1, SamePair DEF Pair
<1>10. \A p \in Word : E!get_hl(At(n, p)) = hl /\ E!AfterRead(At(n, p), hl) = At(x, p) /\ E!read_ram(At(n, p), hl) = v
  BY <1>1, SetsAt, ReadAt
<1> QED BY <1>1, <1>2, <1>3, <1>5, <1>6, <1>7, <1>8, <1>9, <1>10

\* The operand in a register costs no access.
LEMMA ByteOperand ==
    ASSUME NEW n, NEW i, NEW r \in Reg8, i.operands = <<r>>
    PROVE  ~L!UsesMemory(i) /\ L!AfterOperand(n, i) = n /\ L!Operand(n, i) = n.reg[r]
           /\ \A x, v : L!Back(x, i, v) = L!set(x, r, v)
<1>1. i.operands # <<>> /\ i.operands[Len(i.operands)] = r /\ r # "(HL)"
  BY DEF Reg8
<1>2. ~L!UsesMemory(i)
  BY <1>1 DEF L!UsesMemory
<1> QED BY <1>1, <1>2 DEF L!AfterOperand, L!Operand, L!Back

\* Every 8-bit operation, on a register, on (HL) and on a constant.
LEMMA AluWorks ==
    ASSUME NEW n, NEW i, NEW op, Runs(n, i, op), Columns(i, op), i.type \in AluTypes
    PROVE  Works(n, i, op)
<1> DEFINE p == n.pc + 1
           y == At(n, p)
           row == E!Row8(i.type)
           hl == E!get_hl(n)
           o == AluOps[1 + row]
           c == IF row \in {1, 3} THEN E!Carry(n) ELSE 0
           w == E!Work(y, E!Switch[op], op)
<1>1. Good(n) /\ p \in Word /\ Past(n) = y /\ y.reg = n.reg
  BY PastOpcode, SetPc DEF Runs, Past
<1>2. /\ row \in 0..7 /\ L!bit8ArithmeticInstrTypeToOpType(i.type) = o
      /\ (IF L!toIncludeCarryFlag(i.type) /\ n.flag.C THEN 1 ELSE 0) = c
  BY AluNamed DEF E!Carry
<1>3. /\ L!emitInstruction(n, i) = L!bit8_arithmetic(n, i)
      /\ i.len = 2 => w = E!alu(y, row, E!byte(y))
      /\ i.len = 1 /\ op % 8 = 6 => w = E!alu(E!AfterRead(y, E!get_hl(y)), row, E!read_ram(y, E!get_hl(y)))
      /\ i.len = 1 /\ op % 8 # 6 => w = E!alu(y, row, y.reg[i.operands[1]])
  BY AluChoice DEF Runs
<1>4. L!bit8_arithmetic(n, i) = L!perform8BitArithmetic(L!AfterOperand(n, i), i, o, L!Operand(n, i), c)
  BY <1>2 DEF L!bit8_arithmetic
<1>5. i.type \notin Len3 /\ (i.type \in AluN <=> i.type \in Len2) /\ i.len \in {1, 2, 3}
      /\ (i.type \in AluR8 \/ i.type \in AluHL \/ i.type \in AluN)
  BY SMTT(30) DEF Runs, Sized, AluTypes, AluR8, AluHL, AluN, Len2, Len3
<1>6. i.type \in AluN => i.len = 2
  BY <1>5, Lengths DEF Runs
<1>7. i.type \notin AluN => i.len = 1
  BY <1>5 DEF Runs, Sized
<1>8. ASSUME NEW x, From(n, x), NEW v \in Byte, w = E!alu(At(x, p), row, v),
             L!emitInstruction(n, i) = L!perform8BitArithmetic(x, i, o, v, IF row \in {1, 3} THEN E!Carry(x) ELSE 0)
      PROVE  Works(n, i, op)
  <2>1. Good(x)
    BY <1>8 DEF From
  <2>2. /\ L!emitInstruction(n, i) = E!alu(x, row, v) /\ From(x, E!alu(x, row, v))
        /\ E!alu(At(x, p), row, v) = At(E!alu(x, row, v), p)
    BY <1>1, <1>2, <1>8, <2>1, AluEnds
  <2> QED BY <1>1, <1>8, <2>2, FromFrom DEF Works
<1>9. CASE i.type \in AluR8
  <2>1. PICK r \in Reg8 : i.operands = <<r>>
    BY <1>9 DEF Runs, Typed
  <2>2. L!AfterOperand(n, i) = n /\ L!Operand(n, i) = n.reg[r] /\ n.reg[r] \in Byte
    BY <1>1, <2>1, ByteOperand, GoodFields
  <2>3. i.len = 1 /\ op % 8 # 6 /\ i.operands[1] = r
    BY <1>7, <1>9, <2>1, <1>5 DEF Columns, AluR8, AluN
  <2>4. w = E!alu(y, row, n.reg[r])
    BY <1>1, <1>3, <2>3
  <2> HIDE DEF w, row, o, y, c
  <2>5. L!emitInstruction(n, i) = L!perform8BitArithmetic(n, i, o, n.reg[r], c)
    BY <1>3, <1>4, <2>2
  <2> QED BY <1>1, <1>8, <2>2, <2>4, <2>5, GoodIsFrom DEF y, c
<1>10. CASE i.type \in AluHL
  <2> DEFINE x == E!AfterRead(n, hl)
             v == E!read_ram(n, hl)
  <2>1. i.operands = <<"(HL)">>
    BY <1>10 DEF Runs, Typed
  <2>2. /\ hl \in Word /\ v \in Byte /\ From(n, x) /\ x.flag = n.flag
        /\ L!AfterOperand(n, i) = x /\ L!Operand(n, i) = v
        /\ E!get_hl(y) = hl /\ E!AfterRead(y, hl) = At(x, p) /\ E!read_ram(y, hl) = v
    BY <1>1, <2>1, MemoryOperand
  <2>3. i.len = 1 /\ op % 8 = 6
    BY <1>7, <1>10, <1>5 DEF Columns, AluHL, AluN
  <2>4. w = E!alu(At(x, p), row, v)
    BY <1>3, <2>2, <2>3
  <2>5. c = IF row \in {1, 3} THEN E!Carry(x) ELSE 0
    BY <2>2 DEF E!Carry
  <2> HIDE DEF w, row, o, y, c, x, v
  <2>6. L!emitInstruction(n, i) = L!perform8BitArithmetic(x, i, o, v, c)
    BY <1>3, <1>4, <2>2
  <2> QED BY <1>8, <2>2, <2>4, <2>5, <2>6
<1>11. CASE i.type \in AluN
  <2>1. i.operands = <<>>
    <3>1. i.type \notin Named
      BY <1>11, SMTT(30) DEF Named, AluR8, AluHL, AluN, R8Column, Pairs, Stacked, Conditional
    <3>2. Typed(i.type, i.operands)
      BY DEF Runs
    <3> QED BY <3>1, <3>2 DEF Typed
  <2>2. i.imm \in Byte /\ E!byte(y) = i.imm
    BY <1>1, <1>6, <1>11, Constants DEF Runs, Fetched
  <2>3. L!AfterOperand(n, i) = n /\ L!Operand(n, i) = i.imm
    BY <2>1 DEF L!AfterOperand, L!UsesMemory, L!Operand
  <2>4. w = E!alu(y, row, i.imm)
    BY <1>3, <1>6, <1>11, <2>2
  <2> HIDE DEF w, row, o, y, c
  <2>5. L!emitInstruction(n, i) = L!perform8BitArithmetic(n, i, o, i.imm, c)
    BY <1>3, <1>4, <2>3
  <2> QED BY <1>1, <1>8, <2>2, <2>4, <2>5, GoodIsFrom DEF y, c
<1> QED BY <1>5, <1>9, <1>10, <1>11

StepTypes == {"INC_R8", "DEC_R8", "INC_HL", "DEC_HL"}

\* A store does not see the flags.
LEMMA FlagsWrite ==
    ASSUME NEW n, Good(n), NEW a \in Word, NEW v, NEW f
    PROVE  E!write_ram([n EXCEPT !.flag = f], a, v) = [E!write_ram(n, a, v) EXCEPT !.flag = f]
<1>1. n \in Machine
  BY DEF Good
<1> DEFINE x == [n EXCEPT !.flag = f]
<1>2. x.log = n.log /\ x.ram = n.ram /\ x.cycles = n.cycles
  BY <1>1 DEF Machine
<1>3. CASE E!IsRegister(a)
  <2> DEFINE g == Append(n.log, [op |-> "write", addr |-> a, val |-> v, at |-> n.cycles])
  <2>1. E!write_ram(x, a, v) = [x EXCEPT !.log = g] /\ E!write_ram(n, a, v) = [n EXCEPT !.log = g]
    BY <1>2, <1>3, WriteIs DEF E!Logged
  <2> HIDE DEF g
  <2>2. [[n EXCEPT !.flag = f] EXCEPT !.log = g] = [[n EXCEPT !.log = g] EXCEPT !.flag = f]
    OBVIOUS
  <2> QED BY <2>1, <2>2
<1>4. CASE ~E!IsRegister(a) /\ a \in E!Rom
  BY <1>4, WriteIs
<1>5. CASE ~E!IsRegister(a) /\ a \notin E!Rom
  <2> DEFINE g == [b \in DOMAIN n.ram \cup {E!Cell(a)} |-> IF b = E!Cell(a) THEN v ELSE n.ram[b]]
  <2>1. E!store(x, E!Cell(a), v) = [x EXCEPT !.ram = g] /\ E!store(n, E!Cell(a), v) = [n EXCEPT !.ram = g]
    BY <1>2 DEF E!store
  <2>2. E!write_ram(x, a, v) = [x EXCEPT !.ram = g] /\ E!write_ram(n, a, v) = [n EXCEPT !.ram = g]
    BY <1>5, <2>1, WriteIs
  <2> HIDE DEF g
  <2>3. [[n EXCEPT !.flag = f] EXCEPT !.ram = g] = [[n EXCEPT !.ram = g] EXCEPT !.flag = f]
    OBVIOUS
  <2> QED BY <2>2, <2>3
<1> QED BY <1>3, <1>4, <1>5

\* Which part of each backend makes INC and DEC.
LEMMA StepChoice ==
    ASSUME NEW n, NEW i, NEW op, Runs(n, i, op), i.type \in StepTypes
    PROVE  /\ E!Work(Past(n), E!Switch[op], op) = E!arithmetic(Past(n), i.type, i.operands)
           /\ L!emitInstruction(n, i) =
                  L!perform8BitArithmetic(L!AfterOperand(n, i), i,
                      IF i.type \in {"INC_R8", "INC_HL"} THEN "Increase" ELSE "Decrease", L!Operand(n, i), 0)
<1>1. i.type \in E!ArithmeticOperations
  BY DEF StepTypes, E!ArithmeticOperations
<1>2. ~L!toIncludeCarryFlag(i.type)
  BY DEF StepTypes, L!toIncludeCarryFlag
<1>3. L!bit8ArithmeticInstrTypeToOpType(i.type) = IF i.type \in {"INC_R8", "INC_HL"} THEN "Increase" ELSE "Decrease"
  BY DEF StepTypes, L!bit8ArithmeticInstrTypeToOpType
<1>4. L!emitInstruction(n, i) = L!bit8_arithmetic(n, i)
  BY EmitArithmetic DEF StepTypes
<1> QED BY <1>1, <1>2, <1>3, <1>4, WorkArithmetic DEF Runs, L!bit8_arithmetic

\* What the two backends do with the byte and the flags, at either address.
LEMMA StepBytes ==
    ASSUME NEW n, Good(n), NEW v \in Byte, NEW o \in {"Increase", "Decrease"}
    PROVE  LET res == L!Bit8Result(o, n.reg["A"], v, 0, n.flag.C)
           IN  /\ res.r \in Byte /\ FlagsOf(res) \in Flags
               /\ res.r = IF o = "Increase" THEN E!inc8(v) ELSE E!dec8(v)
               /\ \A p \in Word : o = "Increase" => E!inc8_flags(At(n, p), v) = [At(n, p) EXCEPT !.flag = FlagsOf(res)]
               /\ \A p \in Word : o = "Decrease" => E!dec8_flags(At(n, p), v) = [At(n, p) EXCEPT !.flag = FlagsOf(res)]
<1>1. \A p \in Word : Good(At(n, p)) /\ At(n, p).reg = n.reg /\ At(n, p).flag = n.flag
  BY SetPc
<1>2. \A p \in Word : E!inc8_flags(At(n, p), v) = [At(n, p) EXCEPT !.flag = FlagsOf(L!Bit8Result("Increase", n.reg["A"], v, 0, n.flag.C))]
  <2> TAKE p \in Word
  <2> DEFINE x == At(n, p)
  <2>1. Good(x) /\ x.reg = n.reg /\ x.flag = n.flag
    BY <1>1
  <2> HIDE DEF x
  <2>2. E!inc8_flags(x, v) = [x EXCEPT !.flag = FlagsOf(L!Bit8Result("Increase", x.reg["A"], v, 0, x.flag.C))]
    BY <2>1, IncreaseIs
  <2> QED BY <2>1, <2>2 DEF x
<1>3. \A p \in Word : E!dec8_flags(At(n, p), v) = [At(n, p) EXCEPT !.flag = FlagsOf(L!Bit8Result("Decrease", n.reg["A"], v, 0, n.flag.C))]
  <2> TAKE p \in Word
  <2> DEFINE x == At(n, p)
  <2>1. Good(x) /\ x.reg = n.reg /\ x.flag = n.flag
    BY <1>1
  <2> HIDE DEF x
  <2>2. E!dec8_flags(x, v) = [x EXCEPT !.flag = FlagsOf(L!Bit8Result("Decrease", x.reg["A"], v, 0, x.flag.C))]
    BY <2>1, DecreaseIs
  <2> QED BY <2>1, <2>2 DEF x
<1>4. CASE o = "Increase"
  BY <1>2, <1>4, IncreaseIs
<1>5. CASE o = "Decrease"
  BY <1>3, <1>5, DecreaseIs
<1> QED BY <1>4, <1>5

\* INC r and DEC r.
LEMMA ByteStepsWork ==
    ASSUME NEW n, NEW i, NEW op, Runs(n, i, op), i.type \in {"INC_R8", "DEC_R8"}
    PROVE  Works(n, i, op)
<1> DEFINE p == n.pc + 1
           y == At(n, p)
           o == IF i.type \in {"INC_R8", "INC_HL"} THEN "Increase" ELSE "Decrease"
<1>1. Good(n) /\ p \in Word /\ Past(n) = y /\ y.reg = n.reg /\ Good(y)
  BY PastOpcode, SetPc DEF Runs, Past
<1>2. PICK r \in Reg8 : i.operands = <<r>>
  BY DEF Runs, Typed, R8Column
<1> DEFINE v == n.reg[r]
           res == L!Bit8Result(o, n.reg["A"], v, 0, n.flag.C)
           f == FlagsOf(res)
<1>3. /\ L!AfterOperand(n, i) = n /\ L!Operand(n, i) = v /\ v \in Byte
      /\ \A x, u : L!Back(x, i, u) = L!set(x, r, u)
  BY <1>1, <1>2, ByteOperand, GoodFields
<1>4. o \in {"Increase", "Decrease"}
  OBVIOUS
<1>5. /\ E!Work(Past(n), E!Switch[op], op) = E!arithmetic(y, i.type, i.operands)
      /\ L!emitInstruction(n, i) = L!perform8BitArithmetic(n, i, o, v, 0)
  BY <1>1, <1>3, StepChoice DEF StepTypes
<1>6. /\ res.r \in Byte /\ f \in Flags
      /\ res.r = IF o = "Increase" THEN E!inc8(v) ELSE E!dec8(v)
      /\ o = "Increase" => E!inc8_flags(y, v) = [y EXCEPT !.flag = f]
      /\ o = "Decrease" => E!dec8_flags(y, v) = [y EXCEPT !.flag = f]
  <2> HIDE DEF v, o
  <2> QED BY <1>1, <1>3, <1>4, StepBytes
<1>7. L!perform8BitArithmetic(n, i, o, v, 0) = Built(n, r, res.r, f)
  <2>1. L!Back(n, i, res.r) = L!set(n, r, res.r)
    BY <1>3
  <2>2. L!perform8BitArithmetic(n, i, o, v, 0) = [L!Back(n, i, res.r) EXCEPT !.flag = f]
    <3> HIDE DEF v
    <3> QED BY DEF L!perform8BitArithmetic, FlagsOf
  <2> HIDE DEF res, f, o, v
  <2> QED BY <2>1, <2>2 DEF Built
<1>8. E!arithmetic(y, i.type, i.operands) = E!set_reg8([y EXCEPT !.flag = f], r, res.r)
  <2> HIDE DEF y, v, res, f
  <2>1. CASE i.type = "INC_R8"
    <3>1. E!arithmetic(y, i.type, i.operands) = E!set_reg8(E!inc8_flags(y, v), r, E!inc8(v))
      BY <1>1, <1>2, <2>1 DEF E!arithmetic, v
    <3> QED BY <1>6, <2>1, <3>1
  <2>2. CASE i.type = "DEC_R8"
    <3>1. E!arithmetic(y, i.type, i.operands) = E!set_reg8(E!dec8_flags(y, v), r, E!dec8(v))
      BY <1>1, <1>2, <2>2 DEF E!arithmetic, v
    <3> QED BY <1>6, <2>2, <3>1
  <2> QED BY <2>1, <2>2
<1> HIDE DEF res, f, v, o
<1>9. Built(n, r, res.r, f) = Sets(n, r, res.r, f) /\ E!set_reg8([y EXCEPT !.flag = f], r, res.r) = Sets(y, r, res.r, f)
  <2> HIDE DEF y
  <2>1. Built(n, r, res.r, f) = Sets(n, r, res.r, f)
    <3>1. Good(n) /\ res.r \in Byte /\ f \in Flags
      BY <1>1, <1>6
    <3> QED BY <3>1, SetsBoth
  <2>2. E!set_reg8([y EXCEPT !.flag = f], r, res.r) = Sets(y, r, res.r, f)
    <3>1. y \in Machine
      BY <1>1 DEF Good
    <3>2. E!set_reg8([y EXCEPT !.flag = f], r, res.r) = [E!set_reg8(y, r, res.r) EXCEPT !.flag = f]
      BY <3>1 DEF Machine, E!set_reg8
    <3> QED BY <3>2 DEF Sets
  <2> QED BY <2>1, <2>2
<1>10. From(n, n)
  BY <1>1, GoodIsFrom
<1> QED BY <1>1, <1>5, <1>6, <1>7, <1>8, <1>9, <1>10, SetsWork

\* INC (HL) and DEC (HL): the byte is read, written and the flags set.
LEMMA MemoryStepsWork ==
    ASSUME NEW n, NEW i, NEW op, Runs(n, i, op), i.type \in {"INC_HL", "DEC_HL"}
    PROVE  Works(n, i, op)
<1> DEFINE p == n.pc + 1
           y == At(n, p)
           o == IF i.type \in {"INC_R8", "INC_HL"} THEN "Increase" ELSE "Decrease"
           hl == E!get_hl(n)
           x == E!AfterRead(n, hl)
           v == E!read_ram(n, hl)
           res == L!Bit8Result(o, x.reg["A"], v, 0, x.flag.C)
           f == FlagsOf(res)
           z == E!write_ram(x, hl, res.r)
<1>1. Good(n) /\ p \in Word /\ Past(n) = y
  BY PastOpcode DEF Runs, Past
<1>2. i.operands = <<"(HL)">>
  BY DEF Runs, Typed
<1>3. /\ hl \in Word /\ v \in Byte /\ From(n, x) /\ L!UsesMemory(i) /\ L!AfterOperand(n, i) = x /\ L!Operand(n, i) = v
      /\ L!HL(x) = hl /\ E!get_hl(y) = hl /\ E!AfterRead(y, hl) = At(x, p) /\ E!read_ram(y, hl) = v
  BY <1>1, <1>2, MemoryOperand
<1>4. o \in {"Increase", "Decrease"}
  OBVIOUS
<1>5. /\ E!Work(Past(n), E!Switch[op], op) = E!arithmetic(y, i.type, i.operands)
      /\ L!emitInstruction(n, i) = L!perform8BitArithmetic(x, i, o, v, 0)
  BY <1>1, <1>3, StepChoice DEF StepTypes
<1>6. Good(x)
  BY <1>3 DEF From
<1>7. /\ res.r \in Byte /\ f \in Flags
      /\ res.r = IF o = "Increase" THEN E!inc8(v) ELSE E!dec8(v)
      /\ o = "Increase" => E!inc8_flags(At(x, p), v) = [At(x, p) EXCEPT !.flag = f]
      /\ o = "Decrease" => E!dec8_flags(At(x, p), v) = [At(x, p) EXCEPT !.flag = f]
  <2> HIDE DEF v, o, x
  <2> QED BY <1>1, <1>3, <1>4, <1>6, StepBytes
<1>8. From(x, z) /\ L!updateMemory(x, hl, res.r) = z /\ E!write_ram(At(x, p), hl, res.r) = At(z, p)
  <2> HIDE DEF x, hl, res
  <2> QED BY <1>1, <1>3, <1>6, <1>7, StoreTo DEF E!store_to
<1>9. L!perform8BitArithmetic(x, i, o, v, 0) = [z EXCEPT !.flag = f]
  <2>1. L!Back(x, i, res.r) = z
    <3> HIDE DEF x, hl, res, z
    <3> QED BY <1>3, <1>8 DEF L!Back
  <2>2. L!perform8BitArithmetic(x, i, o, v, 0) = [L!Back(x, i, res.r) EXCEPT !.flag = f]
    <3> HIDE DEF x, v
    <3> QED BY DEF L!perform8BitArithmetic, FlagsOf
  <2> HIDE DEF x, res, f, o, v, z
  <2> QED BY <2>1, <2>2
<1>10. E!arithmetic(y, i.type, i.operands) = E!write_ram([At(x, p) EXCEPT !.flag = f], hl, res.r)
  <2> HIDE DEF y, v, res, f, x, hl, p
  <2>1. CASE i.type = "INC_HL"
    <3>1. E!arithmetic(y, i.type, i.operands) = E!inc_hl(y)
      BY <2>1 DEF E!arithmetic
    <3>2. E!inc_hl(y) = E!write_ram(E!inc8_flags(At(x, p), v), hl, E!inc8(v))
      BY <1>3 DEF E!inc_hl
    <3> QED BY <1>7, <2>1, <3>1, <3>2
  <2>2. CASE i.type = "DEC_HL"
    <3>1. E!arithmetic(y, i.type, i.operands) = E!dec_hl(y)
      BY <2>2 DEF E!arithmetic
    <3>2. E!dec_hl(y) = E!write_ram(E!dec8_flags(At(x, p), v), hl, E!dec8(v))
      BY <1>3 DEF E!dec_hl
    <3> QED BY <1>7, <2>2, <3>1, <3>2
  <2> QED BY <2>1, <2>2
<1> HIDE DEF res, f, v, o, x, hl, z
<1>11. Good(At(x, p))
  BY <1>1, <1>6, SetPc
<1>12. E!write_ram([At(x, p) EXCEPT !.flag = f], hl, res.r) = [At(z, p) EXCEPT !.flag = f]
  <2> DEFINE xp == At(x, p)
  <2> HIDE DEF xp
  <2>1. E!write_ram([xp EXCEPT !.flag = f], hl, res.r) = [E!write_ram(xp, hl, res.r) EXCEPT !.flag = f]
    BY <1>3, <1>11, FlagsWrite DEF xp
  <2> QED BY <1>8, <2>1 DEF xp
<1>13. From(n, z)
  BY <1>3, <1>8, FromFrom
<1>14. From(n, [z EXCEPT !.flag = f]) /\ [At(z, p) EXCEPT !.flag = f] = At([z EXCEPT !.flag = f], p)
  BY <1>1, <1>7, <1>13, FlagsAfter
<1> DEFINE w == [z EXCEPT !.flag = f]
<1>15. L!emitInstruction(n, i) = w /\ E!Work(Past(n), E!Switch[op], op) = At(w, p) /\ From(n, w)
  BY <1>1, <1>5, <1>9, <1>10, <1>12, <1>14
<1> HIDE DEF w
<1> QED BY <1>15 DEF Works

\* An instruction with its fields, and no others.
Shape(i) == i = [type |-> i.type, len |-> i.len, cycles |-> i.cycles, extra |-> i.extra,
                 operands |-> i.operands, imm |-> i.imm]

\* RLCA, RRCA, RLA and RRA.
LEMMA RotatesWork ==
    ASSUME NEW n, NEW i, NEW op, Runs(n, i, op), Shape(i), i.type \in {"RLCA", "RRCA", "RLA", "RRA"}
    PROVE  Works(n, i, op)
<1> DEFINE p == n.pc + 1
           y == At(n, p)
           g == CASE i.type = "RLCA" -> 0 [] i.type = "RRCA" -> 1 [] i.type = "RLA" -> 2 [] i.type = "RRA" -> 3
           j == [i EXCEPT !.operands = <<"A">>]
           a == n.reg["A"]
           c == E!Carry(n)
           r == L!BitwiseResult(ShiftOps[1 + g], a, c)
           s == E!Shifted(g, a, c)
           z == n.flag.Z
           b1 == r.c = 1
           f == [Z |-> z, N |-> FALSE, H |-> FALSE, C |-> b1]
<1>1. /\ Good(n) /\ p \in Word /\ Past(n) = y /\ y.reg = n.reg /\ y.flag = n.flag /\ E!Carry(y) = c
      /\ a \in Byte /\ c \in {0, 1} /\ z \in BOOLEAN /\ "A" \in Reg8
  BY PastOpcode, SetPc, GoodFields DEF Runs, Past, E!Carry, Reg8
<1>2. i.len # 2
  <2>1. i.type \notin Len2
    BY DEF Len2, AluN
  <2> QED BY <2>1 DEF Runs, Sized
<1>3. j.operands = <<"A">> /\ j.type = i.type
  BY DEF Shape
<1>4. g \in 0..7 /\ L!bitwiseOpFromInstrType(i.type) = ShiftOps[1 + g]
  BY DEF L!bitwiseOpFromInstrType, ShiftOps
<1>5. /\ L!AfterOperand(n, j) = n /\ L!Operand(n, j) = a
      /\ \A x, u : L!Back(x, j, u) = L!set(x, "A", u)
  <2> HIDE DEF j
  <2> QED BY <1>1, <1>3, ByteOperand
<1>6. r.r = s.v /\ s.v \in Byte /\ (b1 <=> s.c) /\ s.c \in BOOLEAN
  <2> HIDE DEF g, a, c
  <2>1. \A q \in 0..7 : LET r0 == L!BitwiseResult(ShiftOps[1 + q], a, c)
                             s0 == E!Shifted(q, a, c)
                         IN  r0.r = s0.v /\ s0.v \in Byte /\ (r0.c = 1 <=> s0.c) /\ s0.c \in BOOLEAN
    BY <1>1, SameShift
  <2> QED BY <1>4, <2>1
<1>7. L!emitInstruction(n, i) = L!performBitwise(n, j, ShiftOps[1 + g], a, FALSE)
  <2>1. L!emitInstruction(n, i) = L!bitwise(n, i)
    BY EmitArithmetic
  <2>2. ~L!IsCbPrefixed(i)
    BY <1>2 DEF L!IsCbPrefixed
  <2> DEFINE k == IF L!IsCbPrefixed(i) THEN i ELSE [i EXCEPT !.operands = <<"A">>]
  <2>3. L!bitwise(n, i) = L!performBitwise(L!AfterOperand(n, k), k, L!bitwiseOpFromInstrType(k.type), L!Operand(n, k), L!IsCbPrefixed(i))
    BY DEF L!bitwise
  <2>4. k = j
    BY <2>2
  <2> HIDE DEF g, a, k, j
  <2>5. L!IsCbPrefixed(i) = FALSE
    BY <1>2 DEF L!IsCbPrefixed
  <2> QED BY <1>3, <1>4, <1>5, <2>1, <2>3, <2>4, <2>5
<1>8. L!performBitwise(n, j, ShiftOps[1 + g], a, FALSE) = Built(n, "A", r.r, f)
  <2>1. (IF n.flag.C THEN 1 ELSE 0) = c
    BY DEF E!Carry
  <2> DEFINE built == L!set(n, "A", r.r)
  <2>2. built.flag = n.flag
    BY <1>1 DEF L!set, Good, Machine
  <2>3. L!Back(n, j, r.r) = built
    BY <1>5
  <2> HIDE DEF built, j, a, c, g
  <2>4. L!performBitwise(n, j, ShiftOps[1 + g], a, FALSE) =
            [L!Back(n, j, r.r) EXCEPT !.flag = [Z |-> @.Z, N |-> FALSE, H |-> FALSE, C |-> b1]]
    BY <2>1 DEF L!performBitwise
  <2> HIDE DEF r, b1
  <2> QED BY <2>2, <2>3, <2>4 DEF Built, built
<1>9. E!Work(Past(n), E!Switch[op], op) = E!rotate_a(y, s)
  <2>1. E!Work(Past(n), E!Switch[op], op) = E!arithmetic(y, i.type, i.operands)
    BY <1>1, WorkArithmetic DEF Runs, E!ArithmeticOperations
  <2>2. y.reg["A"] = a
    BY <1>1
  <2> HIDE DEF y, a, c
  <2>3. CASE i.type = "RLCA"
    BY <2>1, <2>2, <2>3 DEF E!arithmetic, E!Shifted
  <2>4. CASE i.type = "RRCA"
    BY <2>1, <2>2, <2>4 DEF E!arithmetic, E!Shifted
  <2>5. CASE i.type = "RLA"
    BY <1>1, <2>1, <2>2, <2>5 DEF E!arithmetic, E!Shifted
  <2>6. CASE i.type = "RRA"
    BY <1>1, <2>1, <2>2, <2>6 DEF E!arithmetic, E!Shifted
  <2> QED BY <2>3, <2>4, <2>5, <2>6
<1> b1 \in BOOLEAN
  OBVIOUS
<1> HIDE DEF r, s, b1, z, g, j, a, c
<1>10. s.c = b1 /\ f \in Flags
  BY <1>1, <1>6 DEF Flags
<1>11. E!rotate_a(y, s) = Sets(y, "A", r.r, f)
  BY <1>1, <1>6, <1>10 DEF E!rotate_a, Sets, E!set_flags, z
<1> HIDE DEF f
<1>12. Built(n, "A", r.r, f) = Sets(n, "A", r.r, f)
  <2>1. r.r \in Byte /\ Good(n) /\ "A" \in Reg8 /\ f \in Flags
    BY <1>1, <1>6, <1>10
  <2> QED BY <2>1, SetsBoth
<1>13. From(n, n)
  BY <1>1, GoodIsFrom
<1> QED BY <1>1, <1>6, <1>7, <1>8, <1>9, <1>10, <1>11, <1>12, <1>13, SetsWork

PairTypes == {"INC_R16", "DEC_R16", "ADD_HL_R16"}
OffsetTypes == {"LD_HL_SP_E", "ADD_SP_E"}
RestTypes == {"NOP", "HALT", "STOP", "DI", "EI"}
RotateTypes == {"RLCA", "RRCA", "RLA", "RRA"}
Straight == L!R8Loads \cup L!ALoads \cup L!HlLoads \cup WordTypes \cup OffsetTypes \cup PairTypes
            \cup L!FlagOps \cup RestTypes \cup RotateTypes \cup StepTypes \cup AluTypes

LEMMA StraightTypes ==
    ASSUME NEW i, Sized(i)
    PROVE  i.type \in Straight \cup Stacked \cup L!Terminators
<1>1. i.type \in Types1 \/ i.type \in AluR8 \/ i.type \in AluHL \/ i.type \in Len2 \/ i.type \in Len3
  BY DEF Sized
<1>2. CASE i.type \in Types1
  BY <1>2, SMTT(30) DEF Types1, Straight, Stacked, L!Terminators, L!R8Loads, L!ALoads, L!HlLoads, WordTypes, OffsetTypes,
     PairTypes, L!FlagOps, RestTypes, RotateTypes, StepTypes
<1>3. CASE i.type \in Len2
  BY <1>3, SMTT(30) DEF Len2, Straight, AluTypes, L!Terminators, L!R8Loads, L!ALoads, OffsetTypes, RestTypes
<1>4. CASE i.type \in Len3
  BY <1>4, SMTT(30) DEF Len3, Straight, L!Terminators, L!ALoads, WordTypes
<1> QED BY <1>1, <1>2, <1>3, <1>4 DEF Straight, AluTypes

\* What is neither a transfer nor a push or a pop does the same work in both backends.
LEMMA StraightWorks ==
    ASSUME NEW n, NEW i, NEW op, Runs(n, i, op), Columns(i, op), Shape(i), i.type \in Straight
    PROVE  Works(n, i, op)
<1>1. CASE i.type \in L!R8Loads BY <1>1, R8LoadsWork
<1>2. CASE i.type \in L!ALoads BY <1>2, ALoadsWork
<1>3. CASE i.type \in L!HlLoads BY <1>3, HlLoadsWork
<1>4. CASE i.type \in WordTypes BY <1>4, WordLoadsWork
<1>5. CASE i.type \in OffsetTypes BY <1>5, OffsetWorks DEF OffsetTypes
<1>6. CASE i.type \in PairTypes BY <1>6, PairArithmeticWorks DEF PairTypes
<1>7. CASE i.type \in L!FlagOps BY <1>7, FlagOpsWork
<1>8. CASE i.type \in RestTypes BY <1>8, RestWorks DEF RestTypes
<1>9. CASE i.type \in RotateTypes BY <1>9, RotatesWork DEF RotateTypes
<1>10. CASE i.type \in StepTypes BY <1>10, ByteStepsWork, MemoryStepsWork DEF StepTypes
<1>11. CASE i.type \in AluTypes BY <1>11, AluWorks
<1> QED BY <1>1, <1>2, <1>3, <1>4, <1>5, <1>6, <1>7, <1>8, <1>9, <1>10, <1>11 DEF Straight

-----------------------------------------------------------------------------
(* Accesses, one by one *)

Noted(log, o, a, v, t) ==
    IF E!IsRegister(a) THEN Append(log, [op |-> o, addr |-> a, val |-> v, at |-> t]) ELSE log
Put(ram, a, v) ==
    IF E!IsRegister(a) \/ a \in E!Rom THEN ram
    ELSE [b \in DOMAIN ram \cup {E!Cell(a)} |-> IF b = E!Cell(a) THEN v ELSE ram[b]]

\* What a write and a read leave, as a record with the fields that change.
LEMMA WriteForm ==
    ASSUME NEW n, n \in Machine, NEW a \in Word, NEW v
    PROVE  E!write_ram(n, a, v) = [n EXCEPT !.ram = Put(n.ram, a, v), !.log = Noted(n.log, "write", a, v, n.cycles)]
<1>1. CASE E!IsRegister(a)
  <2> DEFINE g == Append(n.log, [op |-> "write", addr |-> a, val |-> v, at |-> n.cycles])
  <2>1. E!write_ram(n, a, v) = [n EXCEPT !.log = g]
    BY <1>1, WriteIs DEF E!Logged
  <2>2. Noted(n.log, "write", a, v, n.cycles) = g /\ Put(n.ram, a, v) = n.ram
    BY <1>1 DEF Noted, Put
  <2> HIDE DEF g
  <2> QED BY <2>1, <2>2 DEF Machine
<1>2. CASE ~E!IsRegister(a) /\ a \in E!Rom
  <2>1. E!write_ram(n, a, v) = n
    BY <1>2, WriteIs
  <2>2. Noted(n.log, "write", a, v, n.cycles) = n.log /\ Put(n.ram, a, v) = n.ram
    BY <1>2 DEF Noted, Put
  <2> QED BY <2>1, <2>2 DEF Machine
<1>3. CASE ~E!IsRegister(a) /\ a \notin E!Rom
  <2> DEFINE g == [b \in DOMAIN n.ram \cup {E!Cell(a)} |-> IF b = E!Cell(a) THEN v ELSE n.ram[b]]
  <2>1. E!write_ram(n, a, v) = [n EXCEPT !.ram = g]
    BY <1>3, WriteIs DEF E!store
  <2>2. Noted(n.log, "write", a, v, n.cycles) = n.log /\ Put(n.ram, a, v) = g
    BY <1>3 DEF Noted, Put
  <2> HIDE DEF g
  <2> QED BY <2>1, <2>2 DEF Machine
<1> QED BY <1>1, <1>2, <1>3

LEMMA ReadForm ==
    ASSUME NEW n, n \in Machine, NEW a \in Word
    PROVE  E!AfterRead(n, a) = [n EXCEPT !.log = Noted(n.log, "read", a, E!read_ram(n, a), n.cycles)]
<1> DEFINE v == E!read_ram(n, a)
<1> HIDE DEF v
<1>1. E!Logged(n, "read", a, v) = [n EXCEPT !.log = Noted(n.log, "read", a, v, n.cycles)]
  <2>1. CASE E!IsRegister(a)
    BY <2>1 DEF E!Logged, Noted
  <2>2. CASE ~E!IsRegister(a)
    BY <2>2 DEF E!Logged, Noted, Machine
  <2> QED BY <2>1, <2>2
<1> QED BY <1>1 DEF E!AfterRead, v

LEMMA PutType ==
    ASSUME NEW ram \in Memory, NEW a \in Word, NEW v \in Byte
    PROVE  Put(ram, a, v) \in Memory
<1>1. PICK cells \in SUBSET Word : ram \in [cells -> Byte]
  BY DEF Memory
<1>2. E!Cell(a) \in Word
  BY CellType
<1>3. [b \in DOMAIN ram \cup {E!Cell(a)} |-> IF b = E!Cell(a) THEN v ELSE ram[b]] \in [cells \cup {E!Cell(a)} -> Byte]
  BY <1>1
<1>4. cells \cup {E!Cell(a)} \in SUBSET Word
  BY <1>1, <1>2
<1>5. [b \in DOMAIN ram \cup {E!Cell(a)} |-> IF b = E!Cell(a) THEN v ELSE ram[b]] \in Memory
  BY <1>3, <1>4 DEF Memory
<1> QED BY <1>5 DEF Put

LEMMA NotedType ==
    ASSUME NEW log \in Log, NEW o \in {"read", "write"}, NEW a \in Word, NEW v \in Byte, NEW t \in Nat
    PROVE  Noted(log, o, a, v, t) \in Log
<1> DEFINE x == [op |-> o, addr |-> a, val |-> v, at |-> t]
<1>1. x \in Access
  BY DEF Access
<1>2. Noted(log, o, a, v, t) = IF E!IsRegister(a) THEN Append(log, x) ELSE log
  BY DEF Noted
<1> HIDE DEF x
<1> QED BY <1>1, <1>2 DEF Log

\* The two bytes of a word are in two cells.
LEMMA TwoCells ==
    ASSUME NEW a \in Word, NEW b \in Word, b = E!Trunc16(a + 1), ~E!IsRegister(a), ~E!IsRegister(b)
    PROVE  E!Cell(a) # E!Cell(b)
<1>1. a \in Int /\ 0 <= a /\ a <= 65535 /\ b \in Int
  BY WordIs
<1>2. a # 65535
  BY <1>1, Regions
<1>3. b = a + 1
  BY <1>1, <1>2 DEF E!Trunc16
<1> QED BY <1>1, <1>3, Regions DEF E!Cell

\* It does not matter which byte is written first.
LEMMA PutBoth ==
    ASSUME NEW ram, NEW a \in Word, NEW b \in Word, b = E!Trunc16(a + 1), NEW v, NEW u
    PROVE  Put(Put(ram, a, v), b, u) = Put(Put(ram, b, u), a, v)
<1>1. CASE E!IsRegister(a) \/ a \in E!Rom \/ E!IsRegister(b) \/ b \in E!Rom
  BY <1>1 DEF Put
<1>2. CASE ~(E!IsRegister(a) \/ a \in E!Rom \/ E!IsRegister(b) \/ b \in E!Rom)
  <2> DEFINE p == E!Cell(a)
             q == E!Cell(b)
             f == [x \in DOMAIN ram \cup {p} |-> IF x = p THEN v ELSE ram[x]]
             g == [x \in DOMAIN ram \cup {q} |-> IF x = q THEN u ELSE ram[x]]
  <2>1. p # q
    BY <1>2, TwoCells
  <2>2. /\ Put(Put(ram, a, v), b, u) = [x \in DOMAIN f \cup {q} |-> IF x = q THEN u ELSE f[x]]
        /\ Put(Put(ram, b, u), a, v) = [x \in DOMAIN g \cup {p} |-> IF x = p THEN v ELSE g[x]]
    BY <1>2 DEF Put
  <2> HIDE DEF p, q
  <2>3. DOMAIN f \cup {q} = DOMAIN g \cup {p}
    OBVIOUS
  <2>4. \A x \in DOMAIN f \cup {q} : (IF x = q THEN u ELSE f[x]) = (IF x = p THEN v ELSE g[x])
    BY <2>1
  <2> HIDE DEF f, g
  <2> QED BY <2>2, <2>3, <2>4
<1> QED BY <1>1, <1>2

\* The access that is noted, without its time.
Seen(o, a, v) == <<o, a, v>>
Trace(log) == [k \in DOMAIN log |-> <<log[k].op, log[k].addr, log[k].val>>]
TraceOfTwo(o, a, v, o2, b, u) ==
    IF E!IsRegister(a)
    THEN IF E!IsRegister(b) THEN <<Seen(o, a, v), Seen(o2, b, u)>> ELSE <<Seen(o, a, v)>>
    ELSE IF E!IsRegister(b) THEN <<Seen(o2, b, u)>> ELSE <<>>

LEMMA OneSeen ==
    ASSUME NEW o, NEW a, NEW v, NEW t
    PROVE  LET g == <<[op |-> o, addr |-> a, val |-> v, at |-> t]>>
           IN Trace(g) = <<Seen(o, a, v)>> /\ Stamped(g, t)
<1> DEFINE g == <<[op |-> o, addr |-> a, val |-> v, at |-> t]>>
<1>1. DOMAIN g = {1} /\ g[1].op = o /\ g[1].addr = a /\ g[1].val = v /\ g[1].at = t
  OBVIOUS
<1> HIDE DEF g
<1>2. Trace(g) = [k \in {1} |-> Seen(o, a, v)]
  BY <1>1 DEF Trace, Seen
<1> DEFINE s == Seen(o, a, v)
<1> HIDE DEF s
<1>3. [k \in {1} |-> s] = <<s>>
  OBVIOUS
<1> QED BY <1>1, <1>2, <1>3 DEF Stamped, s, g

LEMMA TwoSeen ==
    ASSUME NEW o, NEW a, NEW v, NEW o2, NEW b, NEW u, NEW t
    PROVE  LET g == <<[op |-> o, addr |-> a, val |-> v, at |-> t], [op |-> o2, addr |-> b, val |-> u, at |-> t]>>
           IN Trace(g) = <<Seen(o, a, v), Seen(o2, b, u)>> /\ Stamped(g, t)
<1> DEFINE g == <<[op |-> o, addr |-> a, val |-> v, at |-> t], [op |-> o2, addr |-> b, val |-> u, at |-> t]>>
<1>1. /\ DOMAIN g = {1, 2} /\ g[1].op = o /\ g[1].addr = a /\ g[1].val = v /\ g[1].at = t
      /\ g[2].op = o2 /\ g[2].addr = b /\ g[2].val = u /\ g[2].at = t
  OBVIOUS
<1> HIDE DEF g
<1>2. Trace(g) = [k \in {1, 2} |-> IF k = 1 THEN Seen(o, a, v) ELSE Seen(o2, b, u)]
  BY <1>1 DEF Trace, Seen
<1> DEFINE s == Seen(o, a, v)
           s2 == Seen(o2, b, u)
<1> HIDE DEF s, s2
<1>3. [k \in {1, 2} |-> IF k = 1 THEN s ELSE s2] = <<s, s2>>
  OBVIOUS
<1> QED BY <1>1, <1>2, <1>3 DEF Stamped, s, s2, g

\* What a device sees of two accesses.
LEMMA TraceIs ==
    ASSUME NEW o, NEW a, NEW v, NEW o2, NEW b, NEW u, NEW t
    PROVE  LET g == Noted(Noted(<<>>, o, a, v, t), o2, b, u, t)
           IN  Trace(g) = TraceOfTwo(o, a, v, o2, b, u) /\ Stamped(g, t)
<1> DEFINE g == Noted(Noted(<<>>, o, a, v, t), o2, b, u, t)
           x == [op |-> o, addr |-> a, val |-> v, at |-> t]
           y == [op |-> o2, addr |-> b, val |-> u, at |-> t]
<1>1. CASE E!IsRegister(a) /\ E!IsRegister(b)
  <2>1. g = Append(Append(<<>>, x), y)
    BY <1>1 DEF Noted
  <2>2. g = <<x, y>>
    <3> HIDE DEF x, y, g
    <3>1. Append(<<>>, x) = <<x>>
      OBVIOUS
    <3>2. Append(<<x>>, y) = <<x, y>>
      <4>1. Append(<<x>>, y) = [k \in 1..2 |-> IF k = 1 THEN x ELSE y]
        OBVIOUS
      <4>2. [k \in 1..2 |-> IF k = 1 THEN x ELSE y] = <<x, y>>
        OBVIOUS
      <4> QED BY <4>1, <4>2
    <3> QED BY <2>1, <3>1, <3>2
  <2> QED BY <1>1, <2>2, TwoSeen DEF TraceOfTwo
<1>2. CASE E!IsRegister(a) /\ ~E!IsRegister(b)
  <2>1. g = Append(<<>>, x)
    BY <1>2 DEF Noted
  <2>2. g = <<x>>
    <3> HIDE DEF x, y, g
    <3> QED BY <2>1
  <2> QED BY <1>2, <2>2, OneSeen DEF TraceOfTwo
<1>3. CASE ~E!IsRegister(a) /\ E!IsRegister(b)
  <2>1. g = Append(<<>>, y)
    BY <1>3 DEF Noted
  <2>2. g = <<y>>
    <3> HIDE DEF x, y, g
    <3> QED BY <2>1
  <2> QED BY <1>3, <2>2, OneSeen DEF TraceOfTwo
<1>4. CASE ~E!IsRegister(a) /\ ~E!IsRegister(b)
  <2>1. g = <<>>
    BY <1>4 DEF Noted
  <2> HIDE DEF g
  <2>2. Trace(g) = <<>> /\ Stamped(g, t)
    BY <2>1 DEF Trace, Stamped
  <2> QED BY <1>4, <2>2 DEF TraceOfTwo, g
<1> QED BY <1>1, <1>2, <1>3, <1>4

LEMMA TraceReversed ==
    ASSUME NEW o, NEW a, NEW v, NEW o2, NEW b, NEW u
    PROVE  TraceOfTwo(o2, b, u, o, a, v) = Reversed(TraceOfTwo(o, a, v, o2, b, u))
<1> DEFINE s == Seen(o, a, v)
           s2 == Seen(o2, b, u)
<1>1. /\ TraceOfTwo(o, a, v, o2, b, u) = IF E!IsRegister(a) THEN IF E!IsRegister(b) THEN <<s, s2>> ELSE <<s>>
                                        ELSE IF E!IsRegister(b) THEN <<s2>> ELSE <<>>
      /\ TraceOfTwo(o2, b, u, o, a, v) = IF E!IsRegister(b) THEN IF E!IsRegister(a) THEN <<s2, s>> ELSE <<s2>>
                                        ELSE IF E!IsRegister(a) THEN <<s>> ELSE <<>>
  BY DEF TraceOfTwo
<1> HIDE DEF s, s2
<1>2. Reversed(<<s, s2>>) = <<s2, s>> /\ Reversed(<<s>>) = <<s>> /\ Reversed(<<s2>>) = <<s2>> /\ Reversed(<<>>) = <<>>
  BY DEF Reversed
<1> QED BY <1>1, <1>2

-----------------------------------------------------------------------------
(* The stack *)

Below(n, k) == E!Trunc16(n.sp - k)
Above(n, k) == E!Trunc16(n.sp + k)

\* Two accesses at a time, the byte at a first.
Two(log, o, a, v, b, u, t) == Noted(Noted(log, o, a, v, t), o, b, u, t)

PushRam(n, w) == Put(Put(n.ram, Below(n, 2), E!Low(w)), Below(n, 1), E!High(w))
Pushed(n, w, log) == [n EXCEPT !.sp = Below(n, 2), !.ram = PushRam(n, w), !.log = log]
Popped(n, log) == [n EXCEPT !.sp = Above(n, 2), !.log = log]

HighFirstPush(n, w, t) == Two(n.log, "write", Below(n, 1), E!High(w), Below(n, 2), E!Low(w), t)
LowFirstPush(n, w, t) == Two(n.log, "write", Below(n, 2), E!Low(w), Below(n, 1), E!High(w), t)
LowFirstPop(n, t) == Two(n.log, "read", n.sp, E!read_ram(n, n.sp), Above(n, 1), E!read_ram(n, Above(n, 1)), t)
HighFirstPop(n, t) == Two(n.log, "read", Above(n, 1), E!read_ram(n, Above(n, 1)), n.sp, E!read_ram(n, n.sp), t)

LEMMA StackWords ==
    ASSUME NEW n, n \in Machine
    PROVE  /\ n.sp \in Word /\ \A k \in {1, 2} : Below(n, k) \in Word /\ Above(n, k) \in Word
           /\ Below(n, 1) = E!Trunc16(Below(n, 2) + 1)
           /\ Above(n, 2) = E!Trunc16(Above(n, 1) + 1)
<1>1. n.sp \in Int /\ 0 <= n.sp /\ n.sp <= 65535 /\ n.sp \in Word
  BY WordIs DEF Machine
<1>2. \A k \in {1, 2} : n.sp - k \in Int /\ n.sp + k \in Int
  BY <1>1
<1>3. \A k \in {1, 2} : Below(n, k) \in Word /\ Above(n, k) \in Word
  BY <1>2, TruncType DEF Below, Above
<1>4. Below(n, 1) = E!Trunc16(Below(n, 2) + 1) /\ Above(n, 2) = E!Trunc16(Above(n, 1) + 1)
  BY <1>1 DEF Below, Above, E!Trunc16
<1> QED BY <1>1, <1>3, <1>4

\* Two writes, one after the other.
LEMMA WriteTwo ==
    ASSUME NEW n, n \in Machine, NEW a \in Word, NEW b \in Word, NEW v \in Byte, NEW u \in Byte
    PROVE  /\ E!write_ram(E!write_ram(n, a, v), b, u)
                = [n EXCEPT !.ram = Put(Put(n.ram, a, v), b, u), !.log = Two(n.log, "write", a, v, b, u, n.cycles)]
           /\ E!write_ram(n, a, v) \in Machine
<1> DEFINE r == Put(n.ram, a, v)
           g == Noted(n.log, "write", a, v, n.cycles)
           x == E!write_ram(n, a, v)
<1>1. x = [n EXCEPT !.ram = r, !.log = g]
  BY WriteForm
<1>2. r \in Memory /\ g \in Log
  BY PutType, NotedType DEF Machine
<1> HIDE DEF x
<1>3. x \in Machine /\ x.ram = r /\ x.log = g /\ x.cycles = n.cycles
  <2> HIDE DEF r, g
  <2> QED BY <1>1, <1>2 DEF Machine
<1>4. E!write_ram(x, b, u) = [x EXCEPT !.ram = Put(x.ram, b, u), !.log = Noted(x.log, "write", b, u, x.cycles)]
  BY <1>3, WriteForm
<1> DEFINE r2 == Put(r, b, u)
           g2 == Noted(g, "write", b, u, n.cycles)
<1>5. E!write_ram(x, b, u) = [x EXCEPT !.ram = r2, !.log = g2]
  BY <1>3, <1>4
<1>6. [x EXCEPT !.ram = r2, !.log = g2] = [n EXCEPT !.ram = r2, !.log = g2]
  <2> HIDE DEF r, g, r2, g2
  <2> QED BY <1>1 DEF Machine
<1> QED BY <1>3, <1>5, <1>6 DEF Two, x

LEMMA ReadTwo ==
    ASSUME NEW n, n \in Machine, NEW a \in Word, NEW b \in Word
    PROVE  /\ E!AfterRead(E!AfterRead(n, a), b)
                = [n EXCEPT !.log = Two(n.log, "read", a, E!read_ram(n, a), b, E!read_ram(n, b), n.cycles)]
           /\ E!AfterRead(n, a) \in Machine /\ E!AfterRead(n, a).sp = n.sp
<1> DEFINE v == E!read_ram(n, a)
           u == E!read_ram(n, b)
           g == Noted(n.log, "read", a, v, n.cycles)
           x == E!AfterRead(n, a)
<1>1. x = [n EXCEPT !.log = g]
  BY ReadForm
<1>2. \A c \in Word : E!read_ram(n, c) \in Byte
  <2>1. \A c : E!ram(n, c) \in Byte
    <3>1. PICK cells \in SUBSET Word : n.ram \in [cells -> Byte]
      BY DEF Machine, Memory
    <3> QED BY <3>1, ByteIs DEF E!ram
  <2> QED BY <2>1, WordIs, ByteIs DEF E!read_ram, E!DeviceValue
<1>3. g \in Log
  BY <1>2, NotedType DEF Machine
<1> HIDE DEF x
<1>4. x \in Machine /\ x.ram = n.ram /\ x.log = g /\ x.cycles = n.cycles /\ x.sp = n.sp
  <2> HIDE DEF g
  <2> QED BY <1>1, <1>3 DEF Machine
<1>5. E!read_ram(x, b) = u
  BY <1>4 DEF E!read_ram, E!ram
<1>6. E!AfterRead(x, b) = [x EXCEPT !.log = Noted(g, "read", b, u, n.cycles)]
  BY <1>4, <1>5, ReadForm
<1> DEFINE g2 == Noted(g, "read", b, u, n.cycles)
<1>7. [x EXCEPT !.log = g2] = [n EXCEPT !.log = g2]
  <2> HIDE DEF g, g2
  <2> QED BY <1>1 DEF Machine
<1> QED BY <1>4, <1>6, <1>7 DEF Two, x

\* Compiled code pushes the high byte first, the interpreter the low one.
LEMMA PushForms ==
    ASSUME NEW n, n \in Machine, NEW w \in Word
    PROVE  /\ L!pushReturnAddress(n, w) = Pushed(n, w, HighFirstPush(n, w, n.cycles))
           /\ E!push16(n, w) = Pushed(n, w, LowFirstPush(n, w, n.cycles))
<1> DEFINE s1 == Below(n, 1)
           s2 == Below(n, 2)
           hi == E!High(w)
           lo == E!Low(w)
<1>1. s1 \in Word /\ s2 \in Word /\ s1 = E!Trunc16(s2 + 1) /\ n.sp \in Word
  BY StackWords
<1>2. hi \in Byte /\ lo \in Byte /\ L!High(w) = hi /\ L!Low(w) = lo
  BY HighLow
<1>3. L!Trunc16(n.sp - 1) = s1 /\ L!Trunc16(n.sp - 2) = s2 /\ E!Trunc16(n.sp - 2) = s2
  BY <1>1, WordIs, TruncType DEF Below
<1> DEFINE n1 == [n EXCEPT !.sp = s1]
           n2 == [n EXCEPT !.sp = s2]
<1>4. L!pushReturnAddress(n, w) = E!write_ram([E!write_ram(n1, s1, hi) EXCEPT !.sp = s2], s2, lo)
  <2> DEFINE y == L!write_ram(n1, s1, hi)
             y2 == [y EXCEPT !.sp = s2]
  <2>1. L!pushReturnAddress(n, w) = L!write_ram([L!write_ram(n1, s1, hi) EXCEPT !.sp = s2], s2, lo)
    BY <1>2, <1>3 DEF L!pushReturnAddress, L!updateMemory
  <2>2. y = E!write_ram(n1, s1, hi)
    <3> HIDE DEF n1, s1, hi
    <3> QED BY <1>1, SameBus
  <2>3. L!write_ram(y2, s2, lo) = E!write_ram(y2, s2, lo)
    <3> HIDE DEF y2, s2, lo
    <3> QED BY <1>1, SameBus
  <2> HIDE DEF n1, s1, s2, hi, lo
  <2> QED BY <2>1, <2>2, <2>3
<1>5. E!push16(n, w) = E!write_ram(E!write_ram(n2, s2, lo), s1, hi)
  <2>1. [n EXCEPT !.sp = E!Trunc16(@ - 2)] = n2
    BY <1>3
  <2> QED BY <1>1, <1>3, <2>1 DEF E!push16, E!write16
<1>6. /\ PushRam(n, w) = Put(Put(n.ram, s2, lo), s1, hi)
      /\ HighFirstPush(n, w, n.cycles) = Two(n.log, "write", s1, hi, s2, lo, n.cycles)
      /\ LowFirstPush(n, w, n.cycles) = Two(n.log, "write", s2, lo, s1, hi, n.cycles)
  BY DEF PushRam, HighFirstPush, LowFirstPush
<1>7. Put(Put(n.ram, s1, hi), s2, lo) = Put(Put(n.ram, s2, lo), s1, hi)
  BY <1>1, PutBoth
<1> HIDE DEF s1, s2, hi, lo
<1>8. n1 \in Machine /\ n1.ram = n.ram /\ n1.log = n.log /\ n1.cycles = n.cycles
  BY <1>1 DEF Machine
<1>9. n2 \in Machine /\ n2.ram = n.ram /\ n2.log = n.log /\ n2.cycles = n.cycles
  BY <1>1 DEF Machine
<1>10. E!push16(n, w) = Pushed(n, w, LowFirstPush(n, w, n.cycles))
  <2> DEFINE r == PushRam(n, w)
             g == LowFirstPush(n, w, n.cycles)
  <2> HIDE DEF n2
  <2>0. E!write_ram(E!write_ram(n2, s2, lo), s1, hi)
          = [n2 EXCEPT !.ram = Put(Put(n2.ram, s2, lo), s1, hi), !.log = Two(n2.log, "write", s2, lo, s1, hi, n2.cycles)]
    <3>1. n2 \in Machine /\ s1 \in Word /\ s2 \in Word /\ hi \in Byte /\ lo \in Byte
      BY <1>1, <1>2, <1>9
    <3> QED BY <3>1, WriteTwo
  <2>1. E!push16(n, w) = [n2 EXCEPT !.ram = r, !.log = g]
    <3>1. Put(Put(n2.ram, s2, lo), s1, hi) = r /\ Two(n2.log, "write", s2, lo, s1, hi, n2.cycles) = g
      BY <1>6, <1>9
    <3> HIDE DEF r, g
    <3> QED BY <1>5, <2>0, <3>1
  <2> HIDE DEF r, g
  <2>2. E!push16(n, w) = [n EXCEPT !.sp = s2, !.ram = r, !.log = g]
    BY <2>1 DEF n2, Machine
  <2> QED BY <2>2 DEF Pushed, r, g, s2
<1>11. L!pushReturnAddress(n, w) = Pushed(n, w, HighFirstPush(n, w, n.cycles))
  <2> DEFINE r == Put(n.ram, s1, hi)
             g == Noted(n.log, "write", s1, hi, n.cycles)
             x == [E!write_ram(n1, s1, hi) EXCEPT !.sp = s2]
             r2 == Put(r, s2, lo)
             g2 == Noted(g, "write", s2, lo, n.cycles)
  <2>1. E!write_ram(n1, s1, hi) = [n1 EXCEPT !.ram = r, !.log = g]
    <3> HIDE DEF n1
    <3>1. E!write_ram(n1, s1, hi) = [n1 EXCEPT !.ram = Put(n1.ram, s1, hi), !.log = Noted(n1.log, "write", s1, hi, n1.cycles)]
      BY <1>1, <1>8, WriteForm
    <3>2. Put(n1.ram, s1, hi) = r /\ Noted(n1.log, "write", s1, hi, n1.cycles) = g
      BY <1>8
    <3> HIDE DEF r, g
    <3> QED BY <3>1, <3>2
  <2>2. r \in Memory /\ g \in Log
    <3>1. n.ram \in Memory /\ n.log \in Log /\ n.cycles \in Nat
      BY DEF Machine
    <3> QED BY <1>1, <1>2, <3>1, PutType, NotedType
  <2> HIDE DEF r, g
  <2>3. x = [n2 EXCEPT !.ram = r, !.log = g]
    BY <2>1 DEF Machine
  <2>4. x \in Machine /\ x.ram = r /\ x.log = g /\ x.cycles = n.cycles
    BY <1>9, <2>2, <2>3 DEF Machine
  <2> HIDE DEF x
  <2>5. E!write_ram(x, s2, lo) = [x EXCEPT !.ram = r2, !.log = g2]
    BY <1>1, <2>4, WriteForm
  <2> HIDE DEF r2, g2
  <2>6. [x EXCEPT !.ram = r2, !.log = g2] = [n EXCEPT !.sp = s2, !.ram = r2, !.log = g2]
    BY <2>3 DEF Machine
  <2>7. r2 = PushRam(n, w) /\ g2 = HighFirstPush(n, w, n.cycles)
    BY <1>6, <1>7 DEF r2, g2, r, g, Two
  <2> QED BY <1>4, <2>5, <2>6, <2>7 DEF Pushed, s2, x
<1> QED BY <1>10, <1>11

\* The interpreter pops in the order the C compiler likes, compiled code the low byte first.
LEMMA PopForms ==
    ASSUME NEW n, n \in Machine
    PROVE  /\ L!AfterPop(n) = Popped(n, LowFirstPop(n, n.cycles))
           /\ E!AfterPop16(n) = Popped(n, IF n.lowFirst THEN LowFirstPop(n, n.cycles) ELSE HighFirstPop(n, n.cycles))
           /\ L!popReturnAddress(n) = E!pop16(n) /\ E!pop16(n) \in Word
           /\ E!pop16(n) = E!Join(E!read_ram(n, Above(n, 1)), E!read_ram(n, n.sp))
<1> DEFINE s == n.sp
           s1 == Above(n, 1)
           s2 == Above(n, 2)
<1>1. s \in Word /\ s1 \in Word /\ s2 \in Word /\ s2 = E!Trunc16(s1 + 1)
  BY StackWords
<1>2. L!Trunc16(s + 1) = s1 /\ E!Trunc16(s + 1) = s1 /\ E!Trunc16(s + 2) = s2 /\ L!Trunc16(s1 + 1) = s2
  BY <1>1, WordIs, TruncType DEF Above
<1>3. \A c \in Word : E!read_ram(n, c) \in Byte
  <2>1. \A c : E!ram(n, c) \in Byte
    <3>1. PICK cells \in SUBSET Word : n.ram \in [cells -> Byte]
      BY DEF Machine, Memory
    <3> QED BY <3>1, ByteIs DEF E!ram
  <2> QED BY <2>1, WordIs, ByteIs DEF E!read_ram, E!DeviceValue
<1>4. E!pop16(n) = E!Join(E!read_ram(n, s1), E!read_ram(n, s))
  BY <1>2 DEF E!pop16, E!read16
<1>5. L!popReturnAddress(n) = E!pop16(n) /\ E!pop16(n) \in Word
  BY <1>1, <1>2, <1>3, <1>4, SameRead, JoinType DEF L!popReturnAddress
<1> DEFINE g == LowFirstPop(n, n.cycles)
           h == HighFirstPop(n, n.cycles)
<1>6. /\ E!AfterRead(E!AfterRead(n, s), s1) = [n EXCEPT !.log = g]
      /\ E!AfterRead(E!AfterRead(n, s1), s) = [n EXCEPT !.log = h]
  BY <1>1, ReadTwo DEF LowFirstPop, HighFirstPop
<1>7. L!AfterPop(n) = Popped(n, g)
  <2>1. L!AfterPop(n) = [E!AfterRead(E!AfterRead(n, s), s1) EXCEPT !.sp = s2]
    BY <1>1, <1>2, SameBus DEF L!AfterPop
  <2> HIDE DEF g
  <2>2. [[n EXCEPT !.log = g] EXCEPT !.sp = s2] = [n EXCEPT !.sp = s2, !.log = g]
    OBVIOUS
  <2> QED BY <1>6, <2>1, <2>2 DEF Popped
<1>8. E!AfterPop16(n) = Popped(n, IF n.lowFirst THEN g ELSE h)
  <2> DEFINE k == IF n.lowFirst THEN g ELSE h
  <2>1. E!AfterRead16(n, s) = [n EXCEPT !.log = k]
    BY <1>2, <1>6 DEF E!AfterRead16
  <2> HIDE DEF k
  <2>2. E!AfterPop16(n) = [[n EXCEPT !.log = k] EXCEPT !.sp = s2]
    BY <1>2, <2>1 DEF E!AfterPop16
  <2>3. [[n EXCEPT !.log = k] EXCEPT !.sp = s2] = [n EXCEPT !.sp = s2, !.log = k]
    OBVIOUS
  <2>4. E!AfterPop16(n) = Popped(n, k)
    BY <2>2, <2>3 DEF Popped
  <2> QED BY <2>4 DEF k
<1> QED BY <1>4, <1>5, <1>7, <1>8

\* n when c more cycles have been added, with everything a transfer can change.
Left(n, c, p, b, s, ram, log) ==
    [n EXCEPT !.cycles = n.cycles + c, !.pc = p, !.ime = b, !.sp = s, !.ram = ram, !.log = log]
Base(n, c, p) == Left(n, c, p, n.ime, n.sp, n.ram, n.log)

\* The fields of Left, and what each step of a transfer makes of them.
LEMMA LeftType ==
    ASSUME NEW n, n \in Machine, NEW c \in Nat, NEW p \in Word, NEW b \in {0, 1}, NEW s \in Word,
           NEW ram \in Memory, NEW log \in Log
    PROVE  LET x == Left(n, c, p, b, s, ram, log)
           IN  /\ x \in Machine /\ x.reg = n.reg /\ x.flag = n.flag /\ x.cycles = n.cycles + c /\ x.pc = p
               /\ x.ime = b /\ x.sp = s /\ x.ram = ram /\ x.log = log /\ x.lowFirst = n.lowFirst
<1>1. n.cycles + c \in Nat
  BY DEF Machine
<1> QED BY <1>1 DEF Machine, Left

LEMMA LeftGoto ==
    ASSUME NEW n, n \in Machine, NEW c \in Nat, NEW p, NEW b, NEW s, NEW ram, NEW log, NEW q
    PROVE  L!Goto(Left(n, c, p, b, s, ram, log), q) = Left(n, c, q, b, s, ram, log)
BY DEF L!Goto, Left, Machine

LEMMA Leftgoto ==
    ASSUME NEW n, n \in Machine, NEW c \in Nat, NEW p, NEW b, NEW s, NEW ram, NEW log, NEW q
    PROVE  E!goto(Left(n, c, p, b, s, ram, log), q) = Left(n, c, q, b, s, ram, log)
BY DEF E!goto, Left, Machine

LEMMA LeftIncrease ==
    ASSUME NEW n, n \in Machine, NEW c \in Nat, NEW p, NEW b, NEW s, NEW ram, NEW log, NEW d \in Nat
    PROVE  L!increaseCycles(Left(n, c, p, b, s, ram, log), d) = Left(n, c + d, p, b, s, ram, log)
<1>1. n.cycles \in Nat /\ n.cycles + c + d = n.cycles + (c + d)
  BY DEF Machine
<1> QED BY <1>1 DEF L!increaseCycles, Left, Machine

LEMMA LeftSpend ==
    ASSUME NEW n, n \in Machine, NEW c \in Nat, NEW p, NEW b, NEW s, NEW ram, NEW log, NEW d \in Nat
    PROVE  E!spend(Left(n, c, p, b, s, ram, log), d) = Left(n, c + d, p, b, s, ram, log)
<1>1. n.cycles \in Nat /\ n.cycles + c + d = n.cycles + (c + d)
  BY DEF Machine
<1> QED BY <1>1 DEF E!spend, Left, Machine

Enabled(x) == [x EXCEPT !.ime = 1]

LEMMA LeftEnabled ==
    ASSUME NEW n, n \in Machine, NEW c \in Nat, NEW p, NEW b, NEW s, NEW ram, NEW log
    PROVE  Enabled(Left(n, c, p, b, s, ram, log)) = Left(n, c, p, 1, s, ram, log)
BY DEF Enabled, Left, Machine

LEMMA Bases ==
    ASSUME NEW n, n \in Machine, NEW c \in Nat, NEW p \in Word, NEW q \in Word
    PROVE  /\ L!increaseCycles(n, c) = Base(n, c, n.pc)
           /\ At(n, q) = Base(n, 0, q)
           /\ L!Goto(Base(n, c, q), p) = Base(n, c, p) /\ E!goto(Base(n, c, q), p) = Base(n, c, p)
           /\ \A d \in Nat : L!increaseCycles(Base(n, c, q), d) = Base(n, c + d, q)
           /\ \A d \in Nat : E!spend(Base(n, c, q), d) = Base(n, c + d, q)
<1>1. n.cycles + 0 = n.cycles
  BY DEF Machine
<1>2. L!increaseCycles(n, c) = Base(n, c, n.pc)
  BY DEF L!increaseCycles, Base, Left, Machine
<1>3. At(n, q) = Base(n, 0, q)
  BY <1>1 DEF At, Base, Left, Machine
<1>5. L!Goto(Base(n, c, q), p) = Base(n, c, p)
  BY LeftGoto DEF Base
<1>6. E!goto(Base(n, c, q), p) = Base(n, c, p)
  BY Leftgoto DEF Base
<1>7. \A d \in Nat : L!increaseCycles(Base(n, c, q), d) = Base(n, c + d, q)
  BY LeftIncrease DEF Base
<1>8. \A d \in Nat : E!spend(Base(n, c, q), d) = Base(n, c + d, q)
  BY LeftSpend DEF Base
<1> QED BY <1>2, <1>3, <1>5, <1>6, <1>7, <1>8

LEMMA BaseType ==
    ASSUME NEW n, n \in Machine, NEW c \in Nat, NEW p \in Word
    PROVE  LET x == Base(n, c, p)
           IN  /\ x \in Machine /\ x.reg = n.reg /\ x.flag = n.flag /\ x.cycles = n.cycles + c /\ x.pc = p
               /\ x.ime = n.ime /\ x.sp = n.sp /\ x.ram = n.ram /\ x.log = n.log /\ x.lowFirst = n.lowFirst
<1>1. n.ime \in {0, 1} /\ n.sp \in Word /\ n.ram \in Memory /\ n.log \in Log
  BY DEF Machine
<1> QED BY <1>1, LeftType DEF Base

\* A push and a pop do not look at cycles and pc.
LEMMA PushOnBase ==
    ASSUME NEW n, n \in Machine, NEW c \in Nat, NEW p \in Word, NEW w \in Word
    PROVE  /\ L!pushReturnAddress(Base(n, c, p), w)
                = Left(n, c, p, n.ime, Below(n, 2), PushRam(n, w), HighFirstPush(n, w, n.cycles + c))
           /\ E!push16(Base(n, c, p), w)
                = Left(n, c, p, n.ime, Below(n, 2), PushRam(n, w), LowFirstPush(n, w, n.cycles + c))
<1> DEFINE x == Base(n, c, p)
<1>1. x \in Machine /\ x.cycles = n.cycles + c /\ x.sp = n.sp /\ x.ram = n.ram /\ x.log = n.log
  BY BaseType
<1> HIDE DEF x
<1>2. /\ L!pushReturnAddress(x, w) = Pushed(x, w, HighFirstPush(x, w, x.cycles))
      /\ E!push16(x, w) = Pushed(x, w, LowFirstPush(x, w, x.cycles))
  BY <1>1, PushForms
<1>3. \A k : Below(x, k) = Below(n, k)
  BY <1>1 DEF Below
<1>4. /\ PushRam(x, w) = PushRam(n, w)
      /\ HighFirstPush(x, w, x.cycles) = HighFirstPush(n, w, n.cycles + c)
      /\ LowFirstPush(x, w, x.cycles) = LowFirstPush(n, w, n.cycles + c)
  BY <1>1, <1>3 DEF PushRam, HighFirstPush, LowFirstPush
<1>5. \A g : Pushed(x, w, g) = Left(n, c, p, n.ime, Below(n, 2), PushRam(n, w), g)
  <2> TAKE g
  <2> DEFINE s == Below(n, 2)
             r == PushRam(n, w)
  <2>1. Pushed(x, w, g) = [x EXCEPT !.sp = s, !.ram = r, !.log = g]
    BY <1>3, <1>4 DEF Pushed
  <2>2. x = Left(n, c, p, n.ime, n.sp, n.ram, n.log)
    BY DEF x, Base
  <2> HIDE DEF s, r
  <2>3. [x EXCEPT !.sp = s, !.ram = r, !.log = g] = Left(n, c, p, n.ime, s, r, g)
    BY <2>2 DEF Left, Machine
  <2> QED BY <2>1, <2>3 DEF s, r
<1> QED BY <1>2, <1>4, <1>5 DEF x

PopOrder(n, t) == IF n.lowFirst THEN LowFirstPop(n, t) ELSE HighFirstPop(n, t)

LEMMA PopOnBase ==
    ASSUME NEW n, n \in Machine, NEW c \in Nat, NEW p \in Word
    PROVE  /\ L!AfterPop(Base(n, c, p))
                = Left(n, c, p, n.ime, Above(n, 2), n.ram, LowFirstPop(n, n.cycles + c))
           /\ E!AfterPop16(Base(n, c, p))
                = Left(n, c, p, n.ime, Above(n, 2), n.ram, PopOrder(n, n.cycles + c))
           /\ L!popReturnAddress(Base(n, c, p)) = E!pop16(n) /\ E!pop16(Base(n, c, p)) = E!pop16(n)
           /\ E!pop16(n) \in Word
<1> DEFINE x == Base(n, c, p)
<1>1. /\ x \in Machine /\ x.cycles = n.cycles + c /\ x.sp = n.sp /\ x.ram = n.ram /\ x.log = n.log
      /\ x.lowFirst = n.lowFirst
  BY BaseType
<1> HIDE DEF x
<1>2. /\ L!AfterPop(x) = Popped(x, LowFirstPop(x, x.cycles))
      /\ E!AfterPop16(x) = Popped(x, PopOrder(x, x.cycles))
      /\ L!popReturnAddress(x) = E!pop16(x)
      /\ E!pop16(x) = E!Join(E!read_ram(x, Above(x, 1)), E!read_ram(x, x.sp))
  BY <1>1, PopForms DEF PopOrder
<1>3. (\A k : Above(x, k) = Above(n, k)) /\ \A a : E!read_ram(x, a) = E!read_ram(n, a)
  BY <1>1 DEF Above, E!read_ram, E!ram
<1>4. /\ LowFirstPop(x, x.cycles) = LowFirstPop(n, n.cycles + c)
      /\ HighFirstPop(x, x.cycles) = HighFirstPop(n, n.cycles + c)
  BY <1>1, <1>3 DEF LowFirstPop, HighFirstPop
<1>5. E!pop16(n) = E!Join(E!read_ram(n, Above(n, 1)), E!read_ram(n, n.sp)) /\ E!pop16(n) \in Word
  BY PopForms
<1>6. \A g : Popped(x, g) = Left(n, c, p, n.ime, Above(n, 2), n.ram, g)
  <2> TAKE g
  <2> DEFINE s == Above(n, 2)
  <2>1. Popped(x, g) = [x EXCEPT !.sp = s, !.log = g]
    BY <1>3 DEF Popped
  <2>2. x = Left(n, c, p, n.ime, n.sp, n.ram, n.log)
    BY DEF x, Base
  <2> HIDE DEF s
  <2>3. [x EXCEPT !.sp = s, !.log = g] = Left(n, c, p, n.ime, s, n.ram, g)
    BY <2>2 DEF Left, Machine
  <2> QED BY <2>1, <2>3 DEF s
<1>7. PopOrder(x, x.cycles) = PopOrder(n, n.cycles + c)
  BY <1>1, <1>4 DEF PopOrder
<1>8. E!pop16(x) = E!pop16(n)
  BY <1>1, <1>2, <1>3, <1>5
<1> QED BY <1>2, <1>4, <1>5, <1>6, <1>7, <1>8 DEF x

-----------------------------------------------------------------------------
(* Transfers *)

\* Where the instruction ends.
Behind(n, i) == E!Trunc16(n.pc + i.len)

\* A jump leaves the machine at p; a call or a return is the same with an access to the
\* stack, x cycles after the instruction began in compiled code and y in the interpreter.
JumpForm(n, l2, e2) == \E c \in Nat, p \in Word : l2 = Base(n, c, p) /\ e2 = Base(n, c, p)
PushForm(n, w, c, p, x, y, l2, e2) ==
    /\ l2 = Left(n, c, p, n.ime, Below(n, 2), PushRam(n, w), HighFirstPush(n, w, n.cycles + x))
    /\ e2 = Left(n, c, p, n.ime, Below(n, 2), PushRam(n, w), LowFirstPush(n, w, n.cycles + y))
PopForm(n, c, b, x, y, l2, e2) ==
    /\ l2 = Left(n, c, E!pop16(n), b, Above(n, 2), n.ram, LowFirstPop(n, n.cycles + x))
    /\ e2 = Left(n, c, E!pop16(n), b, Above(n, 2), n.ram, PopOrder(n, n.cycles + y))

\* Both find the same condition in the instruction and the flags.
LEMMA SameCondition ==
    ASSUME NEW n, Good(n), NEW i, NEW x, i.type \in Conditional, Typed(i.type, i.operands), x.flag = n.flag
    PROVE  L!taken(x, i) <=> E!Holds(n, i.operands[1])
<1>1. PICK cc \in {"NZ", "Z", "NC", "C"} : i.operands = <<cc>>
  BY DEF Typed
<1>2. n.flag.Z \in BOOLEAN /\ n.flag.C \in BOOLEAN
  BY GoodFields
<1>3. CASE cc = "NZ" BY <1>1, <1>2, <1>3 DEF L!taken, L!loadCondition, E!Holds
<1>4. CASE cc = "Z" BY <1>1, <1>2, <1>4 DEF L!taken, L!loadCondition, E!Holds
<1>5. CASE cc = "NC" BY <1>1, <1>2, <1>5 DEF L!taken, L!loadCondition, E!Holds
<1>6. CASE cc = "C" BY <1>1, <1>2, <1>6 DEF L!taken, L!loadCondition, E!Holds
<1> QED BY <1>3, <1>4, <1>5, <1>6

\* What the two terminators start from.
LEMMA TransferStart ==
    ASSUME NEW n, NEW i, NEW op, Runs(n, i, op), i.type \in L!Terminators
    PROVE  LET q == Behind(n, i)
               x == Past(n)
               s == E!Switch[op]
           IN  /\ n \in Machine /\ Good(n) /\ i.cycles \in Nat /\ i.extra \in Nat /\ i.cycles + i.extra \in Nat
               /\ q \in Word /\ n.pc \in Word /\ n.pc + 1 \in Word
               /\ L!Run(n, i) = L!joinBlocks(n, i)
               /\ L!increaseCycles(n, i.cycles) = Base(n, i.cycles, n.pc)
               /\ L!behind(Base(n, i.cycles, n.pc), i) = q
               /\ E!Run(n) = E!transfer(x, s, op)
               /\ x = Base(n, 0, n.pc + 1) /\ x.flag = n.flag /\ x.reg = n.reg
               /\ E!Trunc16(x.pc + s.len - 1) = q
               /\ s.operation = i.type /\ E!CaseOperands(op) = i.operands /\ s.len = i.len
               /\ s.cycles = i.cycles /\ s.extra = i.extra
<1> DEFINE x == Past(n)
           s == E!Switch[op]
<1>1. Good(n) /\ n.pc + 1 \in Word /\ n.pc \in Int /\ E!skip(n, 1) = x /\ x = At(n, n.pc + 1)
  BY PastOpcode DEF Runs, Past
<1>2. n \in Machine /\ n.pc \in Word
  BY <1>1, GoodFields DEF Good
<1>3. /\ op # 203 /\ s.continue /\ s.operation = i.type /\ E!CaseOperands(op) = i.operands /\ s.len = i.len
      /\ s.cycles = i.cycles /\ s.extra = i.extra /\ i.cycles \in Nat /\ i.extra \in Nat /\ i.len \in 1..3
  BY DEF Runs, Agrees
<1>4. E!ram(n, n.pc) = op
  BY DEF Runs, Fetched
<1>5. L!Run(n, i) = L!joinBlocks(n, i)
  BY DEF L!Run, L!IsBlockTerminator
<1>6. E!Run(n) = E!transfer(x, s, op)
  BY <1>1, <1>3, <1>4 DEF E!Run
<1>7. x = Base(n, 0, n.pc + 1) /\ L!increaseCycles(n, i.cycles) = Base(n, i.cycles, n.pc)
  BY <1>1, <1>2, <1>3, Bases
<1>8. x.pc = n.pc + 1 /\ x.flag = n.flag /\ x.reg = n.reg
  BY <1>1, SetPc
<1>9. Base(n, i.cycles, n.pc).pc = n.pc
  BY <1>2, <1>3, BaseType
<1>10. n.pc + i.len \in Int /\ x.pc + s.len - 1 = n.pc + i.len /\ i.cycles + i.extra \in Nat
  BY <1>1, <1>3, <1>8
<1>11. /\ Behind(n, i) \in Word /\ E!Trunc16(x.pc + s.len - 1) = Behind(n, i)
       /\ L!behind(Base(n, i.cycles, n.pc), i) = Behind(n, i)
  BY <1>9, <1>10, TruncType DEF Behind, L!behind
<1> QED BY <1>1, <1>2, <1>3, <1>5, <1>6, <1>7, <1>8, <1>10, <1>11

\* JP nn, JP (HL) and JR e.
LEMMA JumpsWork ==
    ASSUME NEW n, NEW i, NEW op, Runs(n, i, op), i.type \in {"JP_NN", "JP_HL", "JR_E"}, i.extra = 0
    PROVE  JumpForm(n, L!Run(n, i), E!Run(n))
<1> DEFINE q == Behind(n, i)
           c == i.cycles
           x == Past(n)
           s == E!Switch[op]
           b == Base(n, c, n.pc)
<1>1. i.type \in L!Terminators
  BY DEF L!Terminators
<1>2. /\ n \in Machine /\ Good(n) /\ c \in Nat /\ q \in Word /\ n.pc \in Word /\ n.pc + 1 \in Word
      /\ L!Run(n, i) = L!joinBlocks(n, i) /\ L!increaseCycles(n, c) = b /\ L!behind(b, i) = q
      /\ E!Run(n) = E!transfer(x, s, op) /\ x = Base(n, 0, n.pc + 1) /\ x.flag = n.flag /\ x.reg = n.reg
      /\ E!Trunc16(x.pc + s.len - 1) = q
      /\ s.operation = i.type /\ E!CaseOperands(op) = i.operands /\ s.len = i.len
      /\ s.cycles = c /\ s.extra = 0
  BY <1>1, TransferStart
<1>3. \A p \in Word : /\ L!Goto(b, p) = Base(n, c, p) /\ E!goto(x, p) = Base(n, 0, p)
                      /\ E!goto(Base(n, c, q), p) = Base(n, c, p)
  <2>1. 0 \in Nat
    OBVIOUS
  <2> QED BY <1>2, <2>1, Bases
<1>4. E!spend(E!goto(x, q), c) = Base(n, c, q) /\ E!spend(Base(n, c, q), 0) = Base(n, c, q)
  <2>1. 0 \in Nat /\ 0 + c = c /\ c + 0 = c
    BY <1>2
  <2>2. E!spend(Base(n, 0, q), c) = Base(n, 0 + c, q) /\ E!spend(Base(n, c, q), 0) = Base(n, c + 0, q)
    BY <1>2, <2>1, Bases
  <2> QED BY <1>2, <1>3, <2>1, <2>2
<1> SUFFICES ASSUME TRUE PROVE \E p \in Word : L!Run(n, i) = Base(n, c, p) /\ E!Run(n) = Base(n, c, p)
  BY <1>2 DEF JumpForm
<1>5. CASE i.type = "JP_NN"
  <2>1. i.len = 3
    BY <1>5, Lengths DEF Runs, Len3
  <2>2. i.imm \in Word /\ E!word(x) = i.imm /\ E!AfterRead16(x, x.pc) = x
    BY <2>1, Constants DEF Runs, Fetched
  <2>3. L!Run(n, i) = L!Goto(b, i.imm)
    BY <1>2, <1>5 DEF L!joinBlocks, L!jumps
  <2> HIDE DEF x, q, c
  <2>4. E!Run(n) = E!goto(Base(n, c, q), i.imm)
    BY <1>2, <1>4, <1>5, <2>1, <2>2 DEF E!transfer
  <2> QED BY <1>3, <2>2, <2>3, <2>4
<1>6. CASE i.type = "JP_HL"
  <2>1. i.len = 1
    BY <1>6, SMTT(30) DEF Runs, Sized, Len2, Len3, AluN
  <2>2. L!Run(n, i) = L!Goto(b, L!HL(b))
    BY <1>2, <1>6 DEF L!joinBlocks, L!jp_hl
  <2>3. L!HL(b) = E!get_hl(n) /\ E!get_hl(n) \in Word /\ E!get_hl(x) = E!get_hl(n)
    <3>1. L!HL(n) = E!get_hl(n) /\ E!get_hl(n) \in Word
      BY <1>2, SamePair DEF Pair
    <3>2. b.reg = n.reg
      BY <1>2, BaseType
    <3>3. L!HL(b) = L!HL(n)
      BY <3>2 DEF L!HL, L!readReg16, L!SplitUp
    <3>4. E!get_hl(x) = E!get_hl(n)
      BY <1>2 DEF E!get_hl
    <3> QED BY <3>1, <3>3, <3>4
  <2> HIDE DEF x, q, c
  <2>4. E!Run(n) = E!goto(Base(n, c, q), E!get_hl(n))
    BY <1>2, <1>4, <1>6, <2>1, <2>3 DEF E!transfer
  <2> QED BY <1>3, <2>2, <2>3, <2>4
<1>7. CASE i.type = "JR_E"
  <2>1. i.len = 2
    BY <1>7, Lengths DEF Runs, Len2
  <2>2. i.imm \in Byte /\ E!byte(x) = i.imm
    BY <2>1, Constants DEF Runs, Fetched
  <2> DEFINE p == E!Trunc16(q + E!SExt8(i.imm))
  <2>3. p \in Word /\ L!relative(b, i) = p /\ E!Trunc16(x.pc + 1 + E!SExt8(i.imm)) = p
    <3>1. E!SExt8(i.imm) \in Int /\ L!SExt8(i.imm) = E!SExt8(i.imm) /\ q \in Int
      BY <1>2, <2>2, ByteIs, WordIs DEF E!SExt8, L!SExt8
    <3>2. x.pc + 1 = q
      <4>1. x.pc = n.pc + 1 /\ n.pc + 2 <= 32767 /\ n.pc \in Int /\ n.pc >= 0
        <5>1. x.pc = n.pc + 1
          BY PastOpcode DEF Runs
        <5> QED BY <1>2, <5>1, WordIs DEF Runs, Fetched
      <4> QED BY <2>1, <4>1 DEF Behind, E!Trunc16
    <3>3. q + E!SExt8(i.imm) \in Int
      BY <3>1
    <3> HIDE DEF q
    <3>4. L!relative(b, i) = p
      BY <1>2, <3>1, <3>3, TruncType DEF L!relative
    <3> QED BY <3>2, <3>3, <3>4, TruncType
  <2>4. L!Run(n, i) = L!Goto(b, p)
    BY <1>2, <1>7, <2>3 DEF L!joinBlocks, L!jumps
  <2> HIDE DEF x, q, c, p
  <2>5. E!Run(n) = E!goto(Base(n, c, q), p)
    BY <1>2, <1>4, <1>7, <2>1, <2>2, <2>3 DEF E!transfer
  <2> QED BY <1>3, <2>3, <2>4, <2>5
<1> QED BY <1>5, <1>6, <1>7

\* Each step of a transfer, in either backend, from Base.
LEMMA TransferParts ==
    ASSUME NEW n, NEW i, NEW op, Runs(n, i, op), i.type \in L!Terminators
    PROVE  LET q == Behind(n, i)
               x == Past(n)
               c == i.cycles
               d == i.cycles + i.extra
               b == Base(n, c, n.pc)
           IN  /\ \A p \in Word : /\ L!Goto(b, p) = Base(n, c, p) /\ E!goto(x, p) = Base(n, 0, p)
                                  /\ E!goto(Base(n, c, q), p) = Base(n, c, p)
                                  /\ E!goto(Base(n, d, q), p) = Base(n, d, p)
                                  /\ L!extra(Base(n, c, p), i) = Base(n, d, p)
               /\ E!spend(E!goto(x, q), c) = Base(n, c, q)
               /\ E!spend(Base(n, c, q), i.extra) = Base(n, d, q)
               /\ (IF E!Switch[op].len = 3 THEN E!AfterRead16(x, x.pc) ELSE x) = x
               /\ i.type \in Conditional => (L!taken(b, i) <=> E!Holds(x, i.operands[1]))
<1> DEFINE q == Behind(n, i)
           x == Past(n)
           c == i.cycles
           d == i.cycles + i.extra
           b == Base(n, c, n.pc)
<1>1. /\ n \in Machine /\ c \in Nat /\ i.extra \in Nat /\ d \in Nat /\ q \in Word /\ n.pc \in Word /\ n.pc + 1 \in Word
      /\ x = Base(n, 0, n.pc + 1) /\ E!Switch[op].len = i.len /\ 0 \in Nat /\ 0 + c = c
  BY TransferStart
<1>2. \A p \in Word : /\ L!Goto(b, p) = Base(n, c, p) /\ E!goto(x, p) = Base(n, 0, p)
                      /\ E!goto(Base(n, c, q), p) = Base(n, c, p)
                      /\ E!goto(Base(n, d, q), p) = Base(n, d, p)
  BY <1>1, Bases
<1>3. \A p \in Word : L!extra(Base(n, c, p), i) = Base(n, d, p)
  BY <1>1, Bases DEF L!extra
<1>4. E!spend(E!goto(x, q), c) = Base(n, c, q)
  <2>1. E!spend(Base(n, 0, q), c) = Base(n, 0 + c, q)
    BY <1>1, Bases
  <2> QED BY <1>1, <1>2, <2>1
<1>5. E!spend(Base(n, c, q), i.extra) = Base(n, d, q)
  BY <1>1, Bases
<1>6. (IF E!Switch[op].len = 3 THEN E!AfterRead16(x, x.pc) ELSE x) = x
  <2>1. i.len = 3 => E!AfterRead16(x, x.pc) = x
    BY Constants DEF Runs
  <2> QED BY <1>1, <2>1
<1>7. i.type \in Conditional => (L!taken(b, i) <=> E!Holds(x, i.operands[1]))
  <2>1. Good(x) /\ x.flag = n.flag /\ Typed(i.type, i.operands)
    BY PastOpcode, TransferStart DEF Runs
  <2>2. b.flag = n.flag
    BY <1>1, BaseType
  <2> QED BY <2>1, <2>2, SameCondition
<1> QED BY <1>2, <1>3, <1>4, <1>5, <1>6, <1>7

\* A condition that does not hold leaves the instruction behind.
LEMMA NotTaken ==
    ASSUME NEW n, NEW i, NEW op, Runs(n, i, op), i.type \in Conditional, i.extra > 0,
           ~L!taken(Base(n, i.cycles, n.pc), i)
    PROVE  JumpForm(n, L!Run(n, i), E!Run(n))
<1> DEFINE q == Behind(n, i)
           x == Past(n)
           c == i.cycles
           s == E!Switch[op]
           b == Base(n, c, n.pc)
<1>1. i.type \in L!Terminators
  BY DEF L!Terminators, Conditional
<1>2. /\ n \in Machine /\ c \in Nat /\ q \in Word
      /\ L!Run(n, i) = L!joinBlocks(n, i) /\ L!increaseCycles(n, c) = b /\ L!behind(b, i) = q
      /\ E!Run(n) = E!transfer(x, s, op) /\ E!Trunc16(x.pc + s.len - 1) = q
      /\ s.operation = i.type /\ E!CaseOperands(op) = i.operands /\ s.cycles = c /\ s.extra = i.extra
  BY <1>1, TransferStart
<1>3. /\ L!Goto(b, q) = Base(n, c, q) /\ E!spend(E!goto(x, q), c) = Base(n, c, q)
      /\ (IF s.len = 3 THEN E!AfterRead16(x, x.pc) ELSE x) = x
      /\ ~E!Holds(x, i.operands[1])
  BY <1>1, <1>2, TransferParts
<1>4. L!Run(n, i) = L!Goto(b, q)
  <2>1. L!joinBlocks(n, i) = IF i.type \in {"JP_CC_NN", "JR_CC_E"} THEN L!jumps(b, i)
                             ELSE IF i.type = "CALL_CC_NN" THEN L!calls(b, i) ELSE L!returns(b, i)
    BY <1>2 DEF L!joinBlocks, Conditional
  <2>2. ~L!taken(b, i)
    OBVIOUS
  <2> HIDE DEF b, q
  <2> QED BY <1>2, <2>1, <2>2 DEF L!jumps, L!calls, L!returns, Conditional
<1>5. E!Run(n) = E!spend(E!goto(x, q), c)
  <2> HIDE DEF x, q, c
  <2>1. s.extra # 0
    BY <1>2
  <2> QED BY <1>2, <1>3, <2>1 DEF E!transfer
<1> QED BY <1>2, <1>3, <1>4, <1>5 DEF JumpForm

\* JP cc,nn and JR cc,e, taken.
LEMMA ConditionalJumpsWork ==
    ASSUME NEW n, NEW i, NEW op, Runs(n, i, op), i.type \in {"JP_CC_NN", "JR_CC_E"}, i.extra > 0,
           L!taken(Base(n, i.cycles, n.pc), i)
    PROVE  JumpForm(n, L!Run(n, i), E!Run(n))
<1> DEFINE q == Behind(n, i)
           x == Past(n)
           c == i.cycles
           d == i.cycles + i.extra
           s == E!Switch[op]
           b == Base(n, c, n.pc)
<1>1. i.type \in L!Terminators /\ i.type \in Conditional
  BY DEF L!Terminators, Conditional
<1>2. /\ n \in Machine /\ c \in Nat /\ d \in Nat /\ q \in Word
      /\ L!Run(n, i) = L!joinBlocks(n, i) /\ L!increaseCycles(n, c) = b /\ L!behind(b, i) = q
      /\ E!Run(n) = E!transfer(x, s, op) /\ E!Trunc16(x.pc + s.len - 1) = q
      /\ s.operation = i.type /\ E!CaseOperands(op) = i.operands /\ s.cycles = c /\ s.extra = i.extra
  BY <1>1, TransferStart
<1>3. \A p \in Word : L!extra(L!Goto(b, p), i) = Base(n, d, p)
  BY <1>1, TransferParts
<1>4. /\ E!spend(E!goto(x, q), c) = Base(n, c, q) /\ E!spend(Base(n, c, q), i.extra) = Base(n, d, q)
      /\ \A p \in Word : E!goto(Base(n, d, q), p) = Base(n, d, p)
      /\ (IF s.len = 3 THEN E!AfterRead16(x, x.pc) ELSE x) = x
      /\ E!Holds(x, i.operands[1])
  BY <1>1, <1>2, TransferParts
<1> SUFFICES ASSUME TRUE PROVE \E p \in Word : L!Run(n, i) = Base(n, d, p) /\ E!Run(n) = Base(n, d, p)
  BY <1>2 DEF JumpForm
<1>5. CASE i.type = "JP_CC_NN"
  <2>1. i.len = 3
    BY <1>5, Lengths DEF Runs, Len3
  <2>2. i.imm \in Word /\ E!word(x) = i.imm
    BY <2>1, Constants DEF Runs, Fetched
  <2>3. L!Run(n, i) = L!extra(L!Goto(b, i.imm), i)
    BY <1>2, <1>5 DEF L!joinBlocks, L!jumps
  <2> HIDE DEF x, q, c, d
  <2>4. E!Run(n) = E!goto(Base(n, d, q), i.imm)
    BY <1>2, <1>4, <1>5, <2>2 DEF E!transfer
  <2> QED BY <1>3, <1>4, <2>2, <2>3, <2>4
<1>6. CASE i.type = "JR_CC_E"
  <2>1. i.len = 2
    BY <1>6, Lengths DEF Runs, Len2
  <2>2. i.imm \in Byte /\ E!byte(x) = i.imm
    BY <2>1, Constants DEF Runs, Fetched
  <2> DEFINE p == E!Trunc16(q + E!SExt8(i.imm))
  <2>3. p \in Word /\ L!relative(b, i) = p /\ E!Trunc16(x.pc + 1 + E!SExt8(i.imm)) = p
    <3>1. E!SExt8(i.imm) \in Int /\ L!SExt8(i.imm) = E!SExt8(i.imm) /\ q \in Int
      BY <1>2, <2>2, ByteIs, WordIs DEF E!SExt8, L!SExt8
    <3>2. x.pc + 1 = q
      <4>1. x.pc = n.pc + 1 /\ n.pc + 2 <= 32767 /\ n.pc \in Int /\ n.pc >= 0
        <5>1. x.pc = n.pc + 1 /\ n.pc \in Word
          BY <1>1, PastOpcode, TransferStart DEF Runs
        <5> QED BY <1>2, <5>1, WordIs DEF Runs, Fetched
      <4> QED BY <2>1, <4>1 DEF Behind, E!Trunc16
    <3>3. q + E!SExt8(i.imm) \in Int
      BY <3>1
    <3> HIDE DEF q
    <3>4. L!relative(b, i) = p
      BY <1>2, <3>1, <3>3, TruncType DEF L!relative
    <3> QED BY <3>2, <3>3, <3>4, TruncType
  <2>4. L!Run(n, i) = L!extra(L!Goto(b, p), i)
    BY <1>2, <1>6, <2>3 DEF L!joinBlocks, L!jumps
  <2> HIDE DEF x, q, c, p, d
  <2>5. E!Run(n) = E!goto(Base(n, d, q), p)
    BY <1>2, <1>4, <1>6, <2>2, <2>3 DEF E!transfer
  <2> QED BY <1>3, <1>4, <2>3, <2>4, <2>5
<1> QED BY <1>5, <1>6

\* CALL nn.
LEMMA CallsWork ==
    ASSUME NEW n, NEW i, NEW op, Runs(n, i, op), i.type = "CALL_NN", i.extra = 0
    PROVE  PushForm(n, Behind(n, i), i.cycles, i.imm, i.cycles, 0, L!Run(n, i), E!Run(n))
<1> DEFINE q == Behind(n, i)
           x == Past(n)
           c == i.cycles
           s == E!Switch[op]
           b == Base(n, c, n.pc)
<1>1. i.type \in L!Terminators
  BY DEF L!Terminators
<1>2. /\ n \in Machine /\ c \in Nat /\ q \in Word /\ n.pc \in Word /\ n.pc + 1 \in Word
      /\ L!Run(n, i) = L!joinBlocks(n, i) /\ L!increaseCycles(n, c) = b /\ L!behind(b, i) = q
      /\ E!Run(n) = E!transfer(x, s, op) /\ E!Trunc16(x.pc + s.len - 1) = q /\ x = Base(n, 0, n.pc + 1)
      /\ s.operation = i.type /\ s.cycles = c /\ s.extra = 0
      /\ (IF s.len = 3 THEN E!AfterRead16(x, x.pc) ELSE x) = x
  BY <1>1, TransferStart, TransferParts
<1>3. i.len = 3
  BY Lengths DEF Runs, Len3
<1>4. i.imm \in Word /\ E!word(x) = i.imm
  BY <1>3, Constants DEF Runs, Fetched
<1>5. L!Run(n, i) = L!Goto(L!pushReturnAddress(b, q), i.imm)
  BY <1>2 DEF L!joinBlocks, L!calls
<1>6. E!Run(n) = E!spend(E!goto(E!push16(x, q), i.imm), c)
  <2> HIDE DEF x, q, c
  <2> QED BY <1>2, <1>4 DEF E!transfer
<1> DEFINE h == HighFirstPush(n, q, n.cycles + c)
           g == LowFirstPush(n, q, n.cycles + 0)
           r == PushRam(n, q)
           z == Below(n, 2)
<1>7. L!pushReturnAddress(b, q) = Left(n, c, n.pc, n.ime, z, r, h)
  BY <1>2, PushOnBase
<1>8. E!push16(x, q) = Left(n, 0, n.pc + 1, n.ime, z, r, g)
  <2>1. 0 \in Nat
    OBVIOUS
  <2> QED BY <1>2, <2>1, PushOnBase
<1> HIDE DEF h, g, r, z
<1>9. L!Run(n, i) = Left(n, c, i.imm, n.ime, z, r, h)
  BY <1>2, <1>5, <1>7, LeftGoto
<1>10. E!Run(n) = Left(n, c, i.imm, n.ime, z, r, g)
  <2>1. 0 \in Nat /\ 0 + c = c
    BY <1>2
  <2>2. E!goto(E!push16(x, q), i.imm) = Left(n, 0, i.imm, n.ime, z, r, g)
    BY <1>2, <1>8, <2>1, Leftgoto
  <2>3. E!spend(Left(n, 0, i.imm, n.ime, z, r, g), c) = Left(n, 0 + c, i.imm, n.ime, z, r, g)
    BY <1>2, <2>1, LeftSpend
  <2> QED BY <1>6, <2>1, <2>2, <2>3
<1> QED BY <1>9, <1>10 DEF PushForm, h, g, r, z

\* RST n.
LEMMA RestartsWork ==
    ASSUME NEW n, NEW i, NEW op, Runs(n, i, op), i.type = "RST_N", i.extra = 0
    PROVE  /\ i.operands[1] \in Word
           /\ PushForm(n, Behind(n, i), i.cycles, i.operands[1], i.cycles, 0, L!Run(n, i), E!Run(n))
<1> DEFINE q == Behind(n, i)
           x == Past(n)
           c == i.cycles
           s == E!Switch[op]
           b == Base(n, c, n.pc)
           v == i.operands[1]
<1>1. i.type \in L!Terminators
  BY DEF L!Terminators
<1>2. /\ n \in Machine /\ c \in Nat /\ q \in Word /\ n.pc \in Word /\ n.pc + 1 \in Word
      /\ L!Run(n, i) = L!joinBlocks(n, i) /\ L!increaseCycles(n, c) = b /\ L!behind(b, i) = q
      /\ E!Run(n) = E!transfer(x, s, op) /\ E!Trunc16(x.pc + s.len - 1) = q /\ x = Base(n, 0, n.pc + 1)
      /\ s.operation = i.type /\ s.cycles = c /\ s.extra = 0 /\ E!CaseOperands(op) = i.operands
  BY <1>1, TransferStart
<1>3. v \in Word
  <2>1. PICK k \in 0..7 : i.operands = <<8 * k>>
    BY DEF Runs, Typed
  <2> QED BY <2>1, WordIs
<1>4. L!Run(n, i) = L!Goto(L!pushReturnAddress(b, q), v)
  BY <1>2 DEF L!joinBlocks, L!rst_n
<1>5. E!Run(n) = E!spend(E!goto(E!push16(x, q), v), c)
  <2> HIDE DEF x, q, c
  <2> QED BY <1>2 DEF E!transfer
<1> DEFINE h == HighFirstPush(n, q, n.cycles + c)
           g == LowFirstPush(n, q, n.cycles + 0)
           r == PushRam(n, q)
           z == Below(n, 2)
<1>7. L!pushReturnAddress(b, q) = Left(n, c, n.pc, n.ime, z, r, h)
  BY <1>2, PushOnBase
<1>8. E!push16(x, q) = Left(n, 0, n.pc + 1, n.ime, z, r, g)
  <2>1. 0 \in Nat
    OBVIOUS
  <2> QED BY <1>2, <2>1, PushOnBase
<1> HIDE DEF h, g, r, z, v
<1>9. L!Run(n, i) = Left(n, c, v, n.ime, z, r, h)
  BY <1>2, <1>4, <1>7, LeftGoto
<1>10. E!Run(n) = Left(n, c, v, n.ime, z, r, g)
  <2>1. 0 \in Nat /\ 0 + c = c
    BY <1>2
  <2>2. E!goto(E!push16(x, q), v) = Left(n, 0, v, n.ime, z, r, g)
    BY <1>2, <1>8, <2>1, Leftgoto
  <2>3. E!spend(Left(n, 0, v, n.ime, z, r, g), c) = Left(n, 0 + c, v, n.ime, z, r, g)
    BY <1>2, <2>1, LeftSpend
  <2> QED BY <1>5, <2>1, <2>2, <2>3
<1> QED BY <1>3, <1>9, <1>10 DEF PushForm, h, g, r, z, v

\* CALL cc,nn, taken.
LEMMA ConditionalCallsWork ==
    ASSUME NEW n, NEW i, NEW op, Runs(n, i, op), i.type = "CALL_CC_NN", i.extra > 0,
           L!taken(Base(n, i.cycles, n.pc), i)
    PROVE  /\ i.imm \in Word
           /\ PushForm(n, Behind(n, i), i.cycles + i.extra, i.imm, i.cycles, i.cycles + i.extra, L!Run(n, i), E!Run(n))
<1> DEFINE q == Behind(n, i)
           x == Past(n)
           c == i.cycles
           d == i.cycles + i.extra
           s == E!Switch[op]
           b == Base(n, c, n.pc)
<1>1. i.type \in L!Terminators /\ i.type \in Conditional
  BY DEF L!Terminators, Conditional
<1>2. /\ n \in Machine /\ c \in Nat /\ d \in Nat /\ i.extra \in Nat /\ q \in Word /\ n.pc \in Word /\ n.pc + 1 \in Word
      /\ L!Run(n, i) = L!joinBlocks(n, i) /\ L!increaseCycles(n, c) = b /\ L!behind(b, i) = q
      /\ E!Run(n) = E!transfer(x, s, op) /\ E!Trunc16(x.pc + s.len - 1) = q /\ x = Base(n, 0, n.pc + 1)
      /\ s.operation = i.type /\ s.cycles = c /\ s.extra = i.extra /\ E!CaseOperands(op) = i.operands
  BY <1>1, TransferStart
<1>3. /\ E!spend(E!goto(x, q), c) = Base(n, c, q) /\ E!spend(Base(n, c, q), i.extra) = Base(n, d, q)
      /\ (IF s.len = 3 THEN E!AfterRead16(x, x.pc) ELSE x) = x
      /\ E!Holds(x, i.operands[1])
  BY <1>1, <1>2, TransferParts
<1>4. i.imm \in Word /\ E!word(x) = i.imm
  <2>1. i.len = 3
    BY Lengths DEF Runs, Len3
  <2> QED BY <2>1, Constants DEF Runs, Fetched
<1>5. L!Run(n, i) = L!extra(L!pushReturnAddress(L!Goto(b, i.imm), q), i)
  <2>1. L!taken(b, i)
    OBVIOUS
  <2> HIDE DEF b, q
  <2> QED BY <1>2, <2>1 DEF L!joinBlocks, L!calls
<1>6. E!Run(n) = E!goto(E!push16(Base(n, d, q), q), i.imm)
  <2> HIDE DEF x, q, c, d
  <2> QED BY <1>2, <1>3, <1>4 DEF E!transfer
<1> DEFINE h == HighFirstPush(n, q, n.cycles + c)
           g == LowFirstPush(n, q, n.cycles + d)
           r == PushRam(n, q)
           z == Below(n, 2)
<1>7. L!pushReturnAddress(L!Goto(b, i.imm), q) = Left(n, c, i.imm, n.ime, z, r, h)
  <2>1. L!Goto(b, i.imm) = Base(n, c, i.imm)
    BY <1>1, <1>4, TransferParts
  <2> QED BY <1>2, <1>4, <2>1, PushOnBase
<1>8. E!push16(Base(n, d, q), q) = Left(n, d, q, n.ime, z, r, g)
  BY <1>2, PushOnBase
<1> HIDE DEF h, g, r, z
<1>9. L!Run(n, i) = Left(n, d, i.imm, n.ime, z, r, h)
  BY <1>2, <1>5, <1>7, LeftIncrease DEF L!extra
<1>10. E!Run(n) = Left(n, d, i.imm, n.ime, z, r, g)
  BY <1>2, <1>6, <1>8, Leftgoto
<1> QED BY <1>4, <1>9, <1>10 DEF PushForm, h, g, r, z

\* RET and RETI.
LEMMA ReturnsWork ==
    ASSUME NEW n, NEW i, NEW op, Runs(n, i, op), i.type \in {"RET", "RETI"}, i.extra = 0
    PROVE  PopForm(n, i.cycles, IF i.type = "RETI" THEN 1 ELSE n.ime, i.cycles, 0, L!Run(n, i), E!Run(n))
<1> DEFINE q == Behind(n, i)
           x == Past(n)
           c == i.cycles
           s == E!Switch[op]
           b == Base(n, c, n.pc)
           v == E!pop16(n)
<1>1. i.type \in L!Terminators
  BY DEF L!Terminators
<1>2. /\ n \in Machine /\ c \in Nat /\ q \in Word /\ n.pc \in Word /\ n.pc + 1 \in Word
      /\ L!Run(n, i) = L!joinBlocks(n, i) /\ L!increaseCycles(n, c) = b
      /\ E!Run(n) = E!transfer(x, s, op) /\ x = Base(n, 0, n.pc + 1)
      /\ s.operation = i.type /\ s.cycles = c /\ s.extra = 0 /\ 0 \in Nat /\ 0 + c = c
  BY <1>1, TransferStart
<1> DEFINE h == LowFirstPop(n, n.cycles + c)
           g == PopOrder(n, n.cycles + 0)
           z == Above(n, 2)
<1>3. L!AfterPop(b) = Left(n, c, n.pc, n.ime, z, n.ram, h) /\ L!popReturnAddress(b) = v
  BY <1>2, PopOnBase
<1>4. E!AfterPop16(x) = Left(n, 0, n.pc + 1, n.ime, z, n.ram, g) /\ E!pop16(x) = v
  BY <1>2, PopOnBase
<1> DEFINE l1 == L!Goto(L!AfterPop(b), v)
           e1 == E!goto(E!AfterPop16(x), v)
<1>5. L!Run(n, i) = IF i.type = "RETI" THEN Enabled(l1) ELSE l1
  <2> HIDE DEF b, v
  <2>1. L!Run(n, i) = L!returns(b, i)
    BY <1>2 DEF L!joinBlocks
  <2> QED BY <1>3, <2>1 DEF L!returns, Enabled
<1>6. E!Run(n) = E!spend(IF i.type = "RETI" THEN Enabled(e1) ELSE e1, c)
  <2> HIDE DEF x, q, c, v
  <2> QED BY <1>2, <1>4 DEF E!transfer, Enabled
<1> HIDE DEF h, g, z, v
<1>7. l1 = Left(n, c, v, n.ime, z, n.ram, h)
  BY <1>2, <1>3, LeftGoto
<1>8. e1 = Left(n, 0, v, n.ime, z, n.ram, g)
  BY <1>2, <1>4, Leftgoto
<1> HIDE DEF l1, e1
<1> DEFINE k == IF i.type = "RETI" THEN 1 ELSE n.ime
<1>9. L!Run(n, i) = Left(n, c, v, k, z, n.ram, h)
  <2>1. Enabled(Left(n, c, v, n.ime, z, n.ram, h)) = Left(n, c, v, 1, z, n.ram, h)
    BY <1>2, LeftEnabled
  <2> QED BY <1>5, <1>7, <2>1
<1>10. E!Run(n) = Left(n, c, v, k, z, n.ram, g)
  <2>1. Enabled(Left(n, 0, v, n.ime, z, n.ram, g)) = Left(n, 0, v, 1, z, n.ram, g)
    BY <1>2, LeftEnabled
  <2>2. (IF i.type = "RETI" THEN Enabled(e1) ELSE e1) = Left(n, 0, v, k, z, n.ram, g)
    BY <1>8, <2>1
  <2> HIDE DEF k
  <2>3. E!spend(Left(n, 0, v, k, z, n.ram, g), c) = Left(n, 0 + c, v, k, z, n.ram, g)
    BY <1>2, LeftSpend
  <2> QED BY <1>2, <1>6, <2>2, <2>3
<1> QED BY <1>9, <1>10 DEF PopForm, h, g, z, v

\* RET cc, taken.
LEMMA ConditionalReturnsWork ==
    ASSUME NEW n, NEW i, NEW op, Runs(n, i, op), i.type = "RET_CC", i.extra > 0,
           L!taken(Base(n, i.cycles, n.pc), i)
    PROVE  PopForm(n, i.cycles + i.extra, n.ime, i.cycles, i.cycles + i.extra, L!Run(n, i), E!Run(n))
<1> DEFINE q == Behind(n, i)
           x == Past(n)
           c == i.cycles
           d == i.cycles + i.extra
           s == E!Switch[op]
           b == Base(n, c, n.pc)
           v == E!pop16(n)
<1>1. i.type \in L!Terminators /\ i.type \in Conditional
  BY DEF L!Terminators, Conditional
<1>2. /\ n \in Machine /\ c \in Nat /\ d \in Nat /\ i.extra \in Nat /\ q \in Word /\ n.pc \in Word /\ n.pc + 1 \in Word
      /\ L!Run(n, i) = L!joinBlocks(n, i) /\ L!increaseCycles(n, c) = b
      /\ E!Run(n) = E!transfer(x, s, op) /\ E!Trunc16(x.pc + s.len - 1) = q /\ x = Base(n, 0, n.pc + 1)
      /\ s.operation = i.type /\ s.cycles = c /\ s.extra = i.extra /\ E!CaseOperands(op) = i.operands
  BY <1>1, TransferStart
<1>3. /\ E!spend(E!goto(x, q), c) = Base(n, c, q) /\ E!spend(Base(n, c, q), i.extra) = Base(n, d, q)
      /\ (IF s.len = 3 THEN E!AfterRead16(x, x.pc) ELSE x) = x
      /\ E!Holds(x, i.operands[1])
  BY <1>1, <1>2, TransferParts
<1> DEFINE h == LowFirstPop(n, n.cycles + c)
           g == PopOrder(n, n.cycles + d)
           z == Above(n, 2)
<1>4. L!AfterPop(b) = Left(n, c, n.pc, n.ime, z, n.ram, h) /\ L!popReturnAddress(b) = v
  BY <1>2, PopOnBase
<1>5. E!AfterPop16(Base(n, d, q)) = Left(n, d, q, n.ime, z, n.ram, g) /\ E!pop16(Base(n, d, q)) = v
  BY <1>2, PopOnBase
<1>6. L!Run(n, i) = L!Goto(L!extra(L!AfterPop(b), i), v)
  <2>1. L!taken(b, i)
    OBVIOUS
  <2> HIDE DEF b, q, v
  <2> QED BY <1>2, <1>4, <2>1 DEF L!joinBlocks, L!returns
<1>7. E!Run(n) = E!goto(E!AfterPop16(Base(n, d, q)), v)
  <2> HIDE DEF x, q, c, d, v
  <2> QED BY <1>2, <1>3, <1>5 DEF E!transfer
<1> HIDE DEF h, g, z, v
<1>8. L!Run(n, i) = Left(n, d, v, n.ime, z, n.ram, h)
  <2>1. L!extra(L!AfterPop(b), i) = Left(n, d, n.pc, n.ime, z, n.ram, h)
    BY <1>2, <1>4, LeftIncrease DEF L!extra
  <2> QED BY <1>2, <1>6, <2>1, LeftGoto
<1>9. E!Run(n) = Left(n, d, v, n.ime, z, n.ram, g)
  BY <1>2, <1>5, <1>7, Leftgoto
<1> QED BY <1>8, <1>9 DEF PopForm, h, g, z, v

-----------------------------------------------------------------------------
(* PUSH and POP *)

\* n has not accessed a register yet.
Quiet(n) == n.log = <<>>

\* What a push and a pop leave has its type, and devices see the bytes in the order given.
LEMMA TwoType ==
    ASSUME NEW n, n \in Machine, Quiet(n), NEW o \in {"read", "write"}, NEW a \in Word, NEW b \in Word,
           NEW v \in Byte, NEW u \in Byte, NEW t \in Nat
    PROVE  /\ Two(n.log, o, a, v, b, u, t) \in Log /\ Stamped(Two(n.log, o, a, v, b, u, t), t)
           /\ Trace(Two(n.log, o, a, v, b, u, t)) = TraceOfTwo(o, a, v, o, b, u)
<1>1. n.log \in Log
  BY DEF Machine
<1>2. Noted(n.log, o, a, v, t) \in Log
  BY <1>1, NotedType
<1>3. Two(n.log, o, a, v, b, u, t) \in Log
  BY <1>2, NotedType DEF Two
<1>4. Two(n.log, o, a, v, b, u, t) = Noted(Noted(<<>>, o, a, v, t), o, b, u, t)
  BY DEF Two, Quiet
<1> QED BY <1>3, <1>4, TraceIs

LEMMA PushTypes ==
    ASSUME NEW n, n \in Machine, Quiet(n), NEW w \in Word, NEW t \in Nat, NEW t2 \in Nat
    PROVE  /\ PushRam(n, w) \in Memory /\ Below(n, 2) \in Word
           /\ HighFirstPush(n, w, t) \in Log /\ Stamped(HighFirstPush(n, w, t), t)
           /\ LowFirstPush(n, w, t2) \in Log /\ Stamped(LowFirstPush(n, w, t2), t2)
           /\ Trace(LowFirstPush(n, w, t2)) = Reversed(Trace(HighFirstPush(n, w, t)))
<1> DEFINE a == Below(n, 1)
           b == Below(n, 2)
           v == E!High(w)
           u == E!Low(w)
<1>1. a \in Word /\ b \in Word /\ v \in Byte /\ u \in Byte
  BY StackWords, HighLow
<1>2. n.ram \in Memory
  BY DEF Machine
<1>3. PushRam(n, w) \in Memory
  BY <1>1, <1>2, PutType DEF PushRam
<1> HIDE DEF a, b, v, u
<1>4. /\ Two(n.log, "write", a, v, b, u, t) \in Log /\ Stamped(Two(n.log, "write", a, v, b, u, t), t)
      /\ Trace(Two(n.log, "write", a, v, b, u, t)) = TraceOfTwo("write", a, v, "write", b, u)
  BY <1>1, TwoType
<1>5. /\ Two(n.log, "write", b, u, a, v, t2) \in Log /\ Stamped(Two(n.log, "write", b, u, a, v, t2), t2)
      /\ Trace(Two(n.log, "write", b, u, a, v, t2)) = TraceOfTwo("write", b, u, "write", a, v)
  BY <1>1, TwoType
<1>6. TraceOfTwo("write", b, u, "write", a, v) = Reversed(TraceOfTwo("write", a, v, "write", b, u))
  BY TraceReversed
<1>7. /\ HighFirstPush(n, w, t) = Two(n.log, "write", a, v, b, u, t)
      /\ LowFirstPush(n, w, t2) = Two(n.log, "write", b, u, a, v, t2)
  BY DEF HighFirstPush, LowFirstPush, a, b, v, u
<1> QED BY <1>1, <1>3, <1>4, <1>5, <1>6, <1>7 DEF b

LEMMA PopTypes ==
    ASSUME NEW n, n \in Machine, Quiet(n), NEW t \in Nat, NEW t2 \in Nat
    PROVE  /\ Above(n, 2) \in Word
           /\ LowFirstPop(n, t) \in Log /\ Stamped(LowFirstPop(n, t), t)
           /\ PopOrder(n, t2) \in Log /\ Stamped(PopOrder(n, t2), t2)
           /\ Trace(PopOrder(n, t2)) = IF n.lowFirst THEN Trace(LowFirstPop(n, t)) ELSE Reversed(Trace(LowFirstPop(n, t)))
<1> DEFINE a == n.sp
           b == Above(n, 1)
           v == E!read_ram(n, n.sp)
           u == E!read_ram(n, Above(n, 1))
<1>1. a \in Word /\ b \in Word /\ Above(n, 2) \in Word
  BY StackWords
<1>2. v \in Byte /\ u \in Byte
  <2>1. \A c : E!ram(n, c) \in Byte
    <3>1. PICK cells \in SUBSET Word : n.ram \in [cells -> Byte]
      BY DEF Machine, Memory
    <3> QED BY <3>1, ByteIs DEF E!ram
  <2> QED BY <1>1, <2>1, WordIs, ByteIs DEF E!read_ram, E!DeviceValue
<1> HIDE DEF a, b, v, u
<1>4. \A s \in Nat : /\ Two(n.log, "read", a, v, b, u, s) \in Log /\ Stamped(Two(n.log, "read", a, v, b, u, s), s)
                     /\ Trace(Two(n.log, "read", a, v, b, u, s)) = TraceOfTwo("read", a, v, "read", b, u)
  BY <1>1, <1>2, TwoType
<1>5. /\ Two(n.log, "read", b, u, a, v, t2) \in Log /\ Stamped(Two(n.log, "read", b, u, a, v, t2), t2)
      /\ Trace(Two(n.log, "read", b, u, a, v, t2)) = TraceOfTwo("read", b, u, "read", a, v)
  BY <1>1, <1>2, TwoType
<1>6. TraceOfTwo("read", b, u, "read", a, v) = Reversed(TraceOfTwo("read", a, v, "read", b, u))
  BY TraceReversed
<1>7. /\ \A s : LowFirstPop(n, s) = Two(n.log, "read", a, v, b, u, s)
      /\ HighFirstPop(n, t2) = Two(n.log, "read", b, u, a, v, t2)
  BY DEF LowFirstPop, HighFirstPop, a, b, v, u
<1>8. PopOrder(n, t2) = IF n.lowFirst THEN LowFirstPop(n, t2) ELSE HighFirstPop(n, t2)
  BY DEF PopOrder
<1> QED BY <1>1, <1>4, <1>5, <1>6, <1>7, <1>8

LEMMA LeftPc ==
    ASSUME NEW n, n \in Machine, NEW c, NEW p, NEW b, NEW s, NEW ram, NEW log
    PROVE  Left(n, c, p, b, s, ram, log).pc = p
BY DEF Left, Machine

\* Where the two backends start a PUSH or a POP.
LEMMA StackStart ==
    ASSUME NEW n, NEW i, NEW op, Runs(n, i, op), i.type \in Stacked
    PROVE  /\ n \in Machine /\ Good(n) /\ i.cycles \in Nat /\ i.len = 1 /\ n.pc \in Word /\ n.pc + 1 \in Word
           /\ L!Run(n, i) = L!Goto(L!increaseCycles(L!r16_loads(n, i), i.cycles),
                                   L!Trunc16(L!increaseCycles(L!r16_loads(n, i), i.cycles).pc + 1))
           /\ E!Run(n) = E!goto(E!spend(E!loads(Past(n), i.type, i.operands), i.cycles),
                                E!Trunc16(E!spend(E!loads(Past(n), i.type, i.operands), i.cycles).pc + 0))
           /\ n = Base(n, 0, n.pc) /\ Past(n) = Base(n, 0, n.pc + 1)
           /\ L!Trunc16(n.pc + 1) = n.pc + 1 /\ E!Trunc16(n.pc + 1 + 0) = n.pc + 1
<1>1. Good(n) /\ n.pc + 1 \in Word /\ n.pc \in Int /\ E!skip(n, 1) = Past(n) /\ Past(n) = At(n, n.pc + 1)
  BY PastOpcode DEF Runs, Past
<1>2. n \in Machine /\ n.pc \in Word
  BY <1>1, GoodFields DEF Good
<1>3. i.type \notin L!Terminators /\ i.type \in L!R16Loads /\ i.type \in LoadTypes
  BY DEF Stacked, L!Terminators, L!R16Loads, LoadTypes
<1>4. /\ op # 203 /\ ~E!Switch[op].continue /\ E!Switch[op].cycles = i.cycles /\ E!Switch[op].len = i.len
      /\ i.cycles \in Nat
  BY <1>3 DEF Runs, Agrees
<1>5. i.len = 1
  <2>1. i.type \notin Len2 /\ i.type \notin Len3
    BY SMTT(30) DEF Stacked, Len2, Len3, AluN
  <2> QED BY <2>1 DEF Runs, Sized
<1>6. L!emitInstruction(n, i) = L!r16_loads(n, i)
  BY <1>3, EmitLoads
<1>7. E!Work(Past(n), E!Switch[op], op) = E!loads(Past(n), i.type, i.operands)
  BY <1>3, WorkLoads DEF Runs
<1>8. E!ram(n, n.pc) = op
  BY DEF Runs, Fetched
<1> DEFINE y == L!increaseCycles(L!r16_loads(n, i), i.cycles)
           z == E!spend(E!loads(Past(n), i.type, i.operands), i.cycles)
<1>9. L!Run(n, i) = [y EXCEPT !.pc = L!Trunc16(@ + 1)]
  BY <1>3, <1>5, <1>6 DEF L!Run, L!IsBlockTerminator, L!buildOpcodeFunc
<1>10. E!Run(n) = E!skip(z, 0)
  <2>1. E!Run(n) = E!skip(E!spend(E!Work(Past(n), E!Switch[op], op), i.cycles), i.len - 1)
    BY <1>1, <1>4, <1>8 DEF E!Run
  <2>2. i.len - 1 = 0
    BY <1>5
  <2> QED BY <1>7, <2>1, <2>2
<1>11. n = Base(n, 0, n.pc)
  <2>1. n.cycles + 0 = n.cycles
    BY <1>2 DEF Machine
  <2> QED BY <1>2, <2>1 DEF Base, Left, Machine
<1>12. Past(n) = Base(n, 0, n.pc + 1)
  BY <1>1, <1>2, Bases
<1>13. L!Trunc16(n.pc + 1) = n.pc + 1 /\ E!Trunc16(n.pc + 1 + 0) = n.pc + 1
  BY <1>1, WordIs, TruncType
<1> HIDE DEF y, z
<1>14. L!Run(n, i) = L!Goto(y, L!Trunc16(y.pc + 1))
  BY <1>9 DEF L!Goto
<1>15. E!Run(n) = E!goto(z, E!Trunc16(z.pc + 0))
  BY <1>10 DEF E!goto, E!skip
<1> QED BY <1>1, <1>2, <1>4, <1>5, <1>11, <1>12, <1>13, <1>14, <1>15 DEF y, z

\* PUSH rr.
LEMMA PushesWork ==
    ASSUME NEW n, NEW i, NEW op, Runs(n, i, op), Quiet(n), i.type = "PUSH_R16"
    PROVE  \E w \in Word : /\ w = E!get16(n, i.operands[1])
                           /\ PushForm(n, w, i.cycles, n.pc + 1, 0, 0, L!Run(n, i), E!Run(n))
<1> DEFINE c == i.cycles
           x == Past(n)
           p == n.pc + 1
<1>1. i.type \in Stacked
  BY DEF Stacked
<1>2. /\ n \in Machine /\ Good(n) /\ c \in Nat /\ n.pc \in Word /\ p \in Word
      /\ n = Base(n, 0, n.pc) /\ x = Base(n, 0, p) /\ L!Trunc16(n.pc + 1) = p /\ E!Trunc16(p + 0) = p
      /\ 0 \in Nat /\ 0 + c = c
  BY <1>1, StackStart
<1>3. PICK r \in {"BC", "DE", "HL", "AF"} : i.operands = <<r>>
  BY <1>1 DEF Runs, Typed
<1> DEFINE w == E!get16(n, r)
<1>4. L!readReg16(n, r) = w /\ w \in Word /\ E!get16(x, r) = w
  <2>1. r \in Pair
    BY DEF Pair
  <2> QED BY <1>2, <2>1, SamePair, SetsAt DEF Past
<1> HIDE DEF w
<1>5. L!r16_loads(n, i) = L!pushReturnAddress(n, w) /\ E!loads(x, i.type, i.operands) = E!push16(x, w)
  BY <1>3, <1>4 DEF L!r16_loads, E!loads
<1> DEFINE h == HighFirstPush(n, w, n.cycles + 0)
           g == LowFirstPush(n, w, n.cycles + 0)
           k == PushRam(n, w)
           z == Below(n, 2)
<1>6. L!pushReturnAddress(Base(n, 0, n.pc), w) = Left(n, 0, n.pc, n.ime, z, k, h)
  BY <1>2, <1>4, PushOnBase
<1>7. E!push16(Base(n, 0, p), w) = Left(n, 0, p, n.ime, z, k, g)
  BY <1>2, <1>4, PushOnBase
<1>8. k \in Memory /\ z \in Word /\ h \in Log /\ g \in Log /\ n.ime \in {0, 1}
  <2>1. n.cycles + 0 \in Nat /\ n.ime \in {0, 1}
    BY <1>2 DEF Machine
  <2> QED BY <1>2, <1>4, <2>1, PushTypes
<1> HIDE DEF h, g, k, z
<1>9. L!increaseCycles(L!r16_loads(n, i), c) = Left(n, c, n.pc, n.ime, z, k, h)
  <2>1. L!increaseCycles(Left(n, 0, n.pc, n.ime, z, k, h), c) = Left(n, 0 + c, n.pc, n.ime, z, k, h)
    BY <1>2, LeftIncrease
  <2> QED BY <1>2, <1>5, <1>6, <2>1
<1>10. E!spend(E!loads(x, i.type, i.operands), c) = Left(n, c, p, n.ime, z, k, g)
  <2>1. E!spend(Left(n, 0, p, n.ime, z, k, g), c) = Left(n, 0 + c, p, n.ime, z, k, g)
    BY <1>2, LeftSpend
  <2> QED BY <1>2, <1>5, <1>7, <2>1
<1>11. Left(n, c, n.pc, n.ime, z, k, h).pc = n.pc /\ Left(n, c, p, n.ime, z, k, g).pc = p
  BY <1>2, LeftPc
<1>12. L!Run(n, i) = L!Goto(Left(n, c, n.pc, n.ime, z, k, h), p)
  BY <1>1, <1>2, <1>9, <1>11, StackStart
<1>13. E!Run(n) = E!goto(Left(n, c, p, n.ime, z, k, g), p)
  BY <1>1, <1>2, <1>10, <1>11, StackStart
<1>14. L!Run(n, i) = Left(n, c, p, n.ime, z, k, h)
  BY <1>2, <1>12, LeftGoto
<1>15. E!Run(n) = Left(n, c, p, n.ime, z, k, g)
  BY <1>2, <1>13, Leftgoto
<1>16. PushForm(n, w, c, p, 0, 0, L!Run(n, i), E!Run(n))
  BY <1>14, <1>15 DEF PushForm, h, g, k, z
<1>17. w = E!get16(n, i.operands[1])
  BY <1>3 DEF w
<1> QED BY <1>4, <1>16, <1>17

StackPair == {"BC", "DE", "HL", "AF"}
ToReg(reg, r, w) ==
    CASE r = "BC" -> [reg EXCEPT !["B"] = E!High(w), !["C"] = E!Low(w)]
      [] r = "DE" -> [reg EXCEPT !["D"] = E!High(w), !["E"] = E!Low(w)]
      [] r = "HL" -> [reg EXCEPT !["H"] = E!High(w), !["L"] = E!Low(w)]
      [] r = "AF" -> [reg EXCEPT !["A"] = E!High(w)]
ToFlag(flag, r, w) ==
    IF r = "AF" THEN [Z |-> E!And(w, 128) # 0, N |-> E!And(w, 64) # 0, H |-> E!And(w, 32) # 0, C |-> E!And(w, 16) # 0]
    ELSE flag

\* What POP makes of the registers and the flags.
LEMMA SetForm ==
    ASSUME NEW x, x \in Machine, NEW w, NEW r \in StackPair
    PROVE  E!set16(x, r, w) = [x EXCEPT !.reg = ToReg(x.reg, r, w), !.flag = ToFlag(x.flag, r, w)]
<1> DEFINE q == ToReg(x.reg, r, w)
           f == ToFlag(x.flag, r, w)
           hi == E!High(w)
           lo == E!Low(w)
<1>1. CASE r = "BC"
  <2>1. E!set16(x, r, w) = [x EXCEPT !.reg["B"] = hi, !.reg["C"] = lo]
    BY <1>1 DEF E!set16
  <2>2. q = [x.reg EXCEPT !["B"] = hi, !["C"] = lo] /\ f = x.flag
    BY <1>1 DEF ToReg, ToFlag
  <2> HIDE DEF q, f, hi, lo
  <2>3. E!set16(x, r, w) = [x EXCEPT !.reg = q, !.flag = f]
    BY <2>1, <2>2 DEF Machine
  <2> QED BY <2>3 DEF q, f
<1>2. CASE r = "DE"
  <2>1. E!set16(x, r, w) = [x EXCEPT !.reg["D"] = hi, !.reg["E"] = lo]
    BY <1>2 DEF E!set16
  <2>2. q = [x.reg EXCEPT !["D"] = hi, !["E"] = lo] /\ f = x.flag
    BY <1>2 DEF ToReg, ToFlag
  <2> HIDE DEF q, f, hi, lo
  <2>3. E!set16(x, r, w) = [x EXCEPT !.reg = q, !.flag = f]
    BY <2>1, <2>2 DEF Machine
  <2> QED BY <2>3 DEF q, f
<1>3. CASE r = "HL"
  <2>1. E!set16(x, r, w) = [x EXCEPT !.reg["H"] = hi, !.reg["L"] = lo]
    BY <1>3 DEF E!set16
  <2>2. q = [x.reg EXCEPT !["H"] = hi, !["L"] = lo] /\ f = x.flag
    BY <1>3 DEF ToReg, ToFlag
  <2> HIDE DEF q, f, hi, lo
  <2>3. E!set16(x, r, w) = [x EXCEPT !.reg = q, !.flag = f]
    BY <2>1, <2>2 DEF Machine
  <2> QED BY <2>3 DEF q, f
<1>4. CASE r = "AF"
  <2>1. E!set16(x, r, w) = [[x EXCEPT !.reg["A"] = hi] EXCEPT !.flag = f]
    BY <1>4 DEF E!set16, E!set_flags, ToFlag
  <2>2. q = [x.reg EXCEPT !["A"] = hi]
    BY <1>4 DEF ToReg
  <2> HIDE DEF q, f, hi
  <2>3. E!set16(x, r, w) = [x EXCEPT !.reg = q, !.flag = f]
    BY <2>1, <2>2 DEF Machine
  <2> QED BY <2>3 DEF q, f
<1> QED BY <1>1, <1>2, <1>3, <1>4 DEF StackPair

LEMMA LeftSet ==
    ASSUME NEW n, n \in Machine, NEW c \in Nat, NEW p \in Word, NEW b \in {0, 1}, NEW s \in Word,
           NEW ram \in Memory, NEW log \in Log, NEW w, NEW r \in StackPair
    PROVE  E!set16(Left(n, c, p, b, s, ram, log), r, w) = Left(E!set16(n, r, w), c, p, b, s, ram, log)
<1> DEFINE x == Left(n, c, p, b, s, ram, log)
           q == ToReg(n.reg, r, w)
           f == ToFlag(n.flag, r, w)
<1>1. x \in Machine /\ x.reg = n.reg /\ x.flag = n.flag
  BY LeftType
<1>2. E!set16(n, r, w) = [n EXCEPT !.reg = q, !.flag = f]
  BY SetForm
<1>3. E!set16(x, r, w) = [x EXCEPT !.reg = ToReg(x.reg, r, w), !.flag = ToFlag(x.flag, r, w)]
  <2> HIDE DEF x
  <2> QED BY <1>1, SetForm
<1>4. E!set16(x, r, w) = [x EXCEPT !.reg = q, !.flag = f]
  <2> HIDE DEF x
  <2> QED BY <1>1, <1>3
<1> HIDE DEF q, f
<1>5. [x EXCEPT !.reg = q, !.flag = f] = Left([n EXCEPT !.reg = q, !.flag = f], c, p, b, s, ram, log)
  BY DEF Left, Machine
<1> QED BY <1>2, <1>4, <1>5

\* POP rr.
LEMMA PopsWork ==
    ASSUME NEW n, NEW i, NEW op, Runs(n, i, op), Quiet(n), i.type = "POP_R16"
    PROVE  \E y : /\ y = E!set16(n, i.operands[1], E!pop16(n)) /\ From(n, y) /\ y.ime = n.ime
                  /\ L!Run(n, i) = Left(y, i.cycles, n.pc + 1, n.ime, Above(n, 2), n.ram, LowFirstPop(n, n.cycles + 0))
                  /\ E!Run(n) = Left(y, i.cycles, n.pc + 1, n.ime, Above(n, 2), n.ram, PopOrder(n, n.cycles + 0))
<1> DEFINE c == i.cycles
           x == Past(n)
           p == n.pc + 1
           v == E!pop16(n)
<1>1. i.type \in Stacked
  BY DEF Stacked
<1>2. /\ n \in Machine /\ Good(n) /\ c \in Nat /\ n.pc \in Word /\ p \in Word
      /\ n = Base(n, 0, n.pc) /\ x = Base(n, 0, p) /\ L!Trunc16(n.pc + 1) = p /\ E!Trunc16(p + 0) = p
      /\ 0 \in Nat /\ 0 + c = c
  BY <1>1, StackStart
<1>3. PICK r \in {"BC", "DE", "HL", "AF"} : i.operands = <<r>>
  BY <1>1 DEF Runs, Typed
<1> DEFINE h == LowFirstPop(n, n.cycles + 0)
           g == PopOrder(n, n.cycles + 0)
           z == Above(n, 2)
           y == E!set16(n, r, v)
<1>4. /\ L!AfterPop(Base(n, 0, n.pc)) = Left(n, 0, n.pc, n.ime, z, n.ram, h)
      /\ L!popReturnAddress(Base(n, 0, n.pc)) = v /\ v \in Word
  BY <1>2, PopOnBase
<1>5. /\ E!AfterPop16(Base(n, 0, p)) = Left(n, 0, p, n.ime, z, n.ram, g)
      /\ E!pop16(Base(n, 0, p)) = v
  BY <1>2, PopOnBase
<1>6. /\ z \in Word /\ h \in Log /\ g \in Log /\ n.ime \in {0, 1} /\ n.ram \in Memory
      /\ Stamped(h, n.cycles + 0) /\ Stamped(g, n.cycles + 0)
  <2>1. n.cycles + 0 \in Nat /\ n.ime \in {0, 1} /\ n.ram \in Memory
    BY <1>2 DEF Machine
  <2> QED BY <1>2, <2>1, PopTypes
<1>7. From(n, y) /\ y \in Machine
  <2>1. r \in Pair
    BY DEF Pair
  <2>2. From(n, y)
    BY <1>2, <1>4, <2>1, SameSetPair
  <2> QED BY <2>2 DEF From, Good
<1>8. y.ime = n.ime
  BY <1>2 DEF E!set16, E!set_flags, Machine
<1> HIDE DEF h, g, z, v, y
<1> DEFINE l1 == Left(n, 0, n.pc, n.ime, z, n.ram, h)
           e1 == Left(n, 0, p, n.ime, z, n.ram, g)
<1>9. L!r16_loads(n, i) = L!updateReg16(l1, r, v) /\ E!loads(x, i.type, i.operands) = E!set16(e1, r, v)
  <2>1. L!AfterPop(n) = l1 /\ L!popReturnAddress(n) = v /\ E!AfterPop16(x) = e1 /\ E!pop16(x) = v
    BY <1>2, <1>4, <1>5
  <2> HIDE DEF l1, e1, x
  <2> QED BY <1>3, <2>1 DEF L!r16_loads, E!loads
<1>10. Good(l1)
  <2>1. l1 \in Machine /\ l1.log = h /\ l1.cycles = n.cycles + 0
    BY <1>2, <1>6, LeftType
  <2> QED BY <1>6, <2>1 DEF Good
<1>11. L!updateReg16(l1, r, v) = E!set16(l1, r, v)
  <2>1. r \in Pair
    BY DEF Pair
  <2> QED BY <1>4, <1>10, <2>1, SameSetPair
<1>12. E!set16(l1, r, v) = Left(y, 0, n.pc, n.ime, z, n.ram, h) /\ E!set16(e1, r, v) = Left(y, 0, p, n.ime, z, n.ram, g)
  <2>1. r \in StackPair
    BY DEF StackPair
  <2> QED BY <1>2, <1>6, <2>1, LeftSet DEF y
<1>13. L!increaseCycles(L!r16_loads(n, i), c) = Left(y, c, n.pc, n.ime, z, n.ram, h)
  <2>1. L!increaseCycles(Left(y, 0, n.pc, n.ime, z, n.ram, h), c) = Left(y, 0 + c, n.pc, n.ime, z, n.ram, h)
    BY <1>2, <1>7, LeftIncrease
  <2> QED BY <1>2, <1>9, <1>11, <1>12, <2>1
<1>14. E!spend(E!loads(x, i.type, i.operands), c) = Left(y, c, p, n.ime, z, n.ram, g)
  <2>1. E!spend(Left(y, 0, p, n.ime, z, n.ram, g), c) = Left(y, 0 + c, p, n.ime, z, n.ram, g)
    BY <1>2, <1>7, LeftSpend
  <2> QED BY <1>2, <1>9, <1>12, <2>1
<1>15. Left(y, c, n.pc, n.ime, z, n.ram, h).pc = n.pc /\ Left(y, c, p, n.ime, z, n.ram, g).pc = p
  BY <1>7, LeftPc
<1>16. L!Run(n, i) = L!Goto(Left(y, c, n.pc, n.ime, z, n.ram, h), p)
  BY <1>1, <1>2, <1>13, <1>15, StackStart
<1>17. E!Run(n) = E!goto(Left(y, c, p, n.ime, z, n.ram, g), p)
  BY <1>1, <1>2, <1>14, <1>15, StackStart
<1>18. L!Run(n, i) = Left(y, c, p, n.ime, z, n.ram, h)
  BY <1>7, <1>2, <1>16, LeftGoto
<1>19. E!Run(n) = Left(y, c, p, n.ime, z, n.ram, g)
  BY <1>7, <1>2, <1>17, Leftgoto
<1>20. y = E!set16(n, i.operands[1], v)
  BY <1>3 DEF y
<1> QED BY <1>7, <1>8, <1>18, <1>19, <1>20 DEF h, g, z, v

-----------------------------------------------------------------------------
(* What an instruction leaves behind *)

Bare(x) == [x EXCEPT !.log = <<>>]
Popping == {"POP_R16", "RET", "RET_CC", "RETI"}
Pushing == {"PUSH_R16", "CALL_NN", "CALL_CC_NN", "RST_N"}
SkewOf(t) ==
    CASE t \in CbOnMemory -> 4
      [] t \in {"CALL_CC_NN", "RET_CC"} -> 3
      [] t = "CALL_NN" -> -6
      [] t \in {"RST_N", "RET", "RETI"} -> -4
      [] OTHER -> 0

\* The accesses b of the interpreter next to the accesses a of compiled code.
Ordered(t, first, a, b) ==
    IF t \in Popping THEN b = (IF first THEN a ELSE Reversed(a))
    ELSE IF t \in Pushing THEN b = Reversed(a) ELSE b = a
Timely(n, t, l2, e2) ==
    \A k \in DOMAIN l2.log, j \in DOMAIN e2.log :
        /\ e2.log[j].at - l2.log[k].at = SkewOf(t)
        /\ {l2.log[k].at, e2.log[j].at} \subseteq n.cycles..l2.cycles
Outcome(n, t, l2, e2) ==
    /\ l2 \in Machine /\ e2 \in Machine /\ Bare(l2) = Bare(e2) /\ l2.lowFirst = n.lowFirst
    /\ Ordered(t, n.lowFirst, Trace(l2.log), Trace(e2.log))
    /\ Timely(n, t, l2, e2)

LEMMA TimelyIs ==
    ASSUME NEW n, NEW t, NEW l2, NEW e2, NEW a \in Int, NEW b \in Int, Stamped(l2.log, a), Stamped(e2.log, b),
           b - a = SkewOf(t), n.cycles \in Int, l2.cycles \in Int,
           n.cycles <= a, a <= l2.cycles, n.cycles <= b, b <= l2.cycles
    PROVE  Timely(n, t, l2, e2)
<1> SUFFICES ASSUME NEW k \in DOMAIN l2.log, NEW j \in DOMAIN e2.log
             PROVE  /\ e2.log[j].at - l2.log[k].at = SkewOf(t)
                    /\ {l2.log[k].at, e2.log[j].at} \subseteq n.cycles..l2.cycles
  BY DEF Timely
<1>1. l2.log[k].at = a /\ e2.log[j].at = b
  BY DEF Stamped
<1>2. a \in n.cycles..l2.cycles /\ b \in n.cycles..l2.cycles
  OBVIOUS
<1> QED BY <1>1, <1>2

\* An instruction that leaves one and the same machine in both backends.
LEMMA SameOutcome ==
    ASSUME NEW n, n \in Machine, NEW t, NEW x, x \in Machine, x.lowFirst = n.lowFirst, x.cycles >= n.cycles,
           Stamped(x.log, n.cycles), t \notin Popping, t \notin Pushing, SkewOf(t) = 0
    PROVE  Outcome(n, t, x, x)
<1> DEFINE a == n.cycles
<1>1. a \in Int /\ x.cycles \in Int /\ a - a = SkewOf(t) /\ a <= a /\ a <= x.cycles /\ Stamped(x.log, a)
  BY DEF Machine
<1>2. Timely(n, t, x, x)
  <2>1. a \in Int /\ n.cycles \in Int /\ n.cycles <= a
    BY <1>1
  <2> HIDE DEF a
  <2> QED BY ONLY <1>1, <2>1, TimelyIs
<1> QED BY <1>2 DEF Outcome, Ordered

LEMMA NothingSeen ==
    /\ Trace(<<>>) = <<>> /\ Reversed(<<>>) = <<>>
    /\ DOMAIN <<>> = {}
BY DEF Trace, Reversed

\* A jump, a push and a pop leave what Outcome says.
LEMMA JumpOutcome ==
    ASSUME NEW n, n \in Machine, Quiet(n), NEW t, NEW l2, NEW e2, JumpForm(n, l2, e2)
    PROVE  Outcome(n, t, l2, e2)
<1>1. PICK c \in Nat, p \in Word : l2 = Base(n, c, p) /\ e2 = Base(n, c, p)
  BY DEF JumpForm
<1>2. l2 \in Machine /\ l2.log = <<>> /\ l2.lowFirst = n.lowFirst /\ e2 = l2
  BY <1>1, BaseType DEF Quiet
<1>3. Timely(n, t, l2, e2)
  BY <1>2, NothingSeen DEF Timely
<1>4. Ordered(t, n.lowFirst, Trace(l2.log), Trace(e2.log))
  BY <1>2, NothingSeen DEF Ordered
<1> QED BY <1>2, <1>3, <1>4 DEF Outcome

LEMMA LeftBare ==
    ASSUME NEW n, n \in Machine, NEW c, NEW p, NEW b, NEW s, NEW ram, NEW g, NEW h
    PROVE  Bare(Left(n, c, p, b, s, ram, g)) = Bare(Left(n, c, p, b, s, ram, h))
BY DEF Bare, Left, Machine

\* The type of what a transfer leaves, for values that are known as they are.
Switch01 == {0, 1}

LEMMA LeftIs ==
    ASSUME NEW n, n \in Machine, NEW c \in Nat, NEW p \in Word, NEW b \in Switch01, NEW s \in Word,
           NEW ram \in Memory, NEW log \in Log, NEW x, x = Left(n, c, p, b, s, ram, log)
    PROVE  /\ x \in Machine /\ x.cycles = n.cycles + c /\ x.pc = p /\ x.log = log /\ x.lowFirst = n.lowFirst
<1>1. b \in {0, 1}
  BY DEF Switch01
<1> QED BY <1>1, LeftType

LEMMA PushOutcome ==
    ASSUME NEW n, n \in Machine, Quiet(n), NEW t \in Pushing, NEW w \in Word, NEW c \in Nat, NEW p \in Word,
           NEW x \in Nat, NEW y \in Nat, x <= c, y <= c, y - x = SkewOf(t),
           NEW l2, NEW e2, PushForm(n, w, c, p, x, y, l2, e2)
    PROVE  Outcome(n, t, l2, e2) /\ l2.pc = p
<1> DEFINE z == Below(n, 2)
           k == PushRam(n, w)
           h == HighFirstPush(n, w, n.cycles + x)
           g == LowFirstPush(n, w, n.cycles + y)
<1>1. n.cycles \in Nat /\ n.cycles + x \in Nat /\ n.cycles + y \in Nat /\ n.ime \in Switch01
  BY DEF Machine, Switch01
<1>2. /\ k \in Memory /\ z \in Word /\ h \in Log /\ g \in Log
      /\ Stamped(h, n.cycles + x) /\ Stamped(g, n.cycles + y) /\ Trace(g) = Reversed(Trace(h))
  BY <1>1, PushTypes
<1>3. l2 = Left(n, c, p, n.ime, z, k, h) /\ e2 = Left(n, c, p, n.ime, z, k, g)
  BY DEF PushForm
<1> HIDE DEF z, k, h, g
<1>4. l2 \in Machine /\ l2.log = h /\ l2.cycles = n.cycles + c /\ l2.lowFirst = n.lowFirst /\ l2.pc = p
  <2>1. l2 \in Machine /\ l2.cycles = n.cycles + c /\ l2.pc = p /\ l2.log = h /\ l2.lowFirst = n.lowFirst
    <3>1. n.ime \in Switch01 /\ z \in Word /\ k \in Memory /\ h \in Log /\ l2 = Left(n, c, p, n.ime, z, k, h)
      BY <1>1, <1>2, <1>3
    <3> QED BY ONLY <3>1, n \in Machine, c \in Nat, p \in Word, LeftIs
  <2> QED BY <2>1
<1>5. e2 \in Machine /\ e2.log = g
  BY <1>1, <1>2, <1>3, LeftIs
<1>6. Bare(l2) = Bare(e2)
  BY <1>3, LeftBare
<1>7. Timely(n, t, l2, e2)
  <2>1. /\ (n.cycles + y) - (n.cycles + x) = SkewOf(t)
        /\ n.cycles <= n.cycles + x /\ n.cycles + x <= l2.cycles /\ n.cycles <= n.cycles + y /\ n.cycles + y <= l2.cycles
        /\ l2.cycles \in Int /\ n.cycles \in Int /\ n.cycles + x \in Int /\ n.cycles + y \in Int
    BY <1>1, <1>4
  <2> QED BY <1>2, <1>4, <1>5, <2>1, TimelyIs
<1>8. Ordered(t, n.lowFirst, Trace(l2.log), Trace(e2.log))
  <2>1. t \notin Popping
    BY DEF Pushing, Popping
  <2> QED BY <1>2, <1>4, <1>5, <2>1 DEF Ordered
<1> QED BY <1>4, <1>5, <1>6, <1>7, <1>8 DEF Outcome

\* n2 is n but for the registers popped into.
LEMMA PopOutcome ==
    ASSUME NEW n, n \in Machine, Quiet(n), NEW t \in Popping, NEW n2, n2 \in Machine, n2.cycles = n.cycles,
           n2.lowFirst = n.lowFirst, NEW c \in Nat, NEW p \in Word, NEW b \in Switch01,
           NEW x \in Nat, NEW y \in Nat, x <= c, y <= c, y - x = SkewOf(t), NEW l2, NEW e2,
           l2 = Left(n2, c, p, b, Above(n, 2), n.ram, LowFirstPop(n, n.cycles + x)),
           e2 = Left(n2, c, p, b, Above(n, 2), n.ram, PopOrder(n, n.cycles + y))
    PROVE  Outcome(n, t, l2, e2) /\ l2.pc = p
<1> DEFINE z == Above(n, 2)
           h == LowFirstPop(n, n.cycles + x)
           g == PopOrder(n, n.cycles + y)
<1>1. n.cycles \in Nat /\ n.cycles + x \in Nat /\ n.cycles + y \in Nat /\ n.ram \in Memory
  BY DEF Machine
<1>2. /\ z \in Word /\ h \in Log /\ g \in Log
      /\ Stamped(h, n.cycles + x) /\ Stamped(g, n.cycles + y)
      /\ Trace(g) = IF n.lowFirst THEN Trace(h) ELSE Reversed(Trace(h))
  BY <1>1, PopTypes
<1>3. l2 = Left(n2, c, p, b, z, n.ram, h) /\ e2 = Left(n2, c, p, b, z, n.ram, g)
  OBVIOUS
<1> HIDE DEF z, h, g
<1>4. l2 \in Machine /\ l2.log = h /\ l2.cycles = n.cycles + c /\ l2.lowFirst = n.lowFirst /\ l2.pc = p
  <2>1. l2 \in Machine /\ l2.cycles = n2.cycles + c /\ l2.pc = p /\ l2.log = h /\ l2.lowFirst = n2.lowFirst
    <3>1. b \in Switch01 /\ z \in Word /\ n.ram \in Memory /\ h \in Log /\ l2 = Left(n2, c, p, b, z, n.ram, h)
      BY <1>1, <1>2, <1>3
    <3> QED BY ONLY <3>1, n2 \in Machine, c \in Nat, p \in Word, LeftIs
  <2> QED BY <2>1
<1>5. e2 \in Machine /\ e2.log = g
  BY <1>1, <1>2, <1>3, LeftIs
<1>6. Bare(l2) = Bare(e2)
  BY <1>3, LeftBare
<1>7. Timely(n, t, l2, e2)
  <2>1. /\ (n.cycles + y) - (n.cycles + x) = SkewOf(t)
        /\ n.cycles <= n.cycles + x /\ n.cycles + x <= l2.cycles /\ n.cycles <= n.cycles + y /\ n.cycles + y <= l2.cycles
        /\ l2.cycles \in Int /\ n.cycles \in Int /\ n.cycles + x \in Int /\ n.cycles + y \in Int
    BY <1>1, <1>4
  <2> QED BY <1>2, <1>4, <1>5, <2>1, TimelyIs
<1>8. Ordered(t, n.lowFirst, Trace(l2.log), Trace(e2.log))
  BY <1>2, <1>4, <1>5 DEF Ordered
<1> QED BY <1>4, <1>5, <1>6, <1>7, <1>8 DEF Outcome

-----------------------------------------------------------------------------
(* Every instruction without a prefix *)

\* The cycles of the transfers, for a condition that holds and without one.
Timed(r) ==
    /\ r.type \in L!Terminators \ Conditional => r.extra = 0
    /\ r.type \in Conditional => r.extra > 0
    /\ r.type = "CALL_NN" => r.cycles = 6
    /\ r.type \in {"RST_N", "RET", "RETI"} => r.cycles = 4
    /\ r.type \in {"CALL_CC_NN", "RET_CC"} => r.extra = 3

\* A branch that is taken costs more, and only the conditional ones have a branch.
LEMMA JumpTimes == \A r \in O!JumpRows : Timed(r)
BY SMTT(60) DEF Timed, Conditional, L!Terminators, O!JumpRows, O!Row, O!CondRow

LEMMA RowsTimed == \A r \in O!Rows : Timed(r)
<1> TAKE r \in O!Rows
<1>1. CASE r \in O!JumpRows
  BY <1>1, JumpTimes
<1>2. CASE r \in O!LoadRows \cup O!WordRows \cup O!ArithmeticRows \cup O!LogicRows
  <2>1. r.type \notin L!Terminators
    BY <1>2, NotTerminators
  <2> QED BY <2>1 DEF Timed, Conditional, L!Terminators
<1> QED BY <1>1, <1>2 DEF O!Rows

LEMMA InstructionTimed ==
    ASSUME NEW st, st.code \in Codes, st.code < 256
    PROVE  Timed(Instruction(st)) /\ Shape(Instruction(st))
<1> DEFINE op == st.code
           i == Instruction(st)
           r == O!decodeOpcode[op]
<1>1. op \in 0..255 /\ op # 203 /\ ~O!Prefixed(op)
  BY SMTT(30) DEF Codes, O!Codes, O!Prefixed
<1>2. O!Decoded(op) = O!WithOperands(r, O!Operands(r.type, op))
  BY <1>1 DEF O!Decoded
<1>3. r.type # "UNKNOWN"
  BY <1>2 DEF Codes, Type, O!WithOperands
<1>4. i.type = r.type /\ i.cycles = r.cycles /\ i.extra = r.extra
  BY <1>2 DEF Instruction, O!WithOperands
<1>5. r \in O!Rows
  <2>1. r = IF \E x \in O!Rows : op \in x.ops THEN CHOOSE x \in O!Rows : op \in x.ops ELSE O!UnknownRow
    BY <1>1 DEF O!decodeOpcode, O!Byte
  <2>2. O!UnknownRow.type = "UNKNOWN"
    BY DEF O!UnknownRow, O!Row
  <2> QED BY <1>3, <2>1, <2>2
<1>6. Shape(i)
  BY DEF Shape, Instruction
<1> HIDE DEF r, i
<1>7. Timed(r)
  BY <1>5, RowsTimed
<1>8. Timed(i)
  BY <1>4, <1>7 DEF Timed
<1> QED BY <1>6, <1>8 DEF i

\* An instruction that neither transfers nor uses the stack.
LEMMA StraightOutcome ==
    ASSUME NEW n, NEW i, NEW op, Runs(n, i, op), Columns(i, op), Shape(i), Quiet(n), i.type \in Straight
    PROVE  /\ Outcome(n, i.type, L!Run(n, i), E!Run(n))
           /\ L!Run(n, i).pc = E!Trunc16(n.pc + i.len)
<1> DEFINE t == i.type
           x == L!emitInstruction(n, i)
           q == E!Trunc16(n.pc + i.len)
           y == Finish(x, i.cycles, q)
<1>1. Works(n, i, op)
  BY StraightWorks
<1>2. /\ t \notin L!Terminators /\ t \notin Popping /\ t \notin Pushing
      /\ t \notin CbOnMemory /\ SkewOf(t) = 0
  <2>1. /\ t \notin L!Terminators /\ t \notin Stacked /\ t \notin CbOnMemory
    BY SMTT(60) DEF Straight, L!Terminators, Stacked, CbOnMemory, L!R8Loads, L!ALoads, L!HlLoads, WordTypes, OffsetTypes,
       PairTypes, L!FlagOps, RestTypes, RotateTypes, StepTypes, AluTypes, AluR8, AluHL, AluN
  <2> QED BY <2>1 DEF L!Terminators, Popping, Pushing, Stacked, SkewOf
<1>3. From(n, x) /\ Good(x) /\ x.cycles = n.cycles /\ x.lowFirst = n.lowFirst
  BY <1>1 DEF Works, From
<1>4. i.cycles \in Nat /\ q \in Word /\ n \in Machine /\ n.cycles \in Nat
  <2>1. i.cycles \in Nat /\ i.len \in 1..3 /\ Good(n)
    BY DEF Runs, Agrees, Fetched
  <2>2. n \in Machine /\ n.cycles \in Nat /\ n.pc \in Int
    BY <2>1, GoodFields, WordIs DEF Good
  <2>3. n.pc + i.len \in Int
    BY <2>1, <2>2
  <2> QED BY <2>1, <2>2, <2>3, TruncType
<1>5. y = L!Run(n, i) /\ y = E!Run(n)
  BY <1>1, <1>2, Tail1 DEF Runs
<1> HIDE DEF x, q
<1>6. y \in Machine /\ y.pc = q /\ y.cycles = n.cycles + i.cycles /\ Stamped(y.log, n.cycles) /\ y.lowFirst = n.lowFirst
  BY ONLY <1>3, <1>4, FinishType
<1> HIDE DEF y
<1>7. Outcome(n, t, y, y)
  <2>1. y.cycles >= n.cycles
    BY <1>4, <1>6
  <2> HIDE DEF t
  <2> QED BY ONLY <1>2, <1>4, <1>6, <2>1, SameOutcome
<1> QED BY <1>5, <1>6, <1>7 DEF q

LEMMA PopWord == ASSUME NEW n, n \in Machine, Quiet(n) PROVE E!pop16(n) \in Word
<1>1. Good(n)
  BY DEF Good, Quiet, Stamped
<1>2. n.sp \in Word /\ Above(n, 1) \in Word
  BY <1>1, StackWords
<1>3. E!read_ram(n, n.sp) \in Byte /\ E!read_ram(n, Above(n, 1)) \in Byte
  BY <1>1, <1>2, ReadType
<1>4. E!pop16(n) = E!Join(E!read_ram(n, Above(n, 1)), E!read_ram(n, n.sp))
  BY DEF E!pop16, E!read16, Above
<1> QED BY <1>3, <1>4, JoinType

\* PUSH and POP.
LEMMA StackedOutcome ==
    ASSUME NEW n, NEW i, NEW op, Runs(n, i, op), Quiet(n), i.type \in Stacked
    PROVE  /\ Outcome(n, i.type, L!Run(n, i), E!Run(n))
           /\ L!Run(n, i).pc = n.pc + 1
<1>1. n \in Machine /\ i.cycles \in Nat /\ n.pc + 1 \in Word /\ n.ime \in Switch01
  BY StackStart DEF Machine, Switch01
<1>2. CASE i.type = "PUSH_R16"
  <2> DEFINE l2 == L!Run(n, i)
             e2 == E!Run(n)
             p == n.pc + 1
             t == i.type
  <2>1. PICK w \in Word : PushForm(n, w, i.cycles, p, 0, 0, l2, e2)
    BY <1>2, PushesWork
  <2>2. t \in Pushing /\ SkewOf(t) = 0
    BY <1>2 DEF Pushing, SkewOf, CbOnMemory
  <2>3. 0 <= i.cycles /\ 0 - 0 = SkewOf(t) /\ 0 \in Nat
    BY <1>1, <2>2
  <2>4. p \in Word
    BY <1>1
  <2> HIDE DEF l2, e2, p, t
  <2>5. Outcome(n, t, l2, e2) /\ l2.pc = p
    BY ONLY <1>1, <2>1, <2>2, <2>3, <2>4, Quiet(n), PushOutcome
  <2> QED BY <2>5 DEF l2, e2, p, t
<1>3. CASE i.type = "POP_R16"
  <2> DEFINE l2 == L!Run(n, i)
             e2 == E!Run(n)
             p == n.pc + 1
             t == i.type
             b == n.ime
             c == i.cycles
  <2>1. PICK y : /\ From(n, y)
                 /\ l2 = Left(y, c, p, b, Above(n, 2), n.ram, LowFirstPop(n, n.cycles + 0))
                 /\ e2 = Left(y, c, p, b, Above(n, 2), n.ram, PopOrder(n, n.cycles + 0))
    BY <1>3, PopsWork
  <2>2. t \in Popping /\ SkewOf(t) = 0
    BY <1>3 DEF Popping, SkewOf, CbOnMemory
  <2>3. 0 <= c /\ 0 - 0 = SkewOf(t) /\ 0 \in Nat /\ c \in Nat
    BY <1>1, <2>2
  <2>4. p \in Word /\ b \in Switch01 /\ n \in Machine
    BY <1>1
  <2>5. y \in Machine /\ y.cycles = n.cycles /\ y.lowFirst = n.lowFirst
    BY <2>1 DEF From, Good
  <2>6. /\ l2 = Left(y, c, p, b, Above(n, 2), n.ram, LowFirstPop(n, n.cycles + 0))
        /\ e2 = Left(y, c, p, b, Above(n, 2), n.ram, PopOrder(n, n.cycles + 0))
    BY <2>1
  <2> HIDE DEF l2, e2, p, t, b, c
  <2>7. Outcome(n, t, l2, e2) /\ l2.pc = p
    BY ONLY <2>2, <2>3, <2>4, <2>5, <2>6, Quiet(n), PopOutcome
  <2> QED BY <2>7 DEF l2, e2, p, t
<1> QED BY <1>2, <1>3 DEF Stacked

\* CALL, RST, RET and RETI.
LEMMA ReturnOutcome ==
    ASSUME NEW n, n \in Machine, Quiet(n), NEW t \in Popping, NEW c \in Nat, NEW b \in Switch01,
           NEW x \in Nat, NEW y \in Nat, x <= c, y <= c, y - x = SkewOf(t), NEW l2, NEW e2,
           PopForm(n, c, b, x, y, l2, e2)
    PROVE  Outcome(n, t, l2, e2)
<1> DEFINE p == E!pop16(n)
<1>1. p \in Word
  BY PopWord
<1>2. /\ l2 = Left(n, c, p, b, Above(n, 2), n.ram, LowFirstPop(n, n.cycles + x))
      /\ e2 = Left(n, c, p, b, Above(n, 2), n.ram, PopOrder(n, n.cycles + y))
  BY DEF PopForm
<1>3. n.cycles = n.cycles /\ n.lowFirst = n.lowFirst
  OBVIOUS
<1> HIDE DEF p
<1> QED BY ONLY <1>1, <1>2, <1>3, n \in Machine, Quiet(n), t \in Popping, c \in Nat, b \in Switch01, x \in Nat, y \in Nat,
                x <= c, y <= c, y - x = SkewOf(t), PopOutcome

\* Transfers without a condition.
LEMMA PlainTransferOutcome ==
    ASSUME NEW n, NEW i, NEW op, Runs(n, i, op), Timed(i), Quiet(n), i.type \in L!Terminators \ Conditional
    PROVE  /\ Outcome(n, i.type, L!Run(n, i), E!Run(n))
           /\ i.type = "CALL_NN" => L!Run(n, i).pc = i.imm
           /\ i.type = "RST_N" => L!Run(n, i).pc = i.operands[1]
<1> DEFINE l2 == L!Run(n, i)
           e2 == E!Run(n)
           t == i.type
           c == i.cycles
           q == Behind(n, i)
<1>1. n \in Machine /\ Good(n) /\ c \in Nat /\ q \in Word
  BY TransferStart
<1>2. i.extra = 0
  BY DEF Timed
<1>3. CASE t \in {"JP_NN", "JP_HL", "JR_E"}
  <2>1. JumpForm(n, l2, e2)
    BY <1>2, <1>3, JumpsWork
  <2> HIDE DEF l2, e2
  <2>2. Outcome(n, t, l2, e2)
    BY ONLY <2>1, <1>1, Quiet(n), JumpOutcome
  <2> QED BY <1>3, <2>2 DEF l2, e2
<1>4. CASE t = "CALL_NN"
  <2>1. PushForm(n, q, c, i.imm, c, 0, l2, e2)
    BY <1>2, <1>4, CallsWork
  <2>2. c = 6 /\ t \in Pushing /\ SkewOf(t) = -6
    BY <1>4 DEF Timed, Pushing, SkewOf, CbOnMemory
  <2>3. c <= c /\ 0 <= c /\ 0 - c = SkewOf(t) /\ 0 \in Nat
    BY <2>2
  <2>4. i.imm \in Word
    <3>1. Sized(i) /\ i.type \in Len3
      BY <1>4 DEF Runs, Len3
    <3>2. i.len = 3
      BY <3>1, Lengths
    <3> QED BY <3>2 DEF Runs, Fetched
  <2> DEFINE p == i.imm
  <2>5. p \in Word /\ PushForm(n, q, c, p, c, 0, l2, e2) /\ t \in Pushing
    BY <2>1, <2>2, <2>4
  <2> HIDE DEF l2, e2, q, c, p, t
  <2>6. Outcome(n, t, l2, e2) /\ l2.pc = p
    BY ONLY <1>1, <2>5, <2>3, Quiet(n), PushOutcome
  <2> QED BY <1>4, <2>6 DEF l2, e2, p, t
<1>5. CASE t = "RST_N"
  <2>1. i.operands[1] \in Word /\ PushForm(n, q, c, i.operands[1], c, 0, l2, e2)
    BY <1>2, <1>5, RestartsWork
  <2>2. c = 4 /\ t \in Pushing /\ SkewOf(t) = -4
    BY <1>5 DEF Timed, Pushing, SkewOf, CbOnMemory
  <2>3. c <= c /\ 0 <= c /\ 0 - c = SkewOf(t) /\ 0 \in Nat
    BY <2>2
  <2> DEFINE p == i.operands[1]
  <2>5. p \in Word /\ PushForm(n, q, c, p, c, 0, l2, e2) /\ t \in Pushing
    BY <2>1, <2>2
  <2> HIDE DEF l2, e2, q, c, p, t
  <2>6. Outcome(n, t, l2, e2) /\ l2.pc = p
    BY ONLY <1>1, <2>5, <2>3, Quiet(n), PushOutcome
  <2> QED BY <1>5, <2>6 DEF l2, e2, p, t
<1>6. CASE t \in {"RET", "RETI"}
  <2> DEFINE b == IF t = "RETI" THEN 1 ELSE n.ime
  <2>1. PopForm(n, c, b, c, 0, l2, e2)
    BY <1>2, <1>6, ReturnsWork
  <2>2. c = 4 /\ t \in Popping /\ SkewOf(t) = -4
    BY <1>6 DEF Timed, Popping, SkewOf, CbOnMemory
  <2>3. c <= c /\ 0 <= c /\ 0 - c = SkewOf(t) /\ 0 \in Nat /\ t \in Popping
    BY <2>2
  <2>4. b \in Switch01
    BY <1>1 DEF Machine, Switch01
  <2> HIDE DEF l2, e2, q, c, t, b
  <2>6. Outcome(n, t, l2, e2)
    BY ONLY <1>1, <2>1, <2>3, <2>4, Quiet(n), ReturnOutcome
  <2> QED BY <1>6, <2>6 DEF l2, e2, t
<1> QED BY <1>3, <1>4, <1>5, <1>6 DEF L!Terminators, Conditional

\* Transfers with a condition, whether it holds or not.
LEMMA ConditionalOutcome ==
    ASSUME NEW n, NEW i, NEW op, Runs(n, i, op), Timed(i), Quiet(n), i.type \in Conditional
    PROVE  Outcome(n, i.type, L!Run(n, i), E!Run(n))
<1> DEFINE l2 == L!Run(n, i)
           e2 == E!Run(n)
           t == i.type
           c == i.cycles
           d == i.cycles + i.extra
           q == Behind(n, i)
<1>0. t \in L!Terminators
  BY DEF Conditional, L!Terminators
<1>1. n \in Machine /\ c \in Nat /\ d \in Nat /\ q \in Word /\ n.ime \in Switch01 /\ i.extra > 0
  BY <1>0, TransferStart DEF Timed, Machine, Switch01
<1>2. CASE ~L!taken(Base(n, i.cycles, n.pc), i)
  <2>1. JumpForm(n, l2, e2)
    BY <1>1, <1>2, NotTaken
  <2> HIDE DEF l2, e2
  <2>2. Outcome(n, t, l2, e2)
    BY ONLY <2>1, <1>1, Quiet(n), JumpOutcome
  <2> QED BY <2>2 DEF l2, e2
<1>3. CASE L!taken(Base(n, i.cycles, n.pc), i) /\ t \in {"JP_CC_NN", "JR_CC_E"}
  <2>1. JumpForm(n, l2, e2)
    BY <1>1, <1>3, ConditionalJumpsWork
  <2> HIDE DEF l2, e2
  <2>2. Outcome(n, t, l2, e2)
    BY ONLY <2>1, <1>1, Quiet(n), JumpOutcome
  <2> QED BY <2>2 DEF l2, e2
<1>4. CASE L!taken(Base(n, i.cycles, n.pc), i) /\ t = "CALL_CC_NN"
  <2>1. i.imm \in Word /\ PushForm(n, q, d, i.imm, c, d, l2, e2)
    BY <1>1, <1>4, ConditionalCallsWork
  <2>2. i.extra = 3 /\ t \in Pushing /\ SkewOf(t) = 3
    BY <1>4 DEF Timed, Pushing, SkewOf, CbOnMemory
  <2>3. c <= d /\ d <= d /\ d - c = SkewOf(t)
    BY <1>1, <2>2
  <2> DEFINE p == i.imm
  <2>5. p \in Word /\ PushForm(n, q, d, p, c, d, l2, e2) /\ t \in Pushing
    BY <2>1, <2>2
  <2> HIDE DEF l2, e2, q, c, d, p, t
  <2>6. Outcome(n, t, l2, e2)
    BY ONLY <1>1, <2>5, <2>3, Quiet(n), PushOutcome
  <2> QED BY <2>6 DEF l2, e2, t
<1>5. CASE L!taken(Base(n, i.cycles, n.pc), i) /\ t = "RET_CC"
  <2>1. PopForm(n, d, n.ime, c, d, l2, e2)
    BY <1>1, <1>5, ConditionalReturnsWork
  <2>2. i.extra = 3 /\ t \in Popping /\ SkewOf(t) = 3
    BY <1>5 DEF Timed, Popping, SkewOf, CbOnMemory
  <2>3. c <= d /\ d <= d /\ d - c = SkewOf(t) /\ t \in Popping
    BY <1>1, <2>2
  <2> HIDE DEF l2, e2, q, c, d, t
  <2>6. Outcome(n, t, l2, e2)
    BY ONLY <1>1, <2>1, <2>3, Quiet(n), ReturnOutcome
  <2> QED BY <2>6 DEF l2, e2, t
<1> QED BY <1>2, <1>3, <1>4, <1>5 DEF Conditional

\* Either backend runs what has no prefix from any machine, and they end as they should.
LEMMA UnprefixedOutcome ==
    ASSUME NEW n, NEW st, st.code \in Codes, st.code < 256, Fetched(n, Instruction(st), st.code), Quiet(n)
    PROVE  LET i == Instruction(st)
               t == Type(st.code)
           IN  /\ i.type = t
               /\ Outcome(n, t, L!Run(n, i), E!Run(n))
               /\ t \in Straight => L!Run(n, i).pc = E!Trunc16(n.pc + i.len)
               /\ t \in Stacked => L!Run(n, i).pc = n.pc + 1
               /\ t = "CALL_NN" => L!Run(n, i).pc = i.imm
               /\ t = "RST_N" => L!Run(n, i).pc = i.operands[1]
<1> DEFINE i == Instruction(st)
           op == st.code
           t == Type(op)
<1>1. i.type = t /\ Runs(n, i, op) /\ Columns(i, op) /\ Shape(i) /\ Timed(i)
  BY Unprefixed, InstructionTimed DEF Runs, Columns
<1>2. i.type \in Straight \cup Stacked \cup L!Terminators
  BY <1>1, StraightTypes DEF Runs
<1> HIDE DEF i, t, op
<1>3. CASE i.type \in Straight
  <2>1. i.type \notin Stacked /\ i.type \notin L!Terminators
    BY <1>3, SMTT(60) DEF Straight, L!Terminators, Stacked, L!R8Loads, L!ALoads, L!HlLoads, WordTypes, OffsetTypes,
       PairTypes, L!FlagOps, RestTypes, RotateTypes, StepTypes, AluTypes, AluR8, AluHL, AluN
  <2>2. i.type # "CALL_NN" /\ i.type # "RST_N"
    BY <2>1 DEF L!Terminators
  <2> QED BY <1>1, <1>3, <2>1, <2>2, StraightOutcome DEF i, t, op
<1>4. CASE i.type \in Stacked
  <2>1. i.type \notin Straight /\ i.type # "CALL_NN" /\ i.type # "RST_N"
    BY <1>4, SMTT(60) DEF Straight, Stacked, L!R8Loads, L!ALoads, L!HlLoads, WordTypes, OffsetTypes,
       PairTypes, L!FlagOps, RestTypes, RotateTypes, StepTypes, AluTypes, AluR8, AluHL, AluN
  <2> QED BY <1>1, <1>4, <2>1, StackedOutcome DEF i, t, op
<1>5. CASE i.type \in L!Terminators
  <2>1. i.type \notin Straight /\ i.type \notin Stacked
    BY <1>5, SMTT(60) DEF Straight, L!Terminators, Stacked, L!R8Loads, L!ALoads, L!HlLoads, WordTypes, OffsetTypes,
       PairTypes, L!FlagOps, RestTypes, RotateTypes, StepTypes, AluTypes, AluR8, AluHL, AluN
  <2>2. CASE i.type \in Conditional
    <3>1. i.type # "CALL_NN" /\ i.type # "RST_N"
      BY <2>2 DEF Conditional
    <3> QED BY <1>1, <2>1, <2>2, <3>1, ConditionalOutcome DEF i, t, op
  <2>3. CASE i.type \notin Conditional
    BY <1>1, <1>5, <2>1, <2>3, PlainTransferOutcome DEF i, t, op
  <2> QED BY <2>2, <2>3
<1> QED BY <1>2, <1>3, <1>4, <1>5

-----------------------------------------------------------------------------
(* The CB-prefixed instructions *)

LEMMA Joined ==
    /\ \A r : <<>> \o <<r>> = <<r>>
    /\ \A k, r : <<k>> \o <<r>> = <<k, r>>
<1>1. \A r : <<>> \o <<r>> = <<r>>
  OBVIOUS
<1>2. ASSUME NEW k, NEW r PROVE <<k>> \o <<r>> = <<k, r>>
  <2> DEFINE c == <<k>> \o <<r>>
             d == <<k, r>>
  <2>1. <<k>> \in Seq({k, r}) /\ <<r>> \in Seq({k, r})
    OBVIOUS
  <2>2. c \in Seq({k, r}) /\ Len(c) = 2 /\ c[1] = k /\ c[2] = r
    BY <2>1
  <2>3. d \in Seq({k, r}) /\ Len(d) = 2 /\ d[1] = k /\ d[2] = r
    OBVIOUS
  <2> HIDE DEF c, d
  <2>4. DOMAIN c = 1..2 /\ DOMAIN d = 1..2
    BY <2>2, <2>3
  <2>5. c = [j \in 1..2 |-> c[j]] /\ d = [j \in 1..2 |-> d[j]]
    BY <2>2, <2>3, <2>4
  <2>6. \A j \in 1..2 : c[j] = d[j]
    BY <2>2, <2>3
  <2>7. c = d
    BY <2>5, <2>6
  <2> QED BY <2>7 DEF c, d
<1> QED BY <1>1, <1>2

ShiftBytes == {"CB_RLC_R8", "CB_RRC_R8", "CB_RL_R8", "CB_RR_R8", "CB_SLA_R8", "CB_SRA_R8", "CB_SWAP_R8", "CB_SRL_R8"}
ShiftCells == {"CB_RLC_HL", "CB_RRC_HL", "CB_RL_HL", "CB_RR_HL", "CB_SLA_HL", "CB_SRA_HL", "CB_SWAP_HL", "CB_SRL_HL"}
BitBytes == {"CB_BIT_R8", "CB_RES_R8", "CB_SET_R8"}
BitCells == {"CB_BIT_HL", "CB_RES_HL", "CB_SET_HL"}

\* The operation of each group, in compiled code.
LEMMA GroupOps ==
    /\ \A g \in 0..7 : \A k \in {1, 2} : 
          LET t == L!CbGroups[1 + g][k]
          IN  /\ L!bitwiseOpFromInstrType(t) = ShiftOps[1 + g]
              /\ t \in (IF k = 1 THEN ShiftBytes ELSE ShiftCells)
    /\ \A k \in {1, 2} :
          /\ \A g \in 9..11 : L!CbGroups[g][k] \in (IF k = 1 THEN BitBytes ELSE BitCells)
          /\ L!bitOpFromInstrType(L!CbGroups[9][k]) = "Test"
          /\ L!bitOpFromInstrType(L!CbGroups[10][k]) = "Reset"
          /\ L!bitOpFromInstrType(L!CbGroups[11][k]) = "Set"
<1>1. ASSUME NEW g \in 0..7, NEW k \in {1, 2}
      PROVE  L!bitwiseOpFromInstrType(L!CbGroups[1 + g][k]) = ShiftOps[1 + g]
  <2>1. g = 0 \/ g = 1 \/ g = 2 \/ g = 3 \/ g = 4 \/ g = 5 \/ g = 6 \/ g = 7
    OBVIOUS
  <2> QED BY <2>1, SMTT(30) DEF L!bitwiseOpFromInstrType, ShiftOps, L!CbGroups
<1>2. ASSUME NEW g \in 0..7, NEW k \in {1, 2}
      PROVE  L!CbGroups[1 + g][k] \in (IF k = 1 THEN ShiftBytes ELSE ShiftCells)
  <2>1. g = 0 \/ g = 1 \/ g = 2 \/ g = 3 \/ g = 4 \/ g = 5 \/ g = 6 \/ g = 7
    OBVIOUS
  <2> QED BY <2>1, SMTT(30) DEF L!CbGroups, ShiftBytes, ShiftCells
<1>3. ASSUME NEW k \in {1, 2}
      PROVE  /\ \A g \in 9..11 : L!CbGroups[g][k] \in (IF k = 1 THEN BitBytes ELSE BitCells)
             /\ L!bitOpFromInstrType(L!CbGroups[9][k]) = "Test"
             /\ L!bitOpFromInstrType(L!CbGroups[10][k]) = "Reset"
             /\ L!bitOpFromInstrType(L!CbGroups[11][k]) = "Set"
  BY SMTT(30) DEF L!CbGroups, BitBytes, BitCells, L!bitOpFromInstrType
<1> QED BY <1>1, <1>2, <1>3

\* What compiled code makes of them.
LEMMA EmitCb ==
    ASSUME NEW n, NEW i
    PROVE  /\ i.type \in ShiftBytes \cup ShiftCells => L!emitInstruction(n, i) = L!bitwise(n, i)
           /\ i.type \in BitBytes \cup BitCells => L!emitInstruction(n, i) = L!bit_op(n, i)
           /\ i.type \in ShiftBytes \cup ShiftCells \cup BitBytes \cup BitCells => i.type \notin L!Terminators
<1>1. i.type \in ShiftBytes \cup ShiftCells => i.type \in L!Rotates
  <2>1. ShiftBytes \cup ShiftCells = UNION {{L!CbGroups[g][1], L!CbGroups[g][2]} : g \in 1..8}
    <3>1. ASSUME NEW s \in ShiftBytes \cup ShiftCells PROVE \E g \in 1..8 : s \in {L!CbGroups[g][1], L!CbGroups[g][2]}
      BY SMTT(30) DEF L!CbGroups, ShiftBytes, ShiftCells
    <3>2. ASSUME NEW g \in 1..8 PROVE {L!CbGroups[g][1], L!CbGroups[g][2]} \subseteq ShiftBytes \cup ShiftCells
      BY SMTT(30) DEF L!CbGroups, ShiftBytes, ShiftCells
    <3> QED BY <3>1, <3>2
  <2> QED BY <2>1 DEF L!Rotates
<1>2. i.type \in BitBytes \cup BitCells => i.type \notin L!Rotates
  BY SMTT(30) DEF L!Rotates, L!CbGroups, BitBytes, BitCells
<1>3. i.type \in BitBytes \cup BitCells => i.type \in L!BitOps
  BY DEF L!BitOps, BitBytes, BitCells
<1>4. i.type \in ShiftBytes \cup ShiftCells \cup BitBytes \cup BitCells =>
         /\ i.type \notin {"NOP", "HALT", "STOP"} /\ i.type \notin L!R8Loads /\ i.type \notin L!ALoads
         /\ i.type \notin L!HlLoads /\ i.type \notin L!R16Loads /\ i.type \notin L!R16Arithmetic
         /\ i.type \notin L!FlagOps /\ i.type # "DI" /\ i.type # "EI" /\ i.type \notin L!Terminators
  BY SMTT(30) DEF L!R8Loads, L!ALoads, L!HlLoads, L!R16Loads, L!R16Arithmetic, L!FlagOps, L!Terminators,
                  ShiftBytes, ShiftCells, BitBytes, BitCells
<1>5. i.type \in ShiftBytes \cup ShiftCells => i.type \notin L!BitOps
  BY SMTT(30) DEF L!BitOps, ShiftBytes, ShiftCells
<1> QED BY <1>1, <1>2, <1>3, <1>4, <1>5 DEF L!emitInstruction

LEMMA MemoryGroups ==
    /\ CbOnMemory = ShiftCells \cup BitCells
    /\ \A t \in ShiftBytes \cup ShiftCells \cup BitBytes \cup BitCells :
           t \notin Popping /\ t \notin Pushing /\ SkewOf(t) = (IF t \in CbOnMemory THEN 4 ELSE 0)
    /\ (ShiftBytes \cup BitBytes) \cap CbOnMemory = {}
<1>1. CbOnMemory = ShiftCells \cup BitCells
  BY SMTT(30) DEF CbOnMemory, ShiftCells, BitCells
<1>2. ASSUME NEW t \in ShiftBytes \cup ShiftCells \cup BitBytes \cup BitCells
      PROVE  t \notin Popping /\ t \notin Pushing /\ SkewOf(t) = (IF t \in CbOnMemory THEN 4 ELSE 0)
  <2>1. t \notin {"CALL_CC_NN", "RET_CC"} /\ t # "CALL_NN" /\ t \notin {"RST_N", "RET", "RETI"} /\ t \notin {"PUSH_R16", "POP_R16"}
    BY DEF ShiftBytes, ShiftCells, BitBytes, BitCells
  <2> QED BY <2>1 DEF SkewOf, Popping, Pushing
<1>3. (ShiftBytes \cup BitBytes) \cap CbOnMemory = {}
  BY SMTT(30) DEF ShiftBytes, BitBytes, CbOnMemory
<1> QED BY <1>1, <1>2, <1>3

\* The decoder's instruction for a code past 255.
LEMMA CbInstruction ==
    ASSUME NEW st, st.code \in Codes, st.code >= 256
    PROVE  LET i  == Instruction(st)
               cb == st.code - 256
               r  == E!get_reg8(cb)
               k  == IF cb % 8 = 6 THEN 2 ELSE 1
           IN  /\ cb \in 0..255 /\ i.type = Type(st.code) /\ i.len = 2 /\ i.cycles = E!cb_cycles(cb) /\ i.extra = 0
               /\ i.type = L!CbGroups[1 + (IF cb < 64 THEN cb \div 8 ELSE 8 + (cb - 64) \div 64)][k]
               /\ cb < 64 => i.operands = <<r>>
               /\ cb >= 64 => i.operands = <<(cb \div 8) % 8, r>>
<1> DEFINE i  == Instruction(st)
           cb == st.code - 256
           r  == E!get_reg8(cb)
           k  == IF cb % 8 = 6 THEN 2 ELSE 1
           row == O!decodeCbPrefixedOpcode[cb]
           g  == 1 + (IF cb < 64 THEN cb \div 8 ELSE 8 + (cb - 64) \div 64)
<1>1. cb \in 0..255 /\ O!Prefixed(st.code)
  BY SMTT(30) DEF Codes, O!Codes, O!Prefixed
<1>2. O!Decoded(st.code) = O!WithOperands(row, O!CbOperands(cb))
  BY <1>1 DEF O!Decoded
<1>3. /\ i.type = row.type /\ i.len = row.len /\ i.cycles = row.cycles /\ i.extra = row.extra
      /\ i.operands = O!CbOperands(cb) /\ Type(st.code) = row.type
  BY <1>2 DEF Instruction, O!WithOperands, Type
<1>4. row = (IF cb % 8 = 6 THEN O!Row(O!CbGroups[g][2], 2, 4, {}) ELSE O!Row(O!CbGroups[g][1], 2, 2, {}))
  BY <1>1 DEF O!decodeCbPrefixedOpcode, O!Byte
<1>5. row.len = 2 /\ row.extra = 0 /\ row.cycles = E!cb_cycles(cb) /\ row.type = O!CbGroups[g][k]
  <2> HIDE DEF row, g, cb
  <2> QED BY <1>4 DEF O!Row, E!cb_cycles
<1>6. O!CbGroups = L!CbGroups
  BY DEF O!CbGroups, L!CbGroups
<1>7. O!reg8FromEncoding(cb) = r
  BY <1>1, ByteNames
<1>8. O!BitOpIndex(cb) = (cb \div 8) % 8
  BY DEF O!BitOpIndex
<1>9. cb < 64 => O!CbOperands(cb) = <<r>>
  <2> HIDE DEF cb, r
  <2> QED BY <1>7, Joined DEF O!CbOperands
<1>10. cb >= 64 => O!CbOperands(cb) = <<(cb \div 8) % 8, r>>
  <2>1. cb >= 64 => ~(cb < 64)
    BY <1>1
  <2> HIDE DEF cb, r
  <2> QED BY <1>7, <1>8, <2>1, Joined DEF O!CbOperands
<1> HIDE DEF i, row
<1> QED BY <1>1, <1>3, <1>5, <1>6, <1>9, <1>10 DEF i

\* The three kinds of them.
LEMMA CbKinds ==
    ASSUME NEW st, st.code \in Codes, st.code >= 256
    PROVE  LET i  == Instruction(st)
               cb == st.code - 256
           IN  /\ cb < 64 => /\ i.type \in (IF cb % 8 = 6 THEN ShiftCells ELSE ShiftBytes)
                             /\ cb \div 8 \in 0..7 /\ L!bitwiseOpFromInstrType(i.type) = ShiftOps[1 + cb \div 8]
               /\ cb >= 64 => /\ i.type \in (IF cb % 8 = 6 THEN BitCells ELSE BitBytes)
                              /\ L!bitOpFromInstrType(i.type)
                                    = IF cb < 128 THEN "Test" ELSE IF cb < 192 THEN "Reset" ELSE "Set"
<1> DEFINE i  == Instruction(st)
           cb == st.code - 256
           k  == IF cb % 8 = 6 THEN 2 ELSE 1
           g  == 1 + (IF cb < 64 THEN cb \div 8 ELSE 8 + (cb - 64) \div 64)
<1>1. cb \in 0..255 /\ i.type = L!CbGroups[g][k]
  BY CbInstruction
<1>2. k \in {1, 2} /\ (k = 2 <=> cb % 8 = 6)
  OBVIOUS
<1> HIDE DEF i, cb, k
<1>3. cb < 64 => g = 1 + cb \div 8 /\ cb \div 8 \in 0..7
  BY <1>1
<1>4. (cb >= 64 /\ cb < 128 => g = 9) /\ (cb >= 128 /\ cb < 192 => g = 10) /\ (cb >= 192 => g = 11) /\ (cb >= 64 => ~(cb < 64))
  BY <1>1
<1> HIDE DEF g
<1>5. cb < 64 => /\ i.type \in (IF k = 1 THEN ShiftBytes ELSE ShiftCells)
                 /\ L!bitwiseOpFromInstrType(i.type) = ShiftOps[1 + cb \div 8]
  BY <1>1, <1>2, <1>3, GroupOps
<1>6. cb >= 64 /\ cb < 128 => i.type \in (IF k = 1 THEN BitBytes ELSE BitCells) /\ L!bitOpFromInstrType(i.type) = "Test"
  BY <1>1, <1>2, <1>4, GroupOps
<1>7. cb >= 128 /\ cb < 192 => i.type \in (IF k = 1 THEN BitBytes ELSE BitCells) /\ L!bitOpFromInstrType(i.type) = "Reset"
  BY <1>1, <1>2, <1>4, GroupOps
<1>8. cb >= 192 => i.type \in (IF k = 1 THEN BitBytes ELSE BitCells) /\ L!bitOpFromInstrType(i.type) = "Set"
  BY <1>1, <1>2, <1>4, GroupOps
<1>9. (k = 1 <=> cb % 8 # 6)
  BY <1>2
<1> QED BY <1>1, <1>3, <1>5, <1>6, <1>7, <1>8, <1>9 DEF i, cb

\* n when c more cycles have been added, with everything a CB instruction can change.
Kept(n, c, p, reg, flag, ram, log) ==
    [n EXCEPT !.cycles = n.cycles + c, !.pc = p, !.reg = reg, !.flag = flag, !.ram = ram, !.log = log]

\* The fields of Kept, and what each step of a CB instruction makes of them.
LEMMA KeptIs ==
    ASSUME NEW n, n \in Machine, NEW c \in Nat, NEW p \in Word, NEW reg \in Registers8, NEW flag \in Flags,
           NEW ram \in Memory, NEW log \in Log, NEW x, x = Kept(n, c, p, reg, flag, ram, log)
    PROVE  /\ x \in Machine /\ x.reg = reg /\ x.flag = flag /\ x.cycles = n.cycles + c /\ x.pc = p
           /\ x.ram = ram /\ x.log = log /\ x.lowFirst = n.lowFirst
<1>1. n.cycles + c \in Nat
  BY DEF Machine
<1> QED BY <1>1 DEF Machine, Kept

LEMMA KeptStart ==
    ASSUME NEW n, n \in Machine, NEW p
    PROVE  /\ n = Kept(n, 0, n.pc, n.reg, n.flag, n.ram, n.log)
           /\ At(n, p) = Kept(n, 0, p, n.reg, n.flag, n.ram, n.log)
<1>1. n.cycles + 0 = n.cycles
  BY DEF Machine
<1> QED BY <1>1 DEF Machine, Kept, At

Four(z, nn, h, cc) == [Z |-> z, N |-> nn, H |-> h, C |-> cc]
WithFlag(x, f) == [x EXCEPT !.flag = f]
OneSet(reg, r, v) == [reg EXCEPT ![r] = v]

LEMMA KeptFlag ==
    ASSUME NEW n, n \in Machine, NEW c, NEW p, NEW reg, NEW flag, NEW ram, NEW log, NEW f
    PROVE  WithFlag(Kept(n, c, p, reg, flag, ram, log), f) = Kept(n, c, p, reg, f, ram, log)
BY DEF Kept, WithFlag, Machine

LEMMA KeptReg ==
    ASSUME NEW n, n \in Machine, NEW c, NEW p, NEW reg, NEW flag, NEW ram, NEW log, NEW r, NEW v
    PROVE  E!set_reg8(Kept(n, c, p, reg, flag, ram, log), r, v) = Kept(n, c, p, OneSet(reg, r, v), flag, ram, log)
BY DEF Kept, E!set_reg8, OneSet, Machine

LEMMA KeptSpend ==
    ASSUME NEW n, n \in Machine, NEW c \in Nat, NEW p, NEW reg, NEW flag, NEW ram, NEW log, NEW d \in Nat
    PROVE  E!spend(Kept(n, c, p, reg, flag, ram, log), d) = Kept(n, c + d, p, reg, flag, ram, log)
<1>1. n.cycles \in Nat /\ n.cycles + c + d = n.cycles + (c + d)
  BY DEF Machine
<1> QED BY <1>1 DEF E!spend, Kept, Machine

LEMMA KeptSkip ==
    ASSUME NEW n, n \in Machine, NEW c \in Nat, NEW p, NEW reg, NEW flag, NEW ram, NEW log, NEW k
    PROVE  E!skip(Kept(n, c, p, reg, flag, ram, log), k) = Kept(n, c, E!Trunc16(p + k), reg, flag, ram, log)
BY DEF E!skip, Kept, Machine

LEMMA KeptWrite ==
    ASSUME NEW n, n \in Machine, NEW c \in Nat, NEW p \in Word, NEW reg \in Registers8, NEW flag \in Flags,
           NEW ram \in Memory, NEW log \in Log, NEW a \in Word, NEW v
    PROVE  E!write_ram(Kept(n, c, p, reg, flag, ram, log), a, v)
              = Kept(n, c, p, reg, flag, Put(ram, a, v), Noted(log, "write", a, v, n.cycles + c))
<1> DEFINE x == Kept(n, c, p, reg, flag, ram, log)
           r2 == Put(ram, a, v)
           g2 == Noted(log, "write", a, v, n.cycles + c)
<1>1. x \in Machine /\ x.ram = ram /\ x.log = log /\ x.cycles = n.cycles + c
  BY KeptIs
<1>2. E!write_ram(x, a, v) = [x EXCEPT !.ram = r2, !.log = g2]
  <2> HIDE DEF x
  <2>1. E!write_ram(x, a, v) = [x EXCEPT !.ram = Put(x.ram, a, v), !.log = Noted(x.log, "write", a, v, x.cycles)]
    BY ONLY <1>1, a \in Word, WriteForm
  <2>2. Put(x.ram, a, v) = r2 /\ Noted(x.log, "write", a, v, x.cycles) = g2
    BY <1>1
  <2> HIDE DEF r2, g2
  <2> QED BY <2>1, <2>2
<1> HIDE DEF r2, g2
<1>3. [x EXCEPT !.ram = r2, !.log = g2] = Kept(n, c, p, reg, flag, r2, g2)
  BY DEF Kept, Machine
<1> QED BY <1>2, <1>3 DEF r2, g2

LEMMA KeptRead ==
    ASSUME NEW n, n \in Machine, NEW c \in Nat, NEW p \in Word, NEW reg \in Registers8, NEW flag \in Flags,
           NEW log \in Log, NEW a \in Word
    PROVE  /\ E!read_ram(Kept(n, c, p, reg, flag, n.ram, log), a) = E!read_ram(n, a)
           /\ E!AfterRead(Kept(n, c, p, reg, flag, n.ram, log), a)
                 = Kept(n, c, p, reg, flag, n.ram, Noted(log, "read", a, E!read_ram(n, a), n.cycles + c))
<1> DEFINE x == Kept(n, c, p, reg, flag, n.ram, log)
           v == E!read_ram(n, a)
           g2 == Noted(log, "read", a, v, n.cycles + c)
<1>0. n.ram \in Memory
  BY DEF Machine
<1>1. x \in Machine /\ x.ram = n.ram /\ x.log = log /\ x.cycles = n.cycles + c
  BY <1>0, KeptIs
<1>2. E!read_ram(x, a) = v
  <2> HIDE DEF x
  <2> QED BY <1>1 DEF E!read_ram, E!ram
<1>3. E!AfterRead(x, a) = [x EXCEPT !.log = g2]
  <2> HIDE DEF x, v
  <2> QED BY <1>1, <1>2, ReadForm
<1> HIDE DEF g2
<1>4. [x EXCEPT !.log = g2] = Kept(n, c, p, reg, flag, n.ram, g2)
  BY DEF Kept, Machine
<1> QED BY <1>2, <1>3, <1>4 DEF g2

-----------------------------------------------------------------------------
(* What a CB instruction makes of a byte and of the flags *)

MaskOf(cb) == 2^((cb \div 8) % 8)
ByteMade(cb, v, c) ==
    IF cb < 64 THEN E!Shifted(cb \div 8, v, c).v
    ELSE IF cb < 192 THEN E!And(v, 255 - MaskOf(cb)) ELSE E!Or(v, MaskOf(cb))
FlagsMade(cb, v, flag, c) ==
    IF cb < 64 THEN Four(E!Shifted(cb \div 8, v, c).v = 0, FALSE, FALSE, E!Shifted(cb \div 8, v, c).c)
    ELSE IF cb < 128 THEN Four(E!And(v, MaskOf(cb)) = 0, FALSE, TRUE, flag.C)
    ELSE flag

\* The masks of BIT, RES and SET.
LEMMA Masks ==
    \A k \in 0..7 : /\ 2^k \in Byte /\ 255 - 2^k \in Byte /\ L!Shl(1, k) = 2^k /\ L!Xor(2^k, 255) = 255 - 2^k
<1> TAKE k \in 0..7
<1>1. k = 0 \/ k = 1 \/ k = 2 \/ k = 3 \/ k = 4 \/ k = 5 \/ k = 6 \/ k = 7
  OBVIOUS
<1>2. 2^k \in {1, 2, 4, 8, 16, 32, 64, 128}
  <2>1. CASE k = 0
    BY <2>1, Powers
  <2>2. CASE k = 1
    BY <2>2, Powers
  <2>3. CASE k = 2
    BY <2>3, Powers
  <2>4. CASE k = 3
    BY <2>4, Powers
  <2>5. CASE k = 4
    BY <2>5, Powers
  <2>6. CASE k = 5
    BY <2>6, Powers
  <2>7. CASE k = 6
    BY <2>7, Powers
  <2>8. CASE k = 7
    BY <2>8, Powers
  <2> QED BY <1>1, <2>1, <2>2, <2>3, <2>4, <2>5, <2>6, <2>7, <2>8
<1> DEFINE x == 2^k
<1>3. L!Shl(1, k) = (1 * x) % 256
  BY DEF L!Shl
<1> HIDE DEF x
<1>4. x \in Byte /\ 255 - x \in Byte /\ (1 * x) % 256 = x
  BY <1>2, ByteIs DEF x
<1>5. L!Xor(x, 255) = 255 - x
  BY <1>4, ByteXor, SameBits
<1> QED BY <1>3, <1>4, <1>5 DEF x

LEMMA MadeTypes ==
    ASSUME NEW cb \in 0..255, NEW v \in Byte, NEW c \in {0, 1}, NEW flag \in Flags
    PROVE  ByteMade(cb, v, c) \in Byte /\ FlagsMade(cb, v, flag, c) \in Flags
<1>1. (cb \div 8) % 8 \in 0..7 /\ (cb < 64 => cb \div 8 \in 0..7)
  OBVIOUS
<1>2. MaskOf(cb) \in Byte /\ 255 - MaskOf(cb) \in Byte
  BY <1>1, Masks DEF MaskOf
<1>3. E!And(v, 255 - MaskOf(cb)) \in Byte /\ E!Or(v, MaskOf(cb)) \in Byte
  BY <1>2, ByteBits
<1>4. cb < 64 => E!Shifted(cb \div 8, v, c).v \in Byte /\ E!Shifted(cb \div 8, v, c).c \in BOOLEAN
  BY <1>1, SameShift
<1>5. flag.C \in BOOLEAN
  BY DEF Flags
<1>6. \A z, nn, h, cc \in BOOLEAN : Four(z, nn, h, cc) \in Flags
  BY DEF Four, Flags
<1>7. ByteMade(cb, v, c) \in Byte
  BY <1>3, <1>4 DEF ByteMade
<1>8. CASE cb < 64
  <2>1. FlagsMade(cb, v, flag, c) = Four(E!Shifted(cb \div 8, v, c).v = 0, FALSE, FALSE, E!Shifted(cb \div 8, v, c).c)
    BY <1>8 DEF FlagsMade
  <2> DEFINE a == E!Shifted(cb \div 8, v, c).c
             z == E!Shifted(cb \div 8, v, c).v = 0
  <2>2. a \in BOOLEAN /\ z \in BOOLEAN
    BY <1>4, <1>8
  <2> HIDE DEF a, z
  <2>3. Four(z, FALSE, FALSE, a) \in Flags
    BY <1>6, <2>2
  <2> QED BY <1>7, <2>1, <2>3 DEF a, z
<1>9. CASE ~(cb < 64) /\ cb < 128
  <2> DEFINE z == E!And(v, MaskOf(cb)) = 0
  <2>1. FlagsMade(cb, v, flag, c) = Four(z, FALSE, TRUE, flag.C)
    BY <1>9 DEF FlagsMade
  <2>2. z \in BOOLEAN
    OBVIOUS
  <2> HIDE DEF z
  <2>3. Four(z, FALSE, TRUE, flag.C) \in Flags
    BY <1>5, <1>6, <2>2
  <2> QED BY <1>7, <2>1, <2>3
<1>10. CASE ~(cb < 64) /\ ~(cb < 128)
  BY <1>7, <1>10 DEF FlagsMade
<1> QED BY <1>8, <1>9, <1>10

-----------------------------------------------------------------------------
(* The interpreter's CB instructions *)

\* The interpreter finds the group in the bits of the opcode.
LEMMA Groups ==
    ASSUME NEW cb \in 0..255
    PROVE  /\ cb < 64 <=> cb \div 8 < 8
           /\ (~(cb < 64) /\ cb < 128) <=> cb \div 8 \in 8..15
           /\ (~(cb < 128) /\ cb < 192) <=> cb \div 8 \in 16..23
           /\ cb < 64 => cb < 128 /\ cb < 192
           /\ cb < 128 => cb < 192
OBVIOUS

LEMMA FlagsForm ==
    ASSUME NEW x, NEW z, NEW nn, NEW h, NEW cc
    PROVE  E!set_flags(x, z, nn, h, cc) = WithFlag(x, Four(z, nn, h, cc))
BY DEF E!set_flags, WithFlag, Four

\* On a register: the byte and the flags.
LEMMA CbOnByte ==
    ASSUME NEW y, NEW cb \in 0..255, E!get_reg8(cb) # "(HL)"
    PROVE  LET r == E!get_reg8(cb)
               x == E!spend(y, E!cb_cycles(cb))
               b == ByteMade(cb, x.reg[r], E!Carry(x))
               f == FlagsMade(cb, x.reg[r], x.flag, E!Carry(x))
           IN  /\ cb < 64 => E!cb_exec_at(y, cb) = E!set_reg8(WithFlag(x, f), r, b)
               /\ ~(cb < 64) /\ cb < 128 => E!cb_exec_at(y, cb) = WithFlag(x, f)
               /\ ~(cb < 128) => E!cb_exec_at(y, cb) = E!set_reg8(x, r, b)
<1> DEFINE r == E!get_reg8(cb)
           x == E!spend(y, E!cb_cycles(cb))
           v == x.reg[r]
           b == ByteMade(cb, v, E!Carry(x))
           f == FlagsMade(cb, v, x.flag, E!Carry(x))
           s == E!Shifted(cb \div 8, v, E!Carry(x))
<1>1. E!cb_exec_at(y, cb) =
         CASE cb \div 8 < 8 -> E!set_reg8(E!set_flags(x, s.v = 0, FALSE, FALSE, s.c), r, s.v)
           [] cb \div 8 \in 8..15 -> E!set_flags(x, E!And(v, MaskOf(cb)) = 0, FALSE, TRUE, x.flag.C)
           [] cb \div 8 \in 16..23 -> E!set_reg8(x, r, E!And(v, 255 - MaskOf(cb)))
           [] OTHER -> E!set_reg8(x, r, E!Or(v, MaskOf(cb)))
  BY DEF E!cb_exec_at, MaskOf
<1> HIDE DEF x, r
<1>2. CASE cb < 64
  <2>1. E!cb_exec_at(y, cb) = E!set_reg8(E!set_flags(x, s.v = 0, FALSE, FALSE, s.c), r, s.v)
    BY <1>1, <1>2, Groups
  <2>2. f = Four(s.v = 0, FALSE, FALSE, s.c) /\ b = s.v
    BY <1>2 DEF FlagsMade, ByteMade
  <2> HIDE DEF s, f, b
  <2>3. E!set_flags(x, s.v = 0, FALSE, FALSE, s.c) = WithFlag(x, f)
    BY <2>2, FlagsForm
  <2>4. E!cb_exec_at(y, cb) = E!set_reg8(WithFlag(x, f), r, b)
    BY <2>1, <2>2, <2>3
  <2> QED BY <1>2, <2>4 DEF r, x, b, f, v
<1>3. CASE ~(cb < 64) /\ cb < 128
  <2>1. cb \div 8 \in 8..15 /\ ~(cb \div 8 < 8) /\ cb \div 8 \notin 16..23
    BY <1>3
  <2>2. E!cb_exec_at(y, cb) = E!set_flags(x, E!And(v, MaskOf(cb)) = 0, FALSE, TRUE, x.flag.C)
    BY <1>1, <2>1
  <2>3. f = Four(E!And(v, MaskOf(cb)) = 0, FALSE, TRUE, x.flag.C)
    BY <1>3 DEF FlagsMade
  <2> HIDE DEF f, b, v, s
  <2>4. E!cb_exec_at(y, cb) = WithFlag(x, f)
    BY <2>2, <2>3, FlagsForm
  <2> QED BY <1>3, <2>4 DEF r, x, b, f, v
<1>4. CASE ~(cb < 128) /\ cb < 192
  <2>1. cb \div 8 \in 16..23 /\ ~(cb \div 8 < 8) /\ cb \div 8 \notin 8..15 /\ ~(cb < 64)
    BY <1>4
  <2>2. E!cb_exec_at(y, cb) = E!set_reg8(x, r, E!And(v, 255 - MaskOf(cb)))
    BY <1>1, <2>1
  <2>3. b = E!And(v, 255 - MaskOf(cb))
    BY <1>4, <2>1 DEF ByteMade
  <2> HIDE DEF f, b, v, s
  <2>4. E!cb_exec_at(y, cb) = E!set_reg8(x, r, b)
    BY <2>2, <2>3
  <2> QED BY <1>4, <2>1, <2>4 DEF r, x, b, f, v
<1>5. CASE ~(cb < 192)
  <2>1. cb \div 8 \notin 16..23 /\ ~(cb \div 8 < 8) /\ cb \div 8 \notin 8..15 /\ ~(cb < 64) /\ ~(cb < 128)
    BY <1>5
  <2>2. E!cb_exec_at(y, cb) = E!set_reg8(x, r, E!Or(v, MaskOf(cb)))
    BY <1>1, <2>1
  <2>3. b = E!Or(v, MaskOf(cb))
    BY <1>5, <2>1 DEF ByteMade
  <2> HIDE DEF f, b, v, s
  <2>4. E!cb_exec_at(y, cb) = E!set_reg8(x, r, b)
    BY <2>2, <2>3
  <2> QED BY <1>5, <2>1, <2>4 DEF r, x, b, f, v
<1> QED
  <2>1. (cb < 64) \/ (~(cb < 64) /\ cb < 128) \/ (~(cb < 128) /\ cb < 192) \/ ~(cb < 192)
    OBVIOUS
  <2> QED BY <2>1, <1>2, <1>3, <1>4, <1>5

\* On (HL): the byte is read once and, but for BIT, written.
LEMMA CbOnCell ==
    ASSUME NEW y, NEW cb \in 0..255, E!get_reg8(cb) = "(HL)"
    PROVE  LET x0 == E!spend(y, E!cb_cycles(cb))
               v == E!read_ram(x0, E!get_hl(x0))
               x == E!AfterRead(x0, E!get_hl(x0))
               b == ByteMade(cb, v, E!Carry(x))
               f == FlagsMade(cb, v, x.flag, E!Carry(x))
           IN  /\ cb < 64 => E!cb_exec_at(y, cb) = E!write_ram(WithFlag(x, f), E!get_hl(WithFlag(x, f)), b)
               /\ ~(cb < 64) /\ cb < 128 => E!cb_exec_at(y, cb) = WithFlag(x, f)
               /\ ~(cb < 128) => E!cb_exec_at(y, cb) = E!write_ram(x, E!get_hl(x), b)
<1> DEFINE x0 == E!spend(y, E!cb_cycles(cb))
           v == E!read_ram(x0, E!get_hl(x0))
           x == E!AfterRead(x0, E!get_hl(x0))
           b == ByteMade(cb, v, E!Carry(x))
           f == FlagsMade(cb, v, x.flag, E!Carry(x))
           s == E!Shifted(cb \div 8, v, E!Carry(x))
           back(n, u) == E!write_ram(n, E!get_hl(n), u)
<1>1. E!cb_exec_at(y, cb) =
         CASE cb \div 8 < 8 -> back(E!set_flags(x, s.v = 0, FALSE, FALSE, s.c), s.v)
           [] cb \div 8 \in 8..15 -> E!set_flags(x, E!And(v, MaskOf(cb)) = 0, FALSE, TRUE, x.flag.C)
           [] cb \div 8 \in 16..23 -> back(x, E!And(v, 255 - MaskOf(cb)))
           [] OTHER -> back(x, E!Or(v, MaskOf(cb)))
  BY DEF E!cb_exec_at, MaskOf
<1> HIDE DEF x0, v, x, back
<1>2. CASE cb < 64
  <2>1. E!cb_exec_at(y, cb) = back(E!set_flags(x, s.v = 0, FALSE, FALSE, s.c), s.v)
    BY <1>1, <1>2, Groups
  <2>2. f = Four(s.v = 0, FALSE, FALSE, s.c) /\ b = s.v
    BY <1>2 DEF FlagsMade, ByteMade
  <2> HIDE DEF s, f, b
  <2>3. E!set_flags(x, s.v = 0, FALSE, FALSE, s.c) = WithFlag(x, f)
    BY <2>2, FlagsForm
  <2>4. E!cb_exec_at(y, cb) = back(WithFlag(x, f), b)
    BY <2>1, <2>2, <2>3
  <2> QED BY <1>2, <2>4 DEF x0, x, b, f, v, back
<1>3. CASE ~(cb < 64) /\ cb < 128
  <2>1. cb \div 8 \in 8..15 /\ ~(cb \div 8 < 8) /\ cb \div 8 \notin 16..23
    BY <1>3
  <2>2. E!cb_exec_at(y, cb) = E!set_flags(x, E!And(v, MaskOf(cb)) = 0, FALSE, TRUE, x.flag.C)
    BY <1>1, <2>1
  <2>3. f = Four(E!And(v, MaskOf(cb)) = 0, FALSE, TRUE, x.flag.C)
    BY <1>3 DEF FlagsMade
  <2> HIDE DEF f, b, s
  <2>4. E!cb_exec_at(y, cb) = WithFlag(x, f)
    BY <2>2, <2>3, FlagsForm
  <2> QED BY <1>3, <2>4 DEF x0, x, b, f, v, back
<1>4. CASE ~(cb < 128) /\ cb < 192
  <2>1. cb \div 8 \in 16..23 /\ ~(cb \div 8 < 8) /\ cb \div 8 \notin 8..15 /\ ~(cb < 64)
    BY <1>4
  <2>2. E!cb_exec_at(y, cb) = back(x, E!And(v, 255 - MaskOf(cb)))
    BY <1>1, <2>1
  <2>3. b = E!And(v, 255 - MaskOf(cb))
    BY <1>4, <2>1 DEF ByteMade
  <2> HIDE DEF f, b, s
  <2>4. E!cb_exec_at(y, cb) = back(x, b)
    BY <2>2, <2>3
  <2> QED BY <1>4, <2>1, <2>4 DEF x0, x, b, f, v, back
<1>5. CASE ~(cb < 192)
  <2>1. cb \div 8 \notin 16..23 /\ ~(cb \div 8 < 8) /\ cb \div 8 \notin 8..15 /\ ~(cb < 64) /\ ~(cb < 128)
    BY <1>5
  <2>2. E!cb_exec_at(y, cb) = back(x, E!Or(v, MaskOf(cb)))
    BY <1>1, <2>1
  <2>3. b = E!Or(v, MaskOf(cb))
    BY <1>5, <2>1 DEF ByteMade
  <2> HIDE DEF f, b, s
  <2>4. E!cb_exec_at(y, cb) = back(x, b)
    BY <2>2, <2>3
  <2> QED BY <1>5, <2>1, <2>4 DEF x0, x, b, f, v, back
<1> QED
  <2>1. (cb < 64) \/ (~(cb < 64) /\ cb < 128) \/ (~(cb < 128) /\ cb < 192) \/ ~(cb < 192)
    OBVIOUS
  <2> QED BY <2>1, <1>2, <1>3, <1>4, <1>5

-----------------------------------------------------------------------------
(* Compiled code's *)

\* x is the machine after the operand v, whose flags are n's.
CbReady(n, i, cb, x, v) ==
    /\ Good(n) /\ cb \in 0..255 /\ i.len = 2
    /\ cb < 64 => i.type \in ShiftBytes \cup ShiftCells /\ L!bitwiseOpFromInstrType(i.type) = ShiftOps[1 + cb \div 8]
    /\ ~(cb < 64) => /\ i.type \in BitBytes \cup BitCells /\ i.operands[1] = (cb \div 8) % 8
                     /\ L!bitOpFromInstrType(i.type) = IF cb < 128 THEN "Test" ELSE IF cb < 192 THEN "Reset" ELSE "Set"
    /\ L!AfterOperand(n, i) = x /\ x.flag = n.flag /\ v \in Byte /\ L!Operand(n, i) = v
    /\ \A u : L!Back(x, i, u).flag = x.flag

\* Compiled code makes the same byte and the same flags.
LEMMA CbEmitted ==
    ASSUME NEW n, NEW i, NEW cb, NEW x, NEW v, CbReady(n, i, cb, x, v)
    PROVE  LET b == ByteMade(cb, v, E!Carry(n))
               f == FlagsMade(cb, v, n.flag, E!Carry(n))
           IN  /\ cb < 64 => L!emitInstruction(n, i) = WithFlag(L!Back(x, i, b), f)
               /\ ~(cb < 64) /\ cb < 128 => L!emitInstruction(n, i) = WithFlag(x, f)
               /\ ~(cb < 128) => L!emitInstruction(n, i) = L!Back(x, i, b)
<1> DEFINE c == E!Carry(n)
           b == ByteMade(cb, v, c)
           f == FlagsMade(cb, v, n.flag, c)
           k == (cb \div 8) % 8
           mask == MaskOf(cb)
<1> USE DEF CbReady
<1>1. c \in {0, 1} /\ c = (IF x.flag.C THEN 1 ELSE 0)
  BY DEF E!Carry
<1>2. CASE cb < 64
  <2> DEFINE g == cb \div 8
             res == L!BitwiseResult(ShiftOps[1 + g], v, c)
             s == E!Shifted(g, v, c)
             y == L!Back(x, i, res.r)
  <2>0. g \in 0..7
    BY <1>2
  <2>1. res.r = s.v /\ (res.c = 1 <=> s.c) /\ s.c \in BOOLEAN
    <3> HIDE DEF g, c
    <3> QED BY <1>1, <2>0, SameShift
  <2>2. L!emitInstruction(n, i) = L!bitwise(n, i)
    BY <1>2, EmitCb
  <2>3. L!bitwise(n, i) = L!performBitwise(x, i, ShiftOps[1 + g], v, TRUE)
    <3>1. L!IsCbPrefixed(i) = TRUE
      BY DEF L!IsCbPrefixed
    <3> DEFINE j == IF L!IsCbPrefixed(i) THEN i ELSE [i EXCEPT !.operands = <<"A">>]
    <3>2. L!bitwise(n, i) = L!performBitwise(L!AfterOperand(n, j), j, L!bitwiseOpFromInstrType(j.type), L!Operand(n, j), L!IsCbPrefixed(i))
      BY DEF L!bitwise
    <3>3. j = i
      BY <3>1
    <3> HIDE DEF j
    <3> QED BY <1>2, <3>1, <3>2, <3>3
  <2>4. L!performBitwise(x, i, ShiftOps[1 + g], v, TRUE) =
           [y EXCEPT !.flag = [Z |-> res.r = 0, N |-> FALSE, H |-> FALSE, C |-> res.c = 1]]
    <3> HIDE DEF c, g
    <3> QED BY <1>1 DEF L!performBitwise
  <2>5. b = s.v /\ f = Four(s.v = 0, FALSE, FALSE, s.c)
    BY <1>2 DEF ByteMade, FlagsMade
  <2> HIDE DEF res, s, g, c, b, f
  <2>6. [Z |-> res.r = 0, N |-> FALSE, H |-> FALSE, C |-> res.c = 1] = f
    <3>1. (res.c = 1) = s.c
      BY <2>1
    <3> QED BY <2>1, <2>5, <3>1 DEF Four
  <2>7. L!emitInstruction(n, i) = WithFlag(L!Back(x, i, b), f)
    BY <2>1, <2>2, <2>3, <2>4, <2>5, <2>6 DEF WithFlag
  <2> QED BY <1>2, <2>7 DEF b, f, c
<1>3. CASE ~(cb < 64)
  <2>0. k \in 0..7 /\ mask = 2^k
    BY DEF MaskOf
  <2>1. mask \in Byte /\ L!Shl(1, k) = mask /\ L!Xor(mask, 255) = 255 - mask
    <3> HIDE DEF k, mask
    <3> QED BY <2>0, Masks
  <2> DEFINE o == L!bitOpFromInstrType(i.type)
  <2>2. L!emitInstruction(n, i) = L!performBitOp(x, i, o, k, v)
    <3>1. L!emitInstruction(n, i) = L!bit_op(n, i)
      BY <1>3, EmitCb
    <3>2. i.operands[1] = k
      BY <1>3
    <3> HIDE DEF k, o
    <3> QED BY <3>1, <3>2 DEF L!bit_op, o
  <2>3. o = IF cb < 128 THEN "Test" ELSE IF cb < 192 THEN "Reset" ELSE "Set"
    BY <1>3
  <2> HIDE DEF o, k, mask
  <2>4. CASE cb < 128
    <3>1. f = Four(E!And(v, mask) = 0, FALSE, TRUE, n.flag.C)
      BY <1>3, <2>4 DEF FlagsMade, mask
    <3>2. L!performBitOp(x, i, o, k, v) = [x EXCEPT !.flag = [Z |-> L!And(v, mask) = 0, N |-> FALSE, H |-> TRUE, C |-> x.flag.C]]
      BY <2>1, <2>3, <2>4 DEF L!performBitOp
    <3>3. L!And(v, mask) = E!And(v, mask)
      BY SameBits
    <3> HIDE DEF f, b
    <3>4. L!emitInstruction(n, i) = WithFlag(x, f)
      BY <2>2, <3>1, <3>2, <3>3 DEF WithFlag, Four
    <3> QED BY <1>3, <2>4, <3>4 DEF f, b, c
  <2>5. CASE ~(cb < 128) /\ cb < 192
    <3>1. b = E!And(v, 255 - mask)
      BY <1>3, <2>5 DEF ByteMade, mask
    <3>2. L!performBitOp(x, i, o, k, v) = L!Back(x, i, L!And(v, L!Xor(mask, 255)))
      BY <2>1, <2>3, <2>5 DEF L!performBitOp
    <3> HIDE DEF f, b
    <3>3. L!emitInstruction(n, i) = L!Back(x, i, b)
      BY <2>1, <2>2, <3>1, <3>2, SameBits
    <3> QED BY <1>3, <2>5, <3>3 DEF f, b, c
  <2>6. CASE ~(cb < 192)
    <3>0. ~(cb < 128)
      BY <2>6
    <3>1. b = E!Or(v, mask)
      BY <1>3, <2>6 DEF ByteMade, mask
    <3>2. L!performBitOp(x, i, o, k, v) = L!Back(x, i, L!Or(v, mask))
      BY <2>1, <2>3, <2>6, <3>0 DEF L!performBitOp
    <3> HIDE DEF f, b
    <3>3. L!emitInstruction(n, i) = L!Back(x, i, b)
      BY <2>2, <3>1, <3>2, SameBits
    <3> QED BY <1>3, <2>6, <3>0, <3>3 DEF f, b, c
  <2> QED BY <2>4, <2>5, <2>6
<1> QED BY <1>2, <1>3

\* The CB instruction cb is where the machine is.
CbFetched(n, cb) ==
    /\ Good(n) /\ n.pc + 2 <= 32767 /\ cb \in 0..255
    /\ E!ram(n, n.pc) = 203 /\ E!ram(n, n.pc + 1) = cb

\* Where both start, and where they end.
LEMMA CbStart ==
    ASSUME NEW n, NEW cb, CbFetched(n, cb)
    PROVE  /\ Good(n) /\ n \in Machine /\ n.pc \in Word /\ n.pc + 1 \in Word
           /\ E!Trunc16(n.pc + 2) = n.pc + 2 /\ E!Trunc16(n.pc + 1 + 1) = n.pc + 2 /\ n.pc + 2 \in Word
           /\ E!Run(n) = E!skip(E!cb_exec_at(Past(n), cb), 1)
           /\ Past(n) = Kept(n, 0, n.pc + 1, n.reg, n.flag, n.ram, n.log)
           /\ n = Kept(n, 0, n.pc, n.reg, n.flag, n.ram, n.log)
<1> DEFINE j == [len |-> 2, imm |-> cb]
<1>1. Fetched(n, j, 203)
  <2>1. cb \in Byte /\ 203 \in Byte
    BY ByteIs DEF CbFetched
  <2> QED BY <2>1 DEF Fetched, CbFetched
<1>2. Good(n) /\ n.pc + 1 \in Word /\ n.pc \in Int /\ E!skip(n, 1) = Past(n)
  BY <1>1, PastOpcode
<1>3. E!byte(Past(n)) = cb
  BY <1>1, Constants
<1>4. E!ram(n, n.pc) = 203 /\ n.pc + 2 <= 32767
  BY DEF CbFetched
<1>5. n.pc \in Word /\ 0 <= n.pc /\ n \in Machine
  BY <1>2, GoodFields, WordIs DEF Good
<1>6. n.pc + 2 \in Word /\ n.pc + 1 + 1 = n.pc + 2
  BY <1>2, <1>4, <1>5, WordIs
<1>7. E!Trunc16(n.pc + 2) = n.pc + 2
  BY <1>6, WordIs, TruncType
<1>8. E!Run(n) = E!skip(E!cb_exec_at(Past(n), cb), 1)
  BY <1>2, <1>3, <1>4 DEF E!Run
<1> QED BY <1>2, <1>5, <1>6, <1>7, <1>8, KeptStart DEF Past

LEMMA CbFinish ==
    ASSUME NEW n, NEW cb, CbFetched(n, cb), NEW i, i.len = 2, NEW c \in Nat, i.cycles = c,
           i.type \notin L!Terminators,
           NEW reg, NEW f, NEW ram, NEW g, NEW h
    PROVE  /\ L!emitInstruction(n, i) = Kept(n, 0, n.pc, reg, f, ram, g)
                 => L!Run(n, i) = Kept(n, c, n.pc + 2, reg, f, ram, g)
           /\ E!cb_exec_at(Past(n), cb) = Kept(n, c, n.pc + 1, reg, f, ram, h)
                 => E!Run(n) = Kept(n, c, n.pc + 2, reg, f, ram, h)
<1>1. /\ n \in Machine /\ n.pc \in Int /\ E!Trunc16(n.pc + 2) = n.pc + 2 /\ E!Trunc16(n.pc + 1 + 1) = n.pc + 2
      /\ E!Run(n) = E!skip(E!cb_exec_at(Past(n), cb), 1)
  BY CbStart, WordIs
<1>2. ASSUME L!emitInstruction(n, i) = Kept(n, 0, n.pc, reg, f, ram, g)
      PROVE  L!Run(n, i) = Kept(n, c, n.pc + 2, reg, f, ram, g)
  <2> DEFINE x == Kept(n, 0, n.pc, reg, f, ram, g)
             y == Kept(n, c, n.pc, reg, f, ram, g)
  <2>1. L!increaseCycles(x, c) = y
    <3>1. E!spend(x, c) = Kept(n, 0 + c, n.pc, reg, f, ram, g)
      BY <1>1, KeptSpend
    <3>2. L!increaseCycles(x, c) = E!spend(x, c)
      BY DEF L!increaseCycles, E!spend
    <3> QED BY <3>1, <3>2
  <2>2. L!Run(n, i) = [y EXCEPT !.pc = L!Trunc16(@ + 2)]
    <3>1. L!Run(n, i) = L!buildOpcodeFunc(n, i)
      BY DEF L!Run, L!IsBlockTerminator
    <3> HIDE DEF x, y
    <3> QED BY <1>2, <2>1, <3>1 DEF L!buildOpcodeFunc, x
  <2>3. y.pc = n.pc
    BY <1>1 DEF Kept, Machine
  <2>4. L!Trunc16(n.pc + 2) = n.pc + 2
    BY <1>1, TruncType
  <2>5. [y EXCEPT !.pc = n.pc + 2] = Kept(n, c, n.pc + 2, reg, f, ram, g)
    BY <1>1 DEF Kept, Machine
  <2> HIDE DEF y
  <2> QED BY <2>2, <2>3, <2>4, <2>5
<1>3. ASSUME E!cb_exec_at(Past(n), cb) = Kept(n, c, n.pc + 1, reg, f, ram, h)
      PROVE  E!Run(n) = Kept(n, c, n.pc + 2, reg, f, ram, h)
  <2>1. E!skip(Kept(n, c, n.pc + 1, reg, f, ram, h), 1) = Kept(n, c, E!Trunc16(n.pc + 1 + 1), reg, f, ram, h)
    BY <1>1, KeptSkip
  <2> QED BY <1>1, <1>3, <2>1
<1> QED BY <1>2, <1>3

LEMMA KeptBare ==
    ASSUME NEW n, n \in Machine, NEW c, NEW p, NEW reg, NEW flag, NEW ram, NEW g, NEW h
    PROVE  Bare(Kept(n, c, p, reg, flag, ram, g)) = Bare(Kept(n, c, p, reg, flag, ram, h))
BY DEF Bare, Kept, Machine

LEMMA KeptOutcome ==
    ASSUME NEW n, n \in Machine, NEW c \in Nat, NEW p \in Word, NEW reg \in Registers8, NEW flag \in Flags,
           NEW ram \in Memory, NEW g \in Log, NEW h \in Log, NEW t, t \notin Popping, t \notin Pushing,
           NEW d \in Nat, d <= c, SkewOf(t) = d, Stamped(g, n.cycles), Stamped(h, n.cycles + d),
           Trace(h) = Trace(g), NEW l2, l2 = Kept(n, c, p, reg, flag, ram, g),
           NEW e2, e2 = Kept(n, c, p, reg, flag, ram, h)
    PROVE  Outcome(n, t, l2, e2) /\ l2.pc = p
<1>1. l2 \in Machine /\ l2.log = g /\ l2.cycles = n.cycles + c /\ l2.lowFirst = n.lowFirst /\ l2.pc = p
  BY ONLY n \in Machine, c \in Nat, p \in Word, reg \in Registers8, flag \in Flags, ram \in Memory, g \in Log,
          l2 = Kept(n, c, p, reg, flag, ram, g), KeptIs
<1>2. e2 \in Machine /\ e2.log = h
  BY ONLY n \in Machine, c \in Nat, p \in Word, reg \in Registers8, flag \in Flags, ram \in Memory, h \in Log,
          e2 = Kept(n, c, p, reg, flag, ram, h), KeptIs
<1>3. Bare(l2) = Bare(e2)
  BY KeptBare
<1> DEFINE a == n.cycles
           b == n.cycles + d
<1>4. /\ a \in Int /\ b \in Int /\ Stamped(l2.log, a) /\ Stamped(e2.log, b) /\ b - a = SkewOf(t)
      /\ n.cycles \in Int /\ l2.cycles \in Int
      /\ n.cycles <= a /\ a <= l2.cycles /\ n.cycles <= b /\ b <= l2.cycles
  <2>1. n.cycles \in Nat
    BY DEF Machine
  <2> QED BY <1>1, <1>2, <2>1
<1>5. Timely(n, t, l2, e2)
  <2> HIDE DEF a, b
  <2> QED BY ONLY <1>4, TimelyIs
<1>6. Ordered(t, n.lowFirst, Trace(l2.log), Trace(e2.log))
  BY <1>1, <1>2 DEF Ordered
<1> QED BY <1>1, <1>2, <1>3, <1>5, <1>6 DEF Outcome

\* The operand that counts is the last one.
LEMMA LastByte ==
    ASSUME NEW n, NEW i, NEW r \in Reg8, i.operands # <<>>, i.operands[Len(i.operands)] = r
    PROVE  L!AfterOperand(n, i) = n /\ L!Operand(n, i) = n.reg[r] /\ \A x, v : L!Back(x, i, v) = E!set_reg8(x, r, v)
<1>1. r # "(HL)"
  BY DEF Reg8
<1>2. ~L!UsesMemory(i)
  BY <1>1 DEF L!UsesMemory
<1> QED BY <1>1, <1>2 DEF L!AfterOperand, L!Operand, L!Back, L!set, E!set_reg8

LEMMA LastCell ==
    ASSUME NEW n, Good(n), NEW i, i.operands # <<>>, i.operands[Len(i.operands)] = "(HL)"
    PROVE  LET hl == E!get_hl(n)
           IN  /\ hl \in Word /\ E!read_ram(n, hl) \in Byte
               /\ L!AfterOperand(n, i) = E!AfterRead(n, hl) /\ L!Operand(n, i) = E!read_ram(n, hl)
               /\ \A x, v : x.reg = n.reg => L!Back(x, i, v) = E!write_ram(x, hl, v) /\ E!get_hl(x) = hl
<1> DEFINE hl == E!get_hl(n)
<1>1. L!HL(n) = hl /\ hl \in Word
  BY SamePair DEF Pair
<1>2. L!UsesMemory(i)
  BY DEF L!UsesMemory
<1>3. L!AfterOperand(n, i) = E!AfterRead(n, hl) /\ L!Operand(n, i) = E!read_ram(n, hl)
  <2>1. L!AfterRead(n, hl) = E!AfterRead(n, hl)
    BY <1>1, SameBus
  <2>2. L!readMemory(n, hl) = E!read_ram(n, hl)
    BY <1>1, SameRead
  <2>3. L!AfterOperand(n, i) = L!AfterRead(n, L!HL(n))
    BY <1>2 DEF L!AfterOperand
  <2>4. L!Operand(n, i) = L!readMemory(n, L!HL(n))
    BY <1>2 DEF L!Operand
  <2> HIDE DEF hl
  <2> QED BY <1>1, <2>1, <2>2, <2>3, <2>4
<1>4. E!read_ram(n, hl) \in Byte
  BY <1>1, ReadType
<1>5. ASSUME NEW x, NEW v, x.reg = n.reg PROVE L!Back(x, i, v) = E!write_ram(x, hl, v) /\ E!get_hl(x) = hl
  <2>1. E!get_hl(x) = hl
    BY <1>5 DEF E!get_hl
  <2>2. L!HL(x) = L!HL(n)
    BY <1>5 DEF L!HL, L!readReg16
  <2>3. L!Back(x, i, v) = L!write_ram(x, hl, v)
    BY <1>1, <1>2, <2>2 DEF L!Back, L!updateMemory
  <2> QED BY <1>1, <2>1, <2>3, SameBus
<1> QED BY <1>1, <1>3, <1>4, <1>5

\* An instruction of compiled code for cb, as CbInstruction and CbKinds describe it.
CbCase(i, cb) ==
    /\ i.len = 2 /\ i.cycles = E!cb_cycles(cb)
    /\ i.operands # <<>> /\ i.operands[Len(i.operands)] = E!get_reg8(cb)
    /\ cb < 64 => /\ i.type \in (IF cb % 8 = 6 THEN ShiftCells ELSE ShiftBytes)
                  /\ L!bitwiseOpFromInstrType(i.type) = ShiftOps[1 + cb \div 8]
    /\ ~(cb < 64) => /\ i.type \in (IF cb % 8 = 6 THEN BitCells ELSE BitBytes)
                     /\ i.operands[1] = (cb \div 8) % 8
                     /\ L!bitOpFromInstrType(i.type) = IF cb < 128 THEN "Test" ELSE IF cb < 192 THEN "Reset" ELSE "Set"

\* Every code past 255 has such an instruction.
LEMMA CbCases ==
    ASSUME NEW st, st.code \in Codes, st.code >= 256
    PROVE  CbCase(Instruction(st), st.code - 256) /\ Instruction(st).type = Type(st.code) /\ st.code - 256 \in 0..255
<1> DEFINE i == Instruction(st)
           cb == st.code - 256
           r == E!get_reg8(cb)
<1>1. /\ cb \in 0..255 /\ i.type = Type(st.code) /\ i.len = 2 /\ i.cycles = E!cb_cycles(cb)
      /\ cb < 64 => i.operands = <<r>>
      /\ cb >= 64 => i.operands = <<(cb \div 8) % 8, r>>
  BY CbInstruction
<1>2. /\ cb < 64 => /\ i.type \in (IF cb % 8 = 6 THEN ShiftCells ELSE ShiftBytes)
                    /\ L!bitwiseOpFromInstrType(i.type) = ShiftOps[1 + cb \div 8]
      /\ cb >= 64 => /\ i.type \in (IF cb % 8 = 6 THEN BitCells ELSE BitBytes)
                     /\ L!bitOpFromInstrType(i.type)
                           = IF cb < 128 THEN "Test" ELSE IF cb < 192 THEN "Reset" ELSE "Set"
  BY CbKinds
<1> HIDE DEF i, cb, r
<1>3. (cb < 64 \/ cb >= 64) /\ (~(cb < 64) <=> cb >= 64)
  BY <1>1
<1>4. i.operands # <<>> /\ i.operands[Len(i.operands)] = r
  <2>1. \A k : <<k, r>> # <<>> /\ <<k, r>>[Len(<<k, r>>)] = r
    OBVIOUS
  <2>2. <<r>> # <<>> /\ <<r>>[Len(<<r>>)] = r
    OBVIOUS
  <2> DEFINE k == (cb \div 8) % 8
  <2>3. i.operands = <<r>> \/ i.operands = <<k, r>>
    BY <1>1, <1>3
  <2> HIDE DEF k
  <2> QED BY <2>1, <2>2, <2>3
<1>5. cb >= 64 => i.operands[1] = (cb \div 8) % 8
  BY <1>1
<1> QED BY <1>1, <1>2, <1>3, <1>4, <1>5 DEF CbCase, i, cb, r

LEMMA CbCaseTypes ==
    ASSUME NEW i, NEW cb \in 0..255, CbCase(i, cb)
    PROVE  /\ i.type \notin L!Terminators /\ i.type \notin Popping /\ i.type \notin Pushing
           /\ SkewOf(i.type) = (IF cb % 8 = 6 THEN 4 ELSE 0)
           /\ E!cb_cycles(cb) = (IF cb % 8 = 6 THEN 4 ELSE 2)
           /\ cb < 64 => i.type \in ShiftBytes \cup ShiftCells
           /\ ~(cb < 64) => i.type \in BitBytes \cup BitCells
<1>1. i.type \in ShiftBytes \cup ShiftCells \cup BitBytes \cup BitCells
  BY DEF CbCase
<1>2. cb % 8 = 6 => i.type \in CbOnMemory
  BY MemoryGroups DEF CbCase
<1>3. cb % 8 # 6 => i.type \notin CbOnMemory
  BY MemoryGroups DEF CbCase
<1>4. i.type \notin L!Terminators
  BY <1>1, EmitCb
<1>5. E!cb_cycles(cb) = (IF cb % 8 = 6 THEN 4 ELSE 2)
  BY DEF E!cb_cycles
<1> QED BY <1>1, <1>2, <1>3, <1>4, <1>5, MemoryGroups DEF CbCase

\* Every CB instruction on a register.
LEMMA CbByteOutcome ==
    ASSUME NEW n, NEW cb, CbFetched(n, cb), Quiet(n), cb % 8 # 6, NEW i, CbCase(i, cb)
    PROVE  Outcome(n, i.type, L!Run(n, i), E!Run(n)) /\ L!Run(n, i).pc = n.pc + 2
<1> DEFINE r == E!get_reg8(cb)
           k == E!Carry(n)
           v == n.reg[r]
           b == ByteMade(cb, v, k)
           f == FlagsMade(cb, v, n.flag, k)
           q == IF ~(cb < 64) /\ cb < 128 THEN n.reg ELSE OneSet(n.reg, r, b)
           c == E!cb_cycles(cb)
<1>0. cb \in 0..255
  BY DEF CbFetched
<1>1. /\ Good(n) /\ n \in Machine /\ n.pc \in Word /\ n.pc + 1 \in Word /\ n.pc + 2 \in Word
      /\ Past(n) = Kept(n, 0, n.pc + 1, n.reg, n.flag, n.ram, n.log)
      /\ n = Kept(n, 0, n.pc, n.reg, n.flag, n.ram, n.log)
  BY CbStart
<1>2. r \in Reg8 /\ r # "(HL)"
  BY <1>0, ByteNames DEF Reg8
<1>3. /\ i.len = 2 /\ i.cycles = c /\ c = 2 /\ i.operands # <<>> /\ i.operands[Len(i.operands)] = r
      /\ i.type \notin L!Terminators /\ i.type \notin Popping /\ i.type \notin Pushing /\ SkewOf(i.type) = 0
  BY <1>0, CbCaseTypes DEF CbCase
<1>4. v \in Byte /\ n.flag \in Flags /\ n.reg \in Registers8 /\ n.ram \in Memory /\ n.log \in Log /\ k \in {0, 1}
  BY <1>1, <1>2, GoodFields DEF E!Carry
<1>5. b \in Byte /\ f \in Flags
  <2> HIDE DEF v, k
  <2> QED BY <1>0, <1>4, MadeTypes
<1>6. q \in Registers8
  <2> HIDE DEF b
  <2> QED BY <1>2, <1>4, <1>5 DEF OneSet, Registers8
<1>7. cb >= 128 => f = n.flag
  <2>1. cb >= 128 => ~(cb < 64) /\ ~(cb < 128)
    BY <1>0
  <2> HIDE DEF v, k
  <2> QED BY <2>1 DEF FlagsMade
<1> HIDE DEF r, k, v, b, f, c
<1>8. L!emitInstruction(n, i) = Kept(n, 0, n.pc, q, f, n.ram, n.log)
  <2>1. L!AfterOperand(n, i) = n /\ L!Operand(n, i) = v /\ \A x, u : L!Back(x, i, u) = E!set_reg8(x, r, u)
    <3>1. r \in Reg8 /\ i.operands # <<>> /\ i.operands[Len(i.operands)] = r
      BY <1>2, <1>3
    <3>2. L!AfterOperand(n, i) = n /\ L!Operand(n, i) = n.reg[r] /\ \A x, u : L!Back(x, i, u) = E!set_reg8(x, r, u)
      BY ONLY <3>1, LastByte
    <3> QED BY <3>2 DEF v
  <2>2. \A u : L!Back(n, i, u) = Kept(n, 0, n.pc, OneSet(n.reg, r, u), n.flag, n.ram, n.log)
    BY <1>1, <2>1, KeptReg
  <2>3. \A u : L!Back(n, i, u).flag = n.flag
    BY <1>1, <2>1 DEF E!set_reg8, Machine
  <2>4. /\ cb < 64 => i.type \in ShiftBytes \cup ShiftCells /\ L!bitwiseOpFromInstrType(i.type) = ShiftOps[1 + cb \div 8]
        /\ ~(cb < 64) => /\ i.type \in BitBytes \cup BitCells /\ i.operands[1] = (cb \div 8) % 8
                         /\ L!bitOpFromInstrType(i.type) = IF cb < 128 THEN "Test" ELSE IF cb < 192 THEN "Reset" ELSE "Set"
    BY <1>0, CbCaseTypes DEF CbCase
  <2>5. /\ cb < 64 => L!emitInstruction(n, i) = WithFlag(L!Back(n, i, b), f)
        /\ ~(cb < 64) /\ cb < 128 => L!emitInstruction(n, i) = WithFlag(n, f)
        /\ ~(cb < 128) => L!emitInstruction(n, i) = L!Back(n, i, b)
    <3>1. CbReady(n, i, cb, n, v)
      BY <1>0, <1>1, <1>3, <1>4, <2>1, <2>3, <2>4 DEF CbReady
    <3>2. LET b2 == ByteMade(cb, v, E!Carry(n))
              f2 == FlagsMade(cb, v, n.flag, E!Carry(n))
          IN  /\ cb < 64 => L!emitInstruction(n, i) = WithFlag(L!Back(n, i, b2), f2)
              /\ ~(cb < 64) /\ cb < 128 => L!emitInstruction(n, i) = WithFlag(n, f2)
              /\ ~(cb < 128) => L!emitInstruction(n, i) = L!Back(n, i, b2)
      BY ONLY <3>1, CbEmitted
    <3> QED BY ONLY <3>2 DEF b, f, k
  <2>6. CASE cb < 64
    BY <1>1, <2>2, <2>5, <2>6, KeptFlag
  <2>7. CASE ~(cb < 64) /\ cb < 128
    BY <1>1, <2>5, <2>7, KeptFlag
  <2>8. CASE ~(cb < 128)
    <3>1. cb >= 128 /\ ~(~(cb < 64) /\ cb < 128)
      BY <1>0, <2>8
    <3> QED BY <1>7, <2>2, <2>5, <2>8, <3>1
  <2> QED BY <2>6, <2>7, <2>8
<1>9. E!cb_exec_at(Past(n), cb) = Kept(n, c, n.pc + 1, q, f, n.ram, n.log)
  <2> DEFINE x == E!spend(Past(n), c)
  <2>1. x = Kept(n, c, n.pc + 1, n.reg, n.flag, n.ram, n.log)
    <3>1. E!spend(Kept(n, 0, n.pc + 1, n.reg, n.flag, n.ram, n.log), c) = Kept(n, 0 + c, n.pc + 1, n.reg, n.flag, n.ram, n.log)
      BY <1>1, <1>3, KeptSpend
    <3> QED BY <1>1, <1>3, <3>1
  <2>2. x.reg = n.reg /\ x.flag = n.flag
    <3> HIDE DEF x
    <3> QED BY <1>1, <1>3, <1>4, <2>1, KeptIs
  <2>3. E!Carry(x) = k /\ x.reg[r] = v
    BY <2>2 DEF E!Carry, k, v
  <2>4. /\ cb < 64 => E!cb_exec_at(Past(n), cb) = E!set_reg8(WithFlag(x, f), r, b)
        /\ ~(cb < 64) /\ cb < 128 => E!cb_exec_at(Past(n), cb) = WithFlag(x, f)
        /\ ~(cb < 128) => E!cb_exec_at(Past(n), cb) = E!set_reg8(x, r, b)
    BY <1>0, <1>2, <2>2, <2>3, CbOnByte DEF r, b, f, c
  <2> HIDE DEF x
  <2>5. WithFlag(x, f) = Kept(n, c, n.pc + 1, n.reg, f, n.ram, n.log)
    BY <1>1, <2>1, KeptFlag
  <2>6. CASE cb < 64
    BY <1>1, <2>4, <2>5, <2>6, KeptReg
  <2>7. CASE ~(cb < 64) /\ cb < 128
    BY <1>1, <2>4, <2>5, <2>7
  <2>8. CASE ~(cb < 128)
    <3>1. cb >= 128 /\ ~(~(cb < 64) /\ cb < 128)
      BY <1>0, <2>8
    <3> QED BY <1>1, <1>7, <2>1, <2>4, <2>8, <3>1, KeptReg
  <2> QED BY <2>6, <2>7, <2>8
<1> HIDE DEF q
<1>10. /\ L!Run(n, i) = Kept(n, c, n.pc + 2, q, f, n.ram, n.log)
       /\ E!Run(n) = Kept(n, c, n.pc + 2, q, f, n.ram, n.log)
  <2>1. c \in Nat /\ i.len = 2 /\ i.cycles = c /\ i.type \notin L!Terminators /\ CbFetched(n, cb)
    BY <1>3
  <2> QED BY ONLY <2>1, <1>8, <1>9, CbFinish
<1>11. Stamped(n.log, n.cycles) /\ Stamped(n.log, n.cycles + 0)
  BY <1>1 DEF Good, Machine
<1>12. c \in Nat /\ 0 \in Nat /\ 0 <= c
  BY <1>3
<1> DEFINE p == n.pc + 2
           t == i.type
           g == n.log
           s == n.ram
<1>13. /\ n \in Machine /\ c \in Nat /\ p \in Word /\ q \in Registers8 /\ f \in Flags /\ s \in Memory /\ g \in Log
       /\ t \notin Popping /\ t \notin Pushing /\ SkewOf(t) = 0
       /\ L!Run(n, i) = Kept(n, c, p, q, f, s, g) /\ E!Run(n) = Kept(n, c, p, q, f, s, g)
  BY <1>1, <1>3, <1>4, <1>5, <1>6, <1>10, <1>12
<1> HIDE DEF p, t, s
<1>14. Outcome(n, t, L!Run(n, i), E!Run(n)) /\ L!Run(n, i).pc = p
  <2> DEFINE d == 0
  <2>1. d \in Nat /\ d <= c /\ SkewOf(t) = d /\ Stamped(g, n.cycles) /\ Stamped(g, n.cycles + d) /\ Trace(g) = Trace(g)
    BY <1>11, <1>12, <1>13
  <2> HIDE DEF d, g
  <2> QED BY ONLY <1>13, <2>1, KeptOutcome
<1> QED BY <1>14 DEF p, t

-----------------------------------------------------------------------------
(* CB instructions on memory *)

\* What a CB instruction on memory notes, with the time t of its accesses.
CellLog(cb, a, v, b, t) ==
    IF ~(cb < 64) /\ cb < 128 THEN Noted(<<>>, "read", a, v, t)
    ELSE Noted(Noted(<<>>, "read", a, v, t), "write", a, b, t)
CellRam(cb, ram, a, b) == IF ~(cb < 64) /\ cb < 128 THEN ram ELSE Put(ram, a, b)

LEMMA OneTrace ==
    ASSUME NEW o, NEW a, NEW v, NEW t
    PROVE  LET g == Noted(<<>>, o, a, v, t)
           IN  Trace(g) = (IF E!IsRegister(a) THEN <<Seen(o, a, v)>> ELSE <<>>) /\ Stamped(g, t)
<1> DEFINE g == Noted(<<>>, o, a, v, t)
           x == [op |-> o, addr |-> a, val |-> v, at |-> t]
<1>1. CASE E!IsRegister(a)
  <2>1. g = Append(<<>>, x)
    BY <1>1 DEF Noted
  <2>2. g = <<x>>
    <3> HIDE DEF x, g
    <3> QED BY <2>1
  <2> QED BY <1>1, <2>2, OneSeen
<1>2. CASE ~E!IsRegister(a)
  <2>1. g = <<>>
    BY <1>2 DEF Noted
  <2> HIDE DEF g
  <2>2. Trace(g) = <<>> /\ Stamped(g, t)
    BY <2>1 DEF Trace, Stamped
  <2> QED BY <1>2, <2>2 DEF g
<1> QED BY <1>1, <1>2

\* The interpreter's accesses are the same, later by the cycles it has added.
LEMMA CellLogs ==
    ASSUME NEW cb, NEW a \in Word, NEW v \in Byte, NEW b \in Byte, NEW t \in Nat, NEW t2 \in Nat
    PROVE  /\ CellLog(cb, a, v, b, t) \in Log /\ CellLog(cb, a, v, b, t2) \in Log
           /\ Stamped(CellLog(cb, a, v, b, t), t)
           /\ Trace(CellLog(cb, a, v, b, t2)) = Trace(CellLog(cb, a, v, b, t))
<1>0. <<>> \in Log
  BY DEF Log
<1>1. \A u \in Nat : Noted(<<>>, "read", a, v, u) \in Log
  BY <1>0, NotedType
<1>2. \A u \in Nat : Noted(Noted(<<>>, "read", a, v, u), "write", a, b, u) \in Log
  BY <1>1, NotedType
<1>3. \A u : /\ Trace(Noted(<<>>, "read", a, v, u)) = (IF E!IsRegister(a) THEN <<Seen("read", a, v)>> ELSE <<>>)
             /\ Stamped(Noted(<<>>, "read", a, v, u), u)
  BY OneTrace
<1>4. \A u : /\ Trace(Noted(Noted(<<>>, "read", a, v, u), "write", a, b, u)) = TraceOfTwo("read", a, v, "write", a, b)
             /\ Stamped(Noted(Noted(<<>>, "read", a, v, u), "write", a, b, u), u)
  BY TraceIs
<1>5. CASE ~(cb < 64) /\ cb < 128
  BY <1>1, <1>3, <1>5 DEF CellLog
<1>6. CASE ~(~(cb < 64) /\ cb < 128)
  BY <1>2, <1>4, <1>6 DEF CellLog
<1> QED BY <1>5, <1>6

\* The read and the write, in a machine that is n but for its address and its cycles.
LEMMA CellSteps ==
    ASSUME NEW n, n \in Machine, Quiet(n), NEW c \in Nat, NEW p \in Word, NEW a \in Word, a = E!get_hl(n),
           NEW v, v = E!read_ram(n, a), v \in Byte, NEW b \in Byte, NEW f \in Flags,
           NEW x0, x0 = Kept(n, c, p, n.reg, n.flag, n.ram, n.log)
    PROVE  LET x == E!AfterRead(x0, a)
               g == Noted(<<>>, "read", a, v, n.cycles + c)
               h == Noted(g, "write", a, b, n.cycles + c)
           IN  /\ E!read_ram(x0, a) = v /\ E!get_hl(x0) = a
               /\ x = Kept(n, c, p, n.reg, n.flag, n.ram, g) /\ x.reg = n.reg /\ x.flag = n.flag
               /\ WithFlag(x, f) = Kept(n, c, p, n.reg, f, n.ram, g) /\ WithFlag(x, f).reg = n.reg
               /\ E!write_ram(x, a, b) = Kept(n, c, p, n.reg, n.flag, Put(n.ram, a, b), h)
               /\ E!write_ram(WithFlag(x, f), a, b) = Kept(n, c, p, n.reg, f, Put(n.ram, a, b), h)
               /\ WithFlag(E!write_ram(x, a, b), f) = Kept(n, c, p, n.reg, f, Put(n.ram, a, b), h)
               /\ \A u \in Byte : E!write_ram(x, a, u).flag = n.flag
<1> DEFINE x == E!AfterRead(x0, a)
           t == n.cycles + c
           g == Noted(<<>>, "read", a, v, t)
           h == Noted(g, "write", a, b, t)
<1>1. n.reg \in Registers8 /\ n.flag \in Flags /\ n.ram \in Memory /\ n.log = <<>> /\ n.log \in Log /\ t \in Nat
  BY DEF Machine, Quiet
<1>2. g \in Log
  <2> HIDE DEF t
  <2> QED BY <1>1, NotedType
<1>3. x0.reg = n.reg
  BY <1>1, KeptIs
<1>4. E!read_ram(x0, a) = v /\ E!get_hl(x0) = a
  <2>1. E!read_ram(x0, a) = v
    BY <1>1, KeptRead
  <2> QED BY <1>3, <2>1 DEF E!get_hl
<1>5. x = Kept(n, c, p, n.reg, n.flag, n.ram, g)
  BY <1>1, KeptRead
<1> HIDE DEF x, g
<1>6. x.reg = n.reg /\ x.flag = n.flag
  BY <1>1, <1>2, <1>5, KeptIs
<1>7. WithFlag(x, f) = Kept(n, c, p, n.reg, f, n.ram, g)
  BY <1>5, KeptFlag
<1>8. WithFlag(x, f).reg = n.reg
  BY <1>1, <1>2, <1>7, KeptIs
<1>9. \A u : /\ E!write_ram(x, a, u) = Kept(n, c, p, n.reg, n.flag, Put(n.ram, a, u), Noted(g, "write", a, u, t))
             /\ E!write_ram(WithFlag(x, f), a, u) = Kept(n, c, p, n.reg, f, Put(n.ram, a, u), Noted(g, "write", a, u, t))
  BY <1>1, <1>2, <1>5, <1>7, KeptWrite
<1>10. WithFlag(E!write_ram(x, a, b), f) = Kept(n, c, p, n.reg, f, Put(n.ram, a, b), h)
  BY <1>9, KeptFlag
<1>11. ASSUME NEW u \in Byte PROVE E!write_ram(x, a, u).flag = n.flag
  <2>1. Put(n.ram, a, u) \in Memory /\ Noted(g, "write", a, u, t) \in Log
    BY <1>1, <1>2, PutType, NotedType
  <2> DEFINE s == Put(n.ram, a, u)
             k == Noted(g, "write", a, u, t)
  <2>2. E!write_ram(x, a, u) = Kept(n, c, p, n.reg, n.flag, s, k)
    BY <1>9
  <2> HIDE DEF s, k
  <2> QED BY <1>1, <2>1, <2>2, KeptIs DEF s, k
<1> QED BY <1>4, <1>5, <1>6, <1>7, <1>8, <1>9, <1>10, <1>11 DEF x, g

\* What both leave of an instruction on (HL).
LEMMA CbCellEmitted ==
    ASSUME NEW n, NEW cb, CbFetched(n, cb), Quiet(n), cb % 8 = 6, NEW i, CbCase(i, cb),
           NEW a, a = E!get_hl(n), NEW v, v = E!read_ram(n, a), NEW b, b = ByteMade(cb, v, E!Carry(n)),
           NEW f, f = FlagsMade(cb, v, n.flag, E!Carry(n))
    PROVE  /\ a \in Word /\ v \in Byte /\ b \in Byte /\ f \in Flags
           /\ L!emitInstruction(n, i) = Kept(n, 0, n.pc, n.reg, f, CellRam(cb, n.ram, a, b), CellLog(cb, a, v, b, n.cycles))
           /\ E!cb_exec_at(Past(n), cb) =
                  Kept(n, 4, n.pc + 1, n.reg, f, CellRam(cb, n.ram, a, b), CellLog(cb, a, v, b, n.cycles + 4))
<1> DEFINE k == E!Carry(n)
<1>0. cb \in 0..255
  BY DEF CbFetched
<1>1. /\ Good(n) /\ n \in Machine /\ n.pc \in Word /\ n.pc + 1 \in Word
      /\ Past(n) = Kept(n, 0, n.pc + 1, n.reg, n.flag, n.ram, n.log)
      /\ n = Kept(n, 0, n.pc, n.reg, n.flag, n.ram, n.log)
  BY CbStart
<1>2. E!get_reg8(cb) = "(HL)"
  BY <1>0, ByteNames
<1>3. i.len = 2 /\ i.operands # <<>> /\ i.operands[Len(i.operands)] = "(HL)" /\ E!cb_cycles(cb) = 4
  BY <1>0, <1>2, CbCaseTypes DEF CbCase
<1>4. n.flag \in Flags /\ k \in {0, 1} /\ n.cycles + 0 = n.cycles
  BY <1>1, GoodFields DEF E!Carry
<1>5. /\ a \in Word /\ v \in Byte /\ L!AfterOperand(n, i) = E!AfterRead(n, a) /\ L!Operand(n, i) = v
      /\ \A x, u : x.reg = n.reg => L!Back(x, i, u) = E!write_ram(x, a, u) /\ E!get_hl(x) = a
  BY <1>1, <1>3, LastCell
<1>6. b \in Byte /\ f \in Flags
  <2> HIDE DEF k
  <2> QED BY <1>0, <1>4, <1>5, MadeTypes DEF k
<1>7. cb >= 128 => f = n.flag
  <2>1. cb >= 128 => ~(cb < 64) /\ ~(cb < 128)
    BY <1>0
  <2> HIDE DEF k
  <2> QED BY <2>1 DEF FlagsMade
<1>8. L!emitInstruction(n, i) = Kept(n, 0, n.pc, n.reg, f, CellRam(cb, n.ram, a, b), CellLog(cb, a, v, b, n.cycles))
  <2> DEFINE x == E!AfterRead(n, a)
             c == 0
             g == Noted(<<>>, "read", a, v, n.cycles + c)
             h == Noted(g, "write", a, b, n.cycles + c)
             p == n.pc
             s == Put(n.ram, a, b)
  <2>1. /\ x = Kept(n, c, p, n.reg, n.flag, n.ram, g) /\ x.reg = n.reg /\ x.flag = n.flag
        /\ WithFlag(x, f) = Kept(n, c, p, n.reg, f, n.ram, g)
        /\ E!write_ram(x, a, b) = Kept(n, c, p, n.reg, n.flag, s, h)
        /\ WithFlag(E!write_ram(x, a, b), f) = Kept(n, c, p, n.reg, f, s, h)
    <3>1. c \in Nat /\ p \in Word /\ n = Kept(n, c, p, n.reg, n.flag, n.ram, n.log)
      BY <1>1
    <3> HIDE DEF c, p
    <3> QED BY <1>1, <1>5, <1>6, <3>1, CellSteps
  <2>2. \A u : L!Back(x, i, u).flag = x.flag
    <3>1. \A u : L!Back(x, i, u) = E!write_ram(x, a, u)
      BY <1>5, <2>1
    <3>2. ASSUME NEW u PROVE E!write_ram(x, a, u).flag = x.flag
      <4>1. Good(x)
        BY <1>1, <1>5, ReadKeeps DEF From
      <4> HIDE DEF x
      <4> QED BY <4>1, <1>5, AccessKeeps DEF SameCpu
    <3> QED BY <3>1, <3>2
  <2>3. /\ cb < 64 => i.type \in ShiftBytes \cup ShiftCells /\ L!bitwiseOpFromInstrType(i.type) = ShiftOps[1 + cb \div 8]
        /\ ~(cb < 64) => /\ i.type \in BitBytes \cup BitCells /\ i.operands[1] = (cb \div 8) % 8
                         /\ L!bitOpFromInstrType(i.type) = IF cb < 128 THEN "Test" ELSE IF cb < 192 THEN "Reset" ELSE "Set"
    BY <1>0, CbCaseTypes DEF CbCase
  <2>4. Good(n) /\ cb \in 0..255 /\ i.len = 2 /\ L!AfterOperand(n, i) = x /\ x.flag = n.flag /\ v \in Byte /\ L!Operand(n, i) = v
    BY <1>0, <1>1, <1>3, <1>5, <2>1
  <2>5. L!Back(x, i, b) = E!write_ram(x, a, b)
    BY <1>5, <2>1
  <2> HIDE DEF x, g, h, c, p, s
  <2>6. /\ cb < 64 => L!emitInstruction(n, i) = WithFlag(L!Back(x, i, b), f)
        /\ ~(cb < 64) /\ cb < 128 => L!emitInstruction(n, i) = WithFlag(x, f)
        /\ ~(cb < 128) => L!emitInstruction(n, i) = L!Back(x, i, b)
    <3>1. LET b2 == ByteMade(cb, v, E!Carry(n))
              f2 == FlagsMade(cb, v, n.flag, E!Carry(n))
          IN  /\ cb < 64 => L!emitInstruction(n, i) = WithFlag(L!Back(x, i, b2), f2)
              /\ ~(cb < 64) /\ cb < 128 => L!emitInstruction(n, i) = WithFlag(x, f2)
              /\ ~(cb < 128) => L!emitInstruction(n, i) = L!Back(x, i, b2)
      <4>1. CbReady(n, i, cb, x, v)
        BY <2>2, <2>3, <2>4 DEF CbReady
      <4> QED BY ONLY <4>1, CbEmitted
    <3> QED BY ONLY <3>1, b = ByteMade(cb, v, E!Carry(n)), f = FlagsMade(cb, v, n.flag, E!Carry(n))
  <2>7. cb < 64 => cb < 128
    BY <1>0
  <2>8. CASE ~(cb < 64) /\ cb < 128
    <3>1. CellRam(cb, n.ram, a, b) = n.ram /\ CellLog(cb, a, v, b, n.cycles) = Noted(<<>>, "read", a, v, n.cycles)
      BY <2>8 DEF CellRam, CellLog
    <3> QED BY <1>4, <2>1, <2>6, <2>8, <3>1 DEF g, c, p
  <2>9. CASE ~(~(cb < 64) /\ cb < 128)
    <3>1. CellRam(cb, n.ram, a, b) = s /\ CellLog(cb, a, v, b, n.cycles) = Noted(Noted(<<>>, "read", a, v, n.cycles), "write", a, b, n.cycles)
      BY <2>9 DEF CellRam, CellLog, s
    <3>2. h = CellLog(cb, a, v, b, n.cycles)
      BY <3>1, <1>4 DEF h, g, c
    <3>3. cb < 64 => L!emitInstruction(n, i) = Kept(n, c, p, n.reg, f, s, h)
      BY <2>1, <2>5, <2>6
    <3>4. ~(cb < 64) => L!emitInstruction(n, i) = Kept(n, c, p, n.reg, f, s, h)
      <4>1. ~(cb < 64) => ~(cb < 128) /\ cb >= 128
        BY <2>9, <1>0
      <4> QED BY <1>7, <2>1, <2>5, <2>6, <4>1
    <3> QED BY <3>1, <3>2, <3>3, <3>4 DEF c, p
  <2> QED BY <2>8, <2>9
<1>9. E!cb_exec_at(Past(n), cb) =
          Kept(n, 4, n.pc + 1, n.reg, f, CellRam(cb, n.ram, a, b), CellLog(cb, a, v, b, n.cycles + 4))
  <2> DEFINE c == 4
             p == n.pc + 1
             x0 == E!spend(Past(n), E!cb_cycles(cb))
             x == E!AfterRead(x0, a)
             g == Noted(<<>>, "read", a, v, n.cycles + c)
             h == Noted(g, "write", a, b, n.cycles + c)
             s == Put(n.ram, a, b)
  <2>0. c \in Nat /\ p \in Word
    BY <1>1
  <2>1. x0 = Kept(n, c, p, n.reg, n.flag, n.ram, n.log)
    <3>1. E!spend(Kept(n, 0, p, n.reg, n.flag, n.ram, n.log), 4) = Kept(n, 0 + 4, p, n.reg, n.flag, n.ram, n.log)
      BY <1>1, KeptSpend
    <3> QED BY <1>1, <1>3, <3>1
  <2> HIDE DEF x0, c, p
  <2>2. /\ E!read_ram(x0, a) = v /\ E!get_hl(x0) = a
        /\ x = Kept(n, c, p, n.reg, n.flag, n.ram, g) /\ x.reg = n.reg /\ x.flag = n.flag
        /\ WithFlag(x, f) = Kept(n, c, p, n.reg, f, n.ram, g) /\ WithFlag(x, f).reg = n.reg
        /\ E!write_ram(x, a, b) = Kept(n, c, p, n.reg, n.flag, s, h)
        /\ E!write_ram(WithFlag(x, f), a, b) = Kept(n, c, p, n.reg, f, s, h)
    BY <1>1, <1>5, <1>6, <2>0, <2>1, CellSteps
  <2>3. E!Carry(x) = E!Carry(n) /\ E!get_hl(x) = a /\ E!get_hl(WithFlag(x, f)) = a
    BY <2>2, <1>5 DEF E!Carry
  <2>4. /\ cb < 64 => E!cb_exec_at(Past(n), cb) = E!write_ram(WithFlag(x, f), a, b)
        /\ ~(cb < 64) /\ cb < 128 => E!cb_exec_at(Past(n), cb) = WithFlag(x, f)
        /\ ~(cb < 128) => E!cb_exec_at(Past(n), cb) = E!write_ram(x, a, b)
    <3> DEFINE v3 == E!read_ram(x0, E!get_hl(x0))
               x3 == E!AfterRead(x0, E!get_hl(x0))
               b3 == ByteMade(cb, v3, E!Carry(x3))
               f3 == FlagsMade(cb, v3, x3.flag, E!Carry(x3))
    <3>1. /\ cb < 64 => E!cb_exec_at(Past(n), cb) = E!write_ram(WithFlag(x3, f3), E!get_hl(WithFlag(x3, f3)), b3)
          /\ ~(cb < 64) /\ cb < 128 => E!cb_exec_at(Past(n), cb) = WithFlag(x3, f3)
          /\ ~(cb < 128) => E!cb_exec_at(Past(n), cb) = E!write_ram(x3, E!get_hl(x3), b3)
      BY <1>0, <1>2, CbOnCell DEF x0
    <3>2. v3 = v /\ x3 = x
      BY <2>2
    <3> HIDE DEF x3, v3, x
    <3>3. b3 = b /\ f3 = f
      BY <2>2, <2>3, <3>2
    <3> HIDE DEF b3, f3
    <3> QED BY <2>3, <3>1, <3>2, <3>3
  <2>7. CellLog(cb, a, v, b, n.cycles + 4) = IF ~(cb < 64) /\ cb < 128 THEN g ELSE h
    BY DEF CellLog, c
  <2>8. CellRam(cb, n.ram, a, b) = IF ~(cb < 64) /\ cb < 128 THEN n.ram ELSE s
    BY DEF CellRam
  <2> HIDE DEF x, g, h, s
  <2>9. E!cb_exec_at(Past(n), cb) = Kept(n, c, p, n.reg, f, CellRam(cb, n.ram, a, b), CellLog(cb, a, v, b, n.cycles + 4))
    <3>1. CASE cb < 64
      BY <2>2, <2>4, <2>7, <2>8, <3>1
    <3>2. CASE ~(cb < 64) /\ cb < 128
      BY <2>2, <2>4, <2>7, <2>8, <3>2
    <3>3. CASE ~(cb < 64) /\ ~(cb < 128)
      BY <1>0, <1>7, <2>2, <2>4, <2>7, <2>8, <3>3
    <3> QED BY <3>1, <3>2, <3>3
  <2> QED BY <2>9 DEF c, p
<1> QED BY <1>5, <1>6, <1>8, <1>9

\* Every CB instruction on (HL).
LEMMA CbCellOutcome ==
    ASSUME NEW n, NEW cb, CbFetched(n, cb), Quiet(n), cb % 8 = 6, NEW i, CbCase(i, cb)
    PROVE  Outcome(n, i.type, L!Run(n, i), E!Run(n)) /\ L!Run(n, i).pc = n.pc + 2
<1> DEFINE a == E!get_hl(n)
           v == E!read_ram(n, a)
           k == E!Carry(n)
           b == ByteMade(cb, v, k)
           f == FlagsMade(cb, v, n.flag, k)
           s == CellRam(cb, n.ram, a, b)
           g == CellLog(cb, a, v, b, n.cycles)
           h == CellLog(cb, a, v, b, n.cycles + 4)
           p == n.pc + 2
           q == n.reg
           t == i.type
           c == 4
<1>0. cb \in 0..255
  BY DEF CbFetched
<1>1. n \in Machine /\ p \in Word /\ q \in Registers8 /\ n.ram \in Memory /\ n.cycles \in Nat /\ n.cycles + 4 \in Nat
  BY CbStart DEF Machine
<1>2. /\ a \in Word /\ v \in Byte /\ b \in Byte /\ f \in Flags
      /\ L!emitInstruction(n, i) = Kept(n, 0, n.pc, q, f, s, g)
      /\ E!cb_exec_at(Past(n), cb) = Kept(n, 4, n.pc + 1, q, f, s, h)
  <2> HIDE DEF a, v, b, f
  <2> QED BY CbCellEmitted DEF a, v, b, f
<1>3. /\ i.len = 2 /\ i.cycles = c /\ t \notin L!Terminators /\ t \notin Popping /\ t \notin Pushing /\ SkewOf(t) = 4
  BY <1>0, CbCaseTypes DEF CbCase
<1> HIDE DEF a, v, b, f, q, p
<1>4. s \in Memory
  BY <1>1, <1>2, PutType DEF CellRam
<1>5. /\ g \in Log /\ h \in Log /\ Stamped(g, n.cycles) /\ Stamped(h, n.cycles + 4) /\ Trace(h) = Trace(g)
  <2> DEFINE t1 == n.cycles
             t2 == n.cycles + 4
  <2>1. t1 \in Nat /\ t2 \in Nat
    BY <1>1
  <2> HIDE DEF t1, t2
  <2>2. /\ CellLog(cb, a, v, b, t1) \in Log /\ CellLog(cb, a, v, b, t2) \in Log
        /\ Stamped(CellLog(cb, a, v, b, t1), t1) /\ Stamped(CellLog(cb, a, v, b, t2), t2)
        /\ Trace(CellLog(cb, a, v, b, t2)) = Trace(CellLog(cb, a, v, b, t1))
    BY <1>2, <2>1, CellLogs
  <2> QED BY <2>2 DEF t1, t2
<1> HIDE DEF s, g, h
<1>6. L!Run(n, i) = Kept(n, c, p, q, f, s, g) /\ E!Run(n) = Kept(n, c, p, q, f, s, h)
  <2>1. c \in Nat /\ i.len = 2 /\ i.cycles = c /\ i.type \notin L!Terminators /\ CbFetched(n, cb)
    BY <1>3
  <2>2. L!Run(n, i) = Kept(n, c, n.pc + 2, q, f, s, g) /\ E!Run(n) = Kept(n, c, n.pc + 2, q, f, s, h)
    BY ONLY <2>1, <1>2, CbFinish
  <2> QED BY <2>2 DEF p
<1> HIDE DEF t
<1>7. Outcome(n, t, L!Run(n, i), E!Run(n)) /\ L!Run(n, i).pc = p
  <2> DEFINE d == 4
  <2>1. d \in Nat /\ d <= c /\ SkewOf(t) = d /\ Stamped(g, n.cycles) /\ Stamped(h, n.cycles + d) /\ c \in Nat
    BY <1>3, <1>5
  <2> HIDE DEF d, c
  <2> QED BY ONLY <1>1, <1>2, <1>3, <1>4, <1>5, <1>6, <2>1, KeptOutcome
<1> QED BY <1>7 DEF p, t

\* Every CB instruction.
LEMMA CbOutcome ==
    ASSUME NEW n, NEW st, st.code \in Codes, st.code >= 256, CbFetched(n, st.code - 256), Quiet(n)
    PROVE  LET i == Instruction(st)
           IN  /\ i.type = Type(st.code) /\ Outcome(n, Type(st.code), L!Run(n, i), E!Run(n))
               /\ L!Run(n, i).pc = n.pc + 2
<1> DEFINE i == Instruction(st)
           cb == st.code - 256
<1>1. CbCase(i, cb) /\ i.type = Type(st.code)
  BY CbCases
<1>2. CbFetched(n, cb)
  OBVIOUS
<1> HIDE DEF i, cb
<1> QED BY <1>1, <1>2, CbByteOutcome, CbCellOutcome DEF i

-----------------------------------------------------------------------------
(* One step of a program *)

\* A step that can be loaded.
StepOk(s) ==
    /\ s.code \in Codes /\ s.imm \in Word
    /\ s.code < 256 /\ Instruction(s).len = 2 => s.imm \in Byte
\* Where a program may go on.
Room(n) == n.pc + 2 <= 32767

\* What is at the three addresses.
OpcodeOf(s) == IF s.code >= 256 THEN 203 ELSE s.code
SecondOf(s) == IF s.code >= 256 THEN s.code - 256 ELSE s.imm % 256
ThirdOf(s) == s.imm \div 256
Span(p) == p..(p + 2)
SeenAt(n, s, a) == IF a = n.pc THEN OpcodeOf(s) ELSE IF a = n.pc + 1 THEN SecondOf(s)
                 ELSE IF a = n.pc + 2 THEN ThirdOf(s) ELSE n.ram[a]
LoadedRam(n, s) == [a \in Span(n.pc) \cup DOMAIN n.ram |-> SeenAt(n, s, a)]

\* The bytes of an instruction in the cartridge.
LEMMA StepBytesType ==
    ASSUME NEW s, StepOk(s)
    PROVE  OpcodeOf(s) \in Byte /\ SecondOf(s) \in Byte /\ ThirdOf(s) \in Byte
<1>1. s.code \in 0..511 /\ s.imm \in Int /\ 0 <= s.imm /\ s.imm <= 65535
  BY WordIs, SMTT(30) DEF StepOk, Codes, O!Codes
<1> QED BY <1>1, ByteIs DEF OpcodeOf, SecondOf, ThirdOf

LEMMA SpanIs ==
    ASSUME NEW p, p \in Int, 0 <= p, p + 2 <= 32767
    PROVE  /\ \A a : a \in Span(p) <=> a = p \/ a = p + 1 \/ a = p + 2
           /\ \A a \in Span(p) : a \in B!Array
<1>1. ASSUME NEW a, a \in Span(p) PROVE (a = p \/ a = p + 1 \/ a = p + 2) /\ a \in B!Array
  <2>1. a \in Int /\ p <= a /\ a <= p + 2
    BY <1>1 DEF Span
  <2>2. a \in B!Array
    <3>1. a \in Int /\ 0 <= a /\ a <= 65535
      BY <2>1
    <3> QED BY <3>1 DEF B!Array
  <2>3. a = p \/ a = p + 1 \/ a = p + 2
    BY <2>1
  <2> QED BY <2>2, <2>3
<1>2. p \in Span(p) /\ p + 1 \in Span(p) /\ p + 2 \in Span(p)
  BY DEF Span
<1>3. \A a : a \in Span(p) => a = p \/ a = p + 1 \/ a = p + 2
  BY <1>1
<1>4. \A a : a = p \/ a = p + 1 \/ a = p + 2 => a \in Span(p)
  BY <1>2
<1>5. \A a \in Span(p) : a \in B!Array
  BY <1>1
<1> QED BY <1>3, <1>4, <1>5

\* What Loaded writes, and where.
ImageOf(p, s) ==
    [addr \in p..(p + 2) |->
        CASE addr = p     -> IF s.code >= 256 THEN 203 ELSE s.code
          [] addr = p + 1 -> IF s.code >= 256 THEN s.code - 256 ELSE B!Low(s.imm)
          [] OTHER        -> B!High(s.imm)]
LoadAt(x, p, s) == B!rom_init(x, ImageOf(p, s))

LEMMA LoadedAt ==
    ASSUME NEW n, NEW s
    PROVE  Loaded(n, s) = LoadAt([n EXCEPT !.log = <<>>], n.pc, s)
BY DEF Loaded, LoadAt, ImageOf

LEMMA ImageIs ==
    ASSUME NEW p \in Int, NEW s
    PROVE  /\ DOMAIN ImageOf(p, s) = Span(p)
           /\ \A a \in Span(p) : ImageOf(p, s)[a] = IF a = p THEN OpcodeOf(s) ELSE IF a = p + 1 THEN SecondOf(s)
                                                      ELSE ThirdOf(s)
<1>1. p + 1 # p
  OBVIOUS
<1> QED BY <1>1 DEF ImageOf, OpcodeOf, SecondOf, ThirdOf, B!Low, B!High, Span

\* The array once an image is in it.
RomRam(x, image) ==
    [a \in (DOMAIN image \cap B!Array) \cup DOMAIN x.ram |-> IF a \in DOMAIN image THEN image[a] ELSE x.ram[a]]

LEMMA RomInitIs ==
    ASSUME NEW x, NEW image
    PROVE  B!rom_init(x, image) = [x EXCEPT !.ram = RomRam(x, image)]
BY DEF B!rom_init, RomRam

LEMMA RomRamIs ==
    ASSUME NEW n, NEW s, NEW x, x.ram = n.ram, NEW p, p = n.pc, p \in Int, 0 <= p, p + 2 <= 32767
    PROVE  RomRam(x, ImageOf(p, s)) = LoadedRam(n, s)
<1> DEFINE image == ImageOf(p, s)
<1>1. /\ DOMAIN image = Span(p)
      /\ \A a \in Span(p) : image[a] = IF a = p THEN OpcodeOf(s) ELSE IF a = p + 1 THEN SecondOf(s) ELSE ThirdOf(s)
  BY ImageIs
<1> HIDE DEF image
<1>2. /\ \A a : a \in Span(p) <=> a = p \/ a = p + 1 \/ a = p + 2
      /\ \A a \in Span(p) : a \in B!Array
  BY SpanIs
<1>3. (DOMAIN image \cap B!Array) \cup DOMAIN x.ram = Span(p) \cup DOMAIN n.ram
  BY <1>1, <1>2
<1>4. p + 2 # p /\ p + 2 # p + 1
  OBVIOUS
<1> DEFINE d == Span(p) \cup DOMAIN n.ram
<1>5. DOMAIN RomRam(x, image) = d /\ \A a \in d : RomRam(x, image)[a] = IF a \in DOMAIN image THEN image[a] ELSE n.ram[a]
  BY <1>3 DEF RomRam
<1>6. DOMAIN LoadedRam(n, s) = d /\ \A a \in d : LoadedRam(n, s)[a] = SeenAt(n, s, a)
  BY DEF LoadedRam
<1>7. ASSUME NEW a PROVE (IF a \in DOMAIN image THEN image[a] ELSE n.ram[a]) = SeenAt(n, s, a)
  BY <1>1, <1>2, <1>4 DEF SeenAt
<1>8. RomRam(x, image) = [a \in d |-> RomRam(x, image)[a]]
  BY <1>3 DEF RomRam
<1>9. LoadedRam(n, s) = [a \in d |-> LoadedRam(n, s)[a]]
  BY DEF LoadedRam
<1> HIDE DEF d
<1>10. \A a \in d : RomRam(x, image)[a] = LoadedRam(n, s)[a]
  BY <1>5, <1>6, <1>7
<1>11. RomRam(x, image) = LoadedRam(n, s)
  BY <1>8, <1>9, <1>10
<1> QED BY <1>11 DEF image

LEMMA LoadedForm ==
    ASSUME NEW n, n \in Machine, Room(n), NEW s
    PROVE  Loaded(n, s) = [n EXCEPT !.log = <<>>, !.ram = LoadedRam(n, s)]
<1> DEFINE x == [n EXCEPT !.log = <<>>]
<1>1. x.ram = n.ram
  BY DEF Machine
<1>2. n.pc \in Int /\ 0 <= n.pc /\ n.pc + 2 <= 32767
  BY WordIs DEF Machine, Room
<1>3. Loaded(n, s) = B!rom_init(x, ImageOf(n.pc, s))
  BY LoadedAt DEF LoadAt
<1> DEFINE p == n.pc
<1> HIDE DEF x
<1>4. RomRam(x, ImageOf(n.pc, s)) = LoadedRam(n, s)
  <2>1. p = n.pc
    BY DEF p
  <2> HIDE DEF p
  <2>2. p \in Int /\ 0 <= p /\ p + 2 <= 32767
    BY <1>2, <2>1
  <2>3. RomRam(x, ImageOf(p, s)) = LoadedRam(n, s)
    BY ONLY <1>1, <2>1, <2>2, RomRamIs
  <2> QED BY <2>1, <2>3
<1>5. Loaded(n, s) = [x EXCEPT !.ram = LoadedRam(n, s)]
  BY <1>3, <1>4, RomInitIs
<1> QED BY <1>5 DEF x

LEMMA LoadedIs ==
    ASSUME NEW n, n \in Machine, Room(n), NEW s, StepOk(s), NEW x, x = Loaded(n, s)
    PROVE  /\ x \in Machine /\ Good(x) /\ Quiet(x) /\ x.pc = n.pc /\ x.reg = n.reg /\ x.flag = n.flag /\ x.sp = n.sp
           /\ x.ime = n.ime /\ x.cycles = n.cycles /\ x.lowFirst = n.lowFirst
           /\ E!ram(x, n.pc) = OpcodeOf(s) /\ E!ram(x, n.pc + 1) = SecondOf(s) /\ E!ram(x, n.pc + 2) = ThirdOf(s)
           /\ \A a : a \notin Span(n.pc) => E!ram(x, a) = E!ram(n, a)
<1> DEFINE r == LoadedRam(n, s)
<1>1. x = [n EXCEPT !.log = <<>>, !.ram = r]
  BY LoadedForm
<1>2. n.pc \in Int /\ 0 <= n.pc /\ n.pc + 2 <= 32767
  BY WordIs DEF Machine, Room
<1>3. r \in Memory
  <2>1. PICK cells \in SUBSET Word : n.ram \in [cells -> Byte]
    BY DEF Machine, Memory
  <2>2. Span(n.pc) \subseteq Word
    BY <1>2, SpanIs, WordIs
  <2>3. OpcodeOf(s) \in Byte /\ SecondOf(s) \in Byte /\ ThirdOf(s) \in Byte
    BY StepBytesType
  <2> DEFINE d == Span(n.pc) \cup cells
  <2>4. DOMAIN n.ram = cells /\ \A a \in cells : n.ram[a] \in Byte
    BY <2>1
  <2>5. \A a : a \in Span(n.pc) => a = n.pc \/ a = n.pc + 1 \/ a = n.pc + 2
    BY <1>2, SpanIs
  <2>6. r \in [d -> Byte]
    BY <2>3, <2>4, <2>5 DEF LoadedRam, SeenAt
  <2>7. d \in SUBSET Word
    BY <2>1, <2>2
  <2> HIDE DEF d, r
  <2> QED BY <2>6, <2>7 DEF Memory
<1>4. <<>> \in Log
  BY DEF Log
<1>5. /\ E!ram(x, n.pc) = OpcodeOf(s) /\ E!ram(x, n.pc + 1) = SecondOf(s) /\ E!ram(x, n.pc + 2) = ThirdOf(s)
      /\ \A a : a \notin Span(n.pc) => E!ram(x, a) = E!ram(n, a)
  <2>1. x.ram = r
    <3> HIDE DEF r
    <3> QED BY <1>1 DEF Machine
  <2>2. \A a : a \in Span(n.pc) <=> a = n.pc \/ a = n.pc + 1 \/ a = n.pc + 2
    BY <1>2, SpanIs
  <2>3. n.pc \in DOMAIN r /\ n.pc + 1 \in DOMAIN r /\ n.pc + 2 \in DOMAIN r
    BY <2>2 DEF LoadedRam, SeenAt
  <2>4. n.pc + 1 # n.pc /\ n.pc + 2 # n.pc /\ n.pc + 2 # n.pc + 1
    BY <1>2
  <2>5. r[n.pc] = OpcodeOf(s) /\ r[n.pc + 1] = SecondOf(s) /\ r[n.pc + 2] = ThirdOf(s)
    BY <2>2, <2>4 DEF LoadedRam, SeenAt
  <2>6. ASSUME NEW a, a \notin Span(n.pc) PROVE E!ram(x, a) = E!ram(n, a)
    <3>1. a \in DOMAIN r <=> a \in DOMAIN n.ram
      BY <2>6 DEF LoadedRam, SeenAt
    <3>2. a \in DOMAIN r => r[a] = n.ram[a]
      BY <2>2, <2>6 DEF LoadedRam, SeenAt
    <3> HIDE DEF r
    <3> QED BY <2>1, <3>1, <3>2 DEF E!ram
  <2> HIDE DEF r
  <2> QED BY <2>1, <2>3, <2>5, <2>6 DEF E!ram
<1> HIDE DEF r
<1>6. x \in Machine /\ x.log = <<>>
  BY <1>1, <1>3, <1>4 DEF Machine
<1>7. Good(x) /\ Quiet(x)
  BY <1>6 DEF Good, Quiet, Stamped
<1> QED BY <1>1, <1>5, <1>6, <1>7 DEF Machine

\* It does not matter which backend's machine it is, but for the accesses.
LEMMA LoadedBare ==
    ASSUME NEW a, a \in Machine, NEW b, b \in Machine, Bare(a) = Bare(b), NEW s
    PROVE  Loaded(a, s) = Loaded(b, s) /\ a.pc = b.pc /\ a.lowFirst = b.lowFirst
<1>1. Bare(a).pc = a.pc /\ Bare(b).pc = b.pc /\ Bare(a).lowFirst = a.lowFirst /\ Bare(b).lowFirst = b.lowFirst
  BY DEF Bare, Machine
<1>2. [a EXCEPT !.log = <<>>] = [b EXCEPT !.log = <<>>]
  BY DEF Bare
<1>3. Loaded(a, s) = LoadAt([a EXCEPT !.log = <<>>], a.pc, s)
  BY LoadedAt
<1>4. Loaded(b, s) = LoadAt([b EXCEPT !.log = <<>>], b.pc, s)
  BY LoadedAt
<1>5. a.pc = b.pc /\ a.lowFirst = b.lowFirst
  BY <1>1
<1> QED BY <1>2, <1>3, <1>4, <1>5

\* Any instruction, wherever there is room for it.
THEOREM EveryInstructionDoesTheSame ==
    ASSUME NEW n, n \in Machine, Room(n), NEW s, StepOk(s), NEW x, x = Loaded(n, s)
    PROVE  LET i == Instruction(s)
               t == Type(s.code)
           IN  /\ i.type = t
               /\ Outcome(x, t, L!Run(x, i), E!Run(x))
               /\ s.code < 256 /\ t \in Straight => L!Run(x, i).pc = E!Trunc16(n.pc + i.len)
               /\ s.code < 256 /\ t \in Stacked => L!Run(x, i).pc = n.pc + 1
               /\ s.code < 256 /\ t = "CALL_NN" => L!Run(x, i).pc = i.imm
               /\ s.code < 256 /\ t = "RST_N" => L!Run(x, i).pc = i.operands[1]
<1> DEFINE i == Instruction(s)
           t == Type(s.code)
<1>1. /\ Good(x) /\ Quiet(x) /\ x.pc = n.pc
      /\ E!ram(x, n.pc) = OpcodeOf(s) /\ E!ram(x, n.pc + 1) = SecondOf(s) /\ E!ram(x, n.pc + 2) = ThirdOf(s)
  BY LoadedIs
<1>2. s.code \in 0..511 /\ s.code \in Codes /\ s.imm \in Word /\ OpcodeOf(s) \in Byte
  BY StepBytesType, SMTT(30) DEF StepOk, Codes, O!Codes
<1>3. i.imm = s.imm
  BY DEF Instruction
<1>4. CASE s.code < 256
  <2>1. OpcodeOf(s) = s.code /\ SecondOf(s) = s.imm % 256 /\ ThirdOf(s) = s.imm \div 256
    BY <1>2, <1>4 DEF OpcodeOf, SecondOf, ThirdOf
  <2>2. i.len = 2 => s.imm \in Byte /\ s.imm % 256 = s.imm
    BY <1>4, ByteIs DEF StepOk
  <2> HIDE DEF i
  <2>3. Fetched(x, i, s.code)
    BY <1>1, <1>2, <1>3, <2>1, <2>2 DEF Fetched, Room
  <2> QED BY <1>1, <1>2, <1>4, <2>3, UnprefixedOutcome DEF i
<1>5. CASE s.code >= 256
  <2>1. OpcodeOf(s) = 203 /\ SecondOf(s) = s.code - 256 /\ s.code - 256 \in 0..255 /\ ~(s.code < 256)
    BY <1>2, <1>5 DEF OpcodeOf, SecondOf
  <2>2. CbFetched(x, s.code - 256)
    BY <1>1, <2>1 DEF CbFetched, Room
  <2> QED BY <1>1, <1>2, <1>5, <2>1, <2>2, CbOutcome
<1> QED BY <1>2, <1>4, <1>5
=============================================================================
