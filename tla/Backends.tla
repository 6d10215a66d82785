------------------------------ MODULE Backends ------------------------------
(***************************************************************************)
(* A program runs partly as compiled code and partly in the interpreter,   *)
(* and goes from one to the other wherever a block starts.  Here short     *)
(* programs run in both: every instruction starts from a machine that      *)
(* either backend left behind, and both backends execute it.               *)
(*                                                                         *)
(* m is the machine before the last instruction, l and e what Lifted and   *)
(* Emulated made of it; test says which program runs and on what, todo     *)
(* what is left of it.  A program is a sequence of [code, imm], with the   *)
(* codes of Opcodes, and INT for an interrupt that is serviced.            *)
(***************************************************************************)
EXTENDS Integers, Sequences

CONSTANT Tests    \* the tests that are run

VARIABLES test, todo, last, m, l, e
vars == <<test, todo, last, m, l, e>>

O == INSTANCE Opcodes WITH code <- 0
L == INSTANCE Lifted
E == INSTANCE Emulated
B == INSTANCE Bus
-----------------------------------------------------------------------------
(* The programs and the machines they start in *)

\* Where a program starts: inside the cartridge.
Entry == 336
Word  == 0..(2^16 - 1)
Flags == [Z : BOOLEAN, N : BOOLEAN, H : BOOLEAN, C : BOOLEAN]

INT == -1  LD_E_A == 95  LD_A_N == 62  LD_NN_A == 234  LD_A_NN == 250  RET == 201  RETI == 217
DAA == 39  ADD_N == 198  ADC_N == 206  SUB_N == 214  SBC_N == 222  ADD_HL_BC == 9

Codes == {c \in O!Codes : O!Decoded(c).type # "UNKNOWN"}
Type(c) == O!Decoded(c).type
StackTypes == {"PUSH_R16", "POP_R16", "CALL_NN", "CALL_CC_NN", "RST_N", "RET", "RET_CC", "RETI"}

\* What a test varies: A, another byte, a word (pointer, stack pointer or constant), the
\* flags, and the order of the C compiler.
Test(kind, codes, as, ns, ws, fs, firsts) ==
    [kind : {kind}, code : codes, a : as, n : ns, w : ws, f : fs, lowFirst : firsts]

Decimals == {16 * h + d : h \in 0..9, d \in 0..9}
Pushes   == {c \in Codes : Type(c) = "PUSH_R16"}
Calls    == {c \in Codes : Type(c) \in {"CALL_NN", "RST_N"}}

\* Every test there is.  An interrupt does not push over its handler's RETI, at 64..66,
\* and a memory test does not read the program, which is at 336..341.
IsTest(t) ==
    \/ t \in Test("one", Codes, O!Byte, O!Byte, Word, Flags, BOOLEAN)
    \/ t \in Test("decimal", {ADD_N, ADC_N, SUB_N, SBC_N}, Decimals, Decimals, Word, Flags, BOOLEAN)
    \/ t \in Test("wide", {ADD_N, SUB_N}, O!Byte, O!Byte, Word, Flags, BOOLEAN)
    \/ t \in Test("stack", Pushes \cup Calls, O!Byte, O!Byte, Word, Flags, BOOLEAN)
    \/ t \in Test("interrupt", {INT}, O!Byte, O!Byte, Word \ (65..68), Flags, BOOLEAN)
    \/ t \in Test("memory", {LD_NN_A}, O!Byte, O!Byte, Word \X (Word \ (336..341)), Flags, BOOLEAN)

ASSUME BackendsAssumption == \A t \in Tests : IsTest(t)

\* The constant an instruction of each length has.
Immediate(t) ==
    CASE O!Decoded(t.code).len = 3 -> t.w
      [] Type(t.code) \in {"LDH_A_N", "LDH_N_A"} -> B!Low(t.w)
      [] OTHER -> t.n

Step(c, imm) == [code |-> c, imm |-> imm]

\* One instruction; two digits and DAA; two bytes and two more, with the carry between
\* them; a push and a pop, a call and a return; an interrupt; a store and a load.
Program(t) ==
    CASE t.kind = "one" -> <<Step(t.code, Immediate(t))>>
      [] t.kind = "decimal" -> <<Step(t.code, t.n), Step(DAA, 0)>>
      [] t.kind = "wide" ->
             <<Step(t.code, t.n), Step(LD_E_A, 0), Step(LD_A_N, B!High(t.w)),
               Step(IF t.code = ADD_N THEN ADC_N ELSE SBC_N, B!Low(t.w)), Step(ADD_HL_BC, 0)>>
      [] t.kind = "stack" -> <<Step(t.code, 4660), Step(IF Type(t.code) = "PUSH_R16" THEN t.code - 4 ELSE RET, 0)>>
      [] t.kind = "interrupt" -> <<Step(INT, 0), Step(RETI, 0)>>
      [] t.kind = "memory" -> <<Step(LD_NN_A, t.w[1]), Step(LD_A_NN, t.w[2])>>

\* Registers that point at w, and registers that hold n.
Registers(t) ==
    CASE t.kind = "one" /\ Type(t.code) \in (O!Loads \cup O!Stores) \ StackTypes ->
             [A |-> t.a, B |-> B!High(t.w), C |-> B!Low(t.w), D |-> B!High(t.w), E |-> B!Low(t.w),
              H |-> B!High(t.w), L |-> B!Low(t.w)]
      [] t.kind = "wide" -> [A |-> t.a, B |-> B!Low(t.w), C |-> t.n, D |-> 0, E |-> 0, H |-> B!High(t.w), L |-> t.a]
      [] OTHER -> [A |-> t.a, B |-> t.n, C |-> 255 - t.n, D |-> t.n, E |-> 255 - t.n, H |-> t.n, L |-> 255 - t.n]

\* Memory holds n at w, and another byte above; in the memory test the two cells have
\* bytes of their own.
Cells(t) ==
    IF t.kind = "memory" THEN [addr \in {B!Cell(t.w[1]), B!Cell(t.w[2])} |-> (addr + 77) % 256]
    ELSE [addr \in {B!Cell(t.w), B!Cell(B!Trunc16(t.w + 1))} |->
              IF addr = B!Cell(t.w) THEN t.n ELSE (t.n + 90) % 256]

Start(t) ==
    [reg |-> Registers(t), flag |-> t.f, sp |-> IF t.kind = "memory" THEN 65534 ELSE t.w, pc |-> Entry,
     ime |-> 1, cycles |-> 100, ram |-> Cells(t), log |-> <<>>, lowFirst |-> t.lowFirst]
-----------------------------------------------------------------------------
(* Running them *)

\* The cartridge has the instruction where the program is: its opcode, after the prefix
\* if it has one, and its constant.
Loaded(n, s) ==
    B!rom_init([n EXCEPT !.log = <<>>],
        [addr \in n.pc..(n.pc + 2) |->
            CASE addr = n.pc     -> IF s.code >= 256 THEN 203 ELSE s.code
              [] addr = n.pc + 1 -> IF s.code >= 256 THEN s.code - 256 ELSE B!Low(s.imm)
              [] OTHER           -> B!High(s.imm)])

\* The instruction the decoder makes of it.
Instruction(s) ==
    LET i == O!Decoded(s.code)
    IN  [type |-> i.type, len |-> i.len, cycles |-> i.cycles, extra |-> i.extra,
         operands |-> i.operands, imm |-> s.imm]

Init == /\ test \in Tests /\ todo = Program(test) /\ last = "none"
        /\ m = Start(test) /\ l = m /\ e = m

\* Both backends execute the next instruction, from a machine one of them left.
Execute ==
    /\ todo # <<>> /\ Head(todo).code # INT
    /\ \E from \in {l, e} : m' = Loaded(from, Head(todo))
    /\ l' = L!Run(m', Instruction(Head(todo)))
    /\ e' = E!Run(m')
    /\ last' = Type(Head(todo).code)
    /\ todo' = Tail(todo) /\ UNCHANGED test

\* The controller services an interrupt between two instructions; 64 is VBlank's vector.
Interrupt ==
    /\ todo # <<>> /\ Head(todo).code = INT
    /\ m' = l
    /\ l' = [B!interrupt_push(l) EXCEPT !.pc = 64]
    /\ e' = l'
    /\ last' = "INT" /\ todo' = Tail(todo) /\ UNCHANGED test

Next == Execute \/ Interrupt
Spec == Init /\ [][Next]_vars

Ended(kind) == test.kind = kind /\ todo = <<>>
-----------------------------------------------------------------------------
(* Each instruction in both backends *)

\* Whichever backend runs an instruction, it leaves the same registers, flags, stack
\* pointer, interrupt switch, address, cycles and memory behind: a block may be entered
\* from the interpreter or left to it anywhere (opcodes.go against emulator.c).
SameState == [l EXCEPT !.log = <<>>] = [e EXCEPT !.log = <<>>]

Accesses(n) == [k \in DOMAIN n.log |-> <<n.log[k].op, n.log[k].addr, n.log[k].val>>]
Reversed(s) == IF Len(s) = 2 THEN <<s[2], s[1]>> ELSE s

\* The devices see the same reads and writes of their registers from both backends, in
\* the same order, except that a word is pushed high byte first by compiled code and
\* low byte first by the interpreter (helpers.go pushReturnAddress, emulator.c push16),
\* and popped in the order the C compiler likes: a stack inside the registers.
SameAccesses ==
    CASE last \in {"POP_R16", "RET", "RET_CC", "RETI"} ->
             Accesses(e) = IF test.lowFirst THEN Accesses(l) ELSE Reversed(Accesses(l))
      [] last \in StackTypes \ {"POP_R16", "RET", "RET_CC", "RETI"} -> Accesses(e) = Reversed(Accesses(l))
      [] OTHER -> Accesses(e) = Accesses(l)

\* How many cycles later than compiled code the interpreter is when it accesses memory.
CbOnMemory == {"CB_RLC_HL", "CB_RRC_HL", "CB_RL_HL", "CB_RR_HL", "CB_SLA_HL", "CB_SRA_HL",
               "CB_SWAP_HL", "CB_SRL_HL", "CB_BIT_HL", "CB_RES_HL", "CB_SET_HL"}
Skew ==
    CASE last \in CbOnMemory -> 4
      [] last \in {"CALL_CC_NN", "RET_CC"} -> 3
      [] last = "CALL_NN" -> -6
      [] last \in {"RST_N", "RET", "RETI"} -> -4
      [] OTHER -> 0

\* A register access is stamped with the same cycle by both backends, but for the calls,
\* the returns and the CB instructions on memory: what these see of a timer differs by
\* the cycles given here, and by never more than the instruction takes.
AccessTimes ==
    \A k \in DOMAIN l.log, j \in DOMAIN e.log :
        /\ e.log[j].at - l.log[k].at = Skew
        /\ {l.log[k].at, e.log[j].at} \subseteq m.cycles..l.cycles
-----------------------------------------------------------------------------
(* Programs *)

Value(d) == 10 * (d \div 16) + (d % 16)
Digits(n) == 16 * (n \div 10) + (n % 10)

\* Decimal arithmetic: DAA makes two digits of the sum or the difference of two digits
\* and a carry, and leaves the carry for the next two, whichever backend runs it.
DecimalArithmetic ==
    Ended("decimal") =>
        LET c     == IF test.f.C /\ test.code \in {ADC_N, SBC_N} THEN 1 ELSE 0
            total == IF test.code \in {ADD_N, ADC_N} THEN Value(test.a) + Value(test.n) + c
                                                    ELSE Value(test.a) - Value(test.n) - c
        IN  \A n \in {l, e} : n.reg["A"] = Digits(total % 100) /\ n.flag.C = (total \notin 0..99)

\* Sixteen bits done as two bytes with a carry between them, as programs do: the sum is
\* ADD HL's, half carry included, and the difference borrows when it compares lower.
WideArithmetic ==
    Ended("wide") =>
        LET w1    == B!Join(B!High(test.w), test.a)
            w2    == B!Join(B!Low(test.w), test.n)
            bytes == B!Join(m.reg["A"], m.reg["E"])
        IN  IF test.code = ADD_N
            THEN /\ bytes = B!Trunc16(w1 + w2) /\ m.flag.C = (w1 + w2 > 65535)
                 /\ \A n \in {l, e} : /\ B!Join(n.reg["H"], n.reg["L"]) = bytes
                                      /\ n.flag.C = m.flag.C /\ n.flag.H = m.flag.H
            ELSE bytes = B!Trunc16(w1 - w2) /\ m.flag.C = (w1 < w2)

\* Both bytes of a word pushed at sp are kept: memory, and neither ROM nor a register.
Keeps(sp) == \A k \in {1, 2} :
    LET addr == B!Trunc16(sp - k) IN addr \notin B!Rom /\ ~B!IsRegister(addr)

\* A word pushed by one backend is popped by the other, flags in F included, and a call
\* by one is returned from by the other, wherever the stack is in memory; sp is back in
\* place even where it is not.
StackRoundTrip ==
    Ended("stack") =>
        \A n \in {l, e} :
            /\ n.sp = test.w
            /\ Keeps(test.w) =>
                   IF Type(test.code) = "PUSH_R16"
                   THEN n.reg = Registers(test) /\ n.flag = test.f
                   ELSE n.pc = Entry + O!Decoded(test.code).len

\* The handler of an interrupt returns to the instruction that was interrupted, in
\* either backend, if and only if the stack is in memory that is read where it was
\* written: the controller stores past the bus (interrupt.c:42), so that a stack in
\* echo RAM is written above the cells that it is read from.
InterruptReturns ==
    Ended("interrupt") =>
        LET seen == \A k \in {1, 2} : LET addr == B!Trunc16(test.w - k)
                                     IN  ~B!IsRegister(addr) /\ addr \notin B!EchoRam
        IN  \A n \in {l, e} : n.sp = test.w /\ n.ime = 1 /\ (n.pc = Entry <=> seen)

\* One memory for all readers: after a store at w[1] by either backend, a load from w[2]
\* by either finds the byte if it is the same cell, and what was there before if not,
\* or if that cell is ROM or a register.
OneMemory ==
    Ended("memory") =>
        LET p == test.w[1]  q == test.w[2]
            kept == B!Cell(p) \in B!Rom \/ B!IsRegister(p)
        IN  \A n \in {l, e} :
                n.reg["A"] = IF B!Cell(q) = B!Cell(p) /\ ~kept THEN test.a ELSE B!read_ram(Start(test), q)
=============================================================================
