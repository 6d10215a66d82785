--------------------------- MODULE BackendsProofs ---------------------------
(***************************************************************************)
(* For every test there is, and every choice of which backend runs which   *)
(* instruction: what Backends says of each instruction and of each         *)
(* program.                                                                *)
(*                                                                         *)
(* The inductive invariant is Together: both backends have left the same   *)
(* machine but for the accesses, of which Outcome says how they differ,    *)
(* and the program is where it may be, in the cartridge.  What a program   *)
(* computes is proved along it, with what holds after each of its steps    *)
(* (DecimalAlong, WideAlong, MemoryAlong, ReturnsAlong, StackAlong).       *)
(***************************************************************************)
EXTENDS InstructionProofs

-----------------------------------------------------------------------------
(* The instructions of the programs *)

Known(op, t, len) == op \in Codes /\ Type(op) = t /\ O!Decoded(op).len = len

\* A code is known by the rows that list it.
LEMMA KnownIs ==
    ASSUME NEW op \in 0..255, op # 203, NEW t, t # "UNKNOWN", NEW len,
           \E r \in O!Rows : op \in r.ops, \A r \in O!Rows : op \in r.ops => r.type = t /\ r.len = len
    PROVE  Known(op, t, len)
<1> DEFINE r == O!decodeOpcode[op]
<1>1. r = CHOOSE x \in O!Rows : op \in x.ops
  BY DEF O!decodeOpcode, O!Byte
<1>2. r \in O!Rows /\ op \in r.ops
  BY <1>1
<1>3. r.type = t /\ r.len = len
  BY <1>2
<1>4. op \in O!Codes /\ ~O!Prefixed(op)
  BY SMTT(30) DEF O!Codes, O!Prefixed
<1>5. O!Decoded(op) = O!WithOperands(r, O!Operands(r.type, op))
  BY <1>4 DEF O!Decoded
<1> HIDE DEF r
<1>6. O!Decoded(op).type = t /\ O!Decoded(op).len = len
  BY <1>3, <1>5 DEF O!WithOperands
<1> QED BY <1>4, <1>6 DEF Known, Codes, Type

TableRow(r) ==
    /\ 198 \in r.ops => r.type = "ADD_N" /\ r.len = 2
    /\ 206 \in r.ops => r.type = "ADC_N" /\ r.len = 2
    /\ 214 \in r.ops => r.type = "SUB_N" /\ r.len = 2
    /\ 222 \in r.ops => r.type = "SBC_N" /\ r.len = 2
    /\ 39 \in r.ops => r.type = "DAA" /\ r.len = 1
    /\ 95 \in r.ops => r.type = "LD_R8_R8" /\ r.len = 1
    /\ 62 \in r.ops => r.type = "LD_R8_N" /\ r.len = 2
    /\ 9 \in r.ops => r.type = "ADD_HL_R16" /\ r.len = 1
    /\ 234 \in r.ops => r.type = "LD_NN_A" /\ r.len = 3
    /\ 250 \in r.ops => r.type = "LD_A_NN" /\ r.len = 3
    /\ 201 \in r.ops => r.type = "RET" /\ r.len = 1
    /\ 217 \in r.ops => r.type = "RETI" /\ r.len = 1
    /\ \A op \in r.ops : op \in {193, 209, 225, 241} <=> r.type = "POP_R16"
    /\ \A op \in r.ops : op \in {197, 213, 229, 245} <=> r.type = "PUSH_R16"
    /\ r.type \in {"POP_R16", "PUSH_R16", "RST_N"} => r.len = 1
    /\ r.type = "CALL_NN" => r.len = 3

\* The rows of the decoder's table say this of the codes of the programs.
LEMMA LoadTable == \A r \in O!LoadRows : TableRow(r)
BY SMTT(120) DEF TableRow, O!LoadRows, O!Row, O!Column, O!R8Src, O!R8Dest, O!LD_R8_R8_Ops

LEMMA WordTable == \A r \in O!WordRows : TableRow(r)
BY SMTT(120) DEF TableRow, O!WordRows, O!Row, O!Column, O!R16

LEMMA ArithmeticTable == \A r \in O!ArithmeticRows : TableRow(r)
BY SMTT(120) DEF TableRow, O!ArithmeticRows, O!Row, O!Column, O!R8Src, O!R8Dest

LEMMA LogicTable == \A r \in O!LogicRows : TableRow(r)
BY SMTT(120) DEF TableRow, O!LogicRows, O!Row, O!Column, O!R8Src, O!R8Dest

LEMMA JumpTable == \A r \in O!JumpRows : TableRow(r)
BY SMTT(120) DEF TableRow, O!JumpRows, O!Row, O!CondRow, O!Column, O!CC

LEMMA InRows ==
    \A op \in {198, 206, 214, 222, 39, 95, 62, 234, 250, 9, 193, 209, 225, 241, 201, 217} : \E r \in O!Rows : op \in r.ops
<1>2. \A op \in {198, 206, 214, 222} : \E r \in O!ArithmeticRows : op \in r.ops
  BY SMTT(60) DEF O!ArithmeticRows, O!Row, O!Column, O!R8Src, O!R8Dest
<1>3. \E r \in O!LogicRows : 39 \in r.ops
  BY SMTT(60) DEF O!LogicRows, O!Row, O!Column, O!R8Src, O!R8Dest
<1>4. \A op \in {95, 62, 234, 250} : \E r \in O!LoadRows : op \in r.ops
  <2>1. 95 \in O!LD_R8_R8_Ops
    <3>1. 3 \in O!R8Src /\ 7 \in O!R8Src
      BY DEF O!R8Src
    <3>2. 24 = 8 * 3 /\ 95 = 88 + 7 /\ 88 = 64 + 24
      OBVIOUS
    <3>3. 24 \in O!R8Dest
      BY <3>1, <3>2 DEF O!R8Dest
    <3>4. 95 \in O!Column(64 + 24, O!R8Src)
      BY <3>1, <3>2 DEF O!Column
    <3> QED BY <3>3, <3>4 DEF O!LD_R8_R8_Ops
  <2>2. 62 \in O!Column(6, O!R8Dest)
    <3>1. 7 \in O!R8Src /\ 56 = 8 * 7 /\ 62 = 6 + 56
      BY DEF O!R8Src
    <3>2. 56 \in O!R8Dest
      BY <3>1 DEF O!R8Dest
    <3> QED BY <3>1, <3>2 DEF O!Column
  <2> DEFINE a == O!Row("LD_R8_R8", 1, 1, O!LD_R8_R8_Ops)
             b == O!Row("LD_R8_N", 2, 2, O!Column(6, O!R8Dest))
             c == O!Row("LD_A_NN", 3, 4, {250})
             d == O!Row("LD_NN_A", 3, 4, {234})
  <2>3. a \in O!LoadRows /\ b \in O!LoadRows /\ c \in O!LoadRows /\ d \in O!LoadRows
    BY DEF O!LoadRows
  <2>4. 95 \in a.ops /\ 62 \in b.ops /\ 250 \in c.ops /\ 234 \in d.ops
    BY <2>1, <2>2 DEF O!Row
  <2> HIDE DEF a, b, c, d
  <2> QED BY <2>3, <2>4
<1>5. \A op \in {9, 193, 209, 225, 241} : \E r \in O!WordRows : op \in r.ops
  <2>1. 9 \in O!Column(9, O!R16) /\ \A op \in {193, 209, 225, 241} : op \in O!Column(193, O!R16)
    BY SMTT(30) DEF O!Column, O!R16
  <2> DEFINE a == O!Row("POP_R16", 1, 3, O!Column(193, O!R16))
             b == O!Row("ADD_HL_R16", 1, 2, O!Column(9, O!R16))
  <2>2. a \in O!WordRows /\ b \in O!WordRows
    BY DEF O!WordRows
  <2>3. 9 \in b.ops /\ \A op \in {193, 209, 225, 241} : op \in a.ops
    BY <2>1 DEF O!Row
  <2> HIDE DEF a, b
  <2> QED BY <2>2, <2>3
<1>6. \A op \in {201, 217} : \E r \in O!JumpRows : op \in r.ops
  BY SMTT(60) DEF O!JumpRows, O!Row, O!CondRow, O!Column, O!CC
<1> QED BY <1>2, <1>3, <1>4, <1>5, <1>6 DEF O!Rows

LEMMA EveryTable == \A r \in O!Rows : TableRow(r)
BY LoadTable, WordTable, ArithmeticTable, LogicTable, JumpTable DEF O!Rows

\* The codes the programs are made of.
LEMMA KnownCodes ==
    /\ Known(ADD_N, "ADD_N", 2) /\ Known(ADC_N, "ADC_N", 2) /\ Known(SUB_N, "SUB_N", 2) /\ Known(SBC_N, "SBC_N", 2)
    /\ Known(DAA, "DAA", 1) /\ Known(LD_E_A, "LD_R8_R8", 1) /\ Known(LD_A_N, "LD_R8_N", 2)
    /\ Known(ADD_HL_BC, "ADD_HL_R16", 1) /\ Known(LD_NN_A, "LD_NN_A", 3) /\ Known(LD_A_NN, "LD_A_NN", 3)
    /\ Known(RET, "RET", 1) /\ Known(RETI, "RETI", 1)
    /\ \A c \in {193, 209, 225, 241} : Known(c, "POP_R16", 1)
<1> DEFINE all == {198, 206, 214, 222, 39, 95, 62, 234, 250, 9, 193, 209, 225, 241, 201, 217}
<1>1. \A op \in all : \E r \in O!Rows : op \in r.ops
  BY InRows
<1>2. \A op \in all : op \in 0..255 /\ op # 203
  OBVIOUS
<1>3. ASSUME NEW op \in all, NEW t, t # "UNKNOWN", NEW len, \A r \in O!Rows : op \in r.ops => r.type = t /\ r.len = len
      PROVE  Known(op, t, len)
  <2>1. op \in 0..255 /\ op # 203 /\ \E r \in O!Rows : op \in r.ops
    BY <1>1, <1>2
  <2> QED BY ONLY <2>1, <1>3, KnownIs
<1>4. /\ 198 \in all /\ 206 \in all /\ 214 \in all /\ 222 \in all /\ 39 \in all /\ 95 \in all /\ 62 \in all /\ 9 \in all
      /\ 234 \in all /\ 250 \in all /\ 201 \in all /\ 217 \in all
  OBVIOUS
<1>5. \A op \in {193, 209, 225, 241} : op \in all
  OBVIOUS
<1> HIDE DEF all
<1>6. /\ Known(198, "ADD_N", 2) /\ Known(206, "ADC_N", 2) /\ Known(214, "SUB_N", 2) /\ Known(222, "SBC_N", 2)
  BY <1>3, <1>4, EveryTable DEF TableRow
<1>7. /\ Known(39, "DAA", 1) /\ Known(95, "LD_R8_R8", 1) /\ Known(62, "LD_R8_N", 2) /\ Known(9, "ADD_HL_R16", 1)
  BY <1>3, <1>4, EveryTable DEF TableRow
<1>8. /\ Known(234, "LD_NN_A", 3) /\ Known(250, "LD_A_NN", 3) /\ Known(201, "RET", 1) /\ Known(217, "RETI", 1)
  BY <1>3, <1>4, EveryTable DEF TableRow
<1>9. ASSUME NEW c \in {193, 209, 225, 241} PROVE Known(c, "POP_R16", 1)
  <2>1. \A r \in O!Rows : c \in r.ops => r.type = "POP_R16" /\ r.len = 1
    BY EveryTable DEF TableRow
  <2> QED BY <1>3, <1>5, <2>1
<1> QED BY <1>6, <1>7, <1>8, <1>9 DEF ADD_N, ADC_N, SUB_N, SBC_N, DAA, LD_E_A, LD_A_N, ADD_HL_BC, LD_NN_A, LD_A_NN, RET, RETI

\* The row of a code that has no prefix.
LEMMA RowOfCode ==
    ASSUME NEW c \in Codes, c < 256
    PROVE  \E r \in O!Rows : c \in r.ops /\ Type(c) = r.type /\ O!Decoded(c).len = r.len
<1> DEFINE r == O!decodeOpcode[c]
<1>1. c \in 0..255 /\ ~O!Prefixed(c)
  BY SMTT(30) DEF Codes, O!Codes, O!Prefixed
<1>2. O!Decoded(c) = O!WithOperands(r, O!Operands(r.type, c))
  BY <1>1 DEF O!Decoded
<1>3. Type(c) = r.type /\ O!Decoded(c).len = r.len /\ r.type # "UNKNOWN"
  BY <1>2 DEF Codes, Type, O!WithOperands
<1>4. r = IF \E x \in O!Rows : c \in x.ops THEN CHOOSE x \in O!Rows : c \in x.ops ELSE O!UnknownRow
  BY <1>1 DEF O!decodeOpcode, O!Byte
<1>5. O!UnknownRow.type = "UNKNOWN"
  BY DEF O!UnknownRow, O!Row
<1>6. r \in O!Rows /\ c \in r.ops
  BY <1>3, <1>4, <1>5
<1> QED BY <1>3, <1>6

\* What uses the stack has no prefix.
LEMMA OnStackUnprefixed ==
    ASSUME NEW c \in Codes, Type(c) \in Pushing
    PROVE  c < 256
<1>1. c \in Int
  BY SMTT(30) DEF Codes, O!Codes
<1>2. CASE c >= 256
  <2> DEFINE st == Step(c, 0)
             i == Instruction(st)
  <2>1. st.code = c
    BY DEF Step
  <2>2. CbCase(i, c - 256) /\ i.type = Type(c) /\ c - 256 \in 0..255
    BY <1>2, <2>1, CbCases
  <2> HIDE DEF i
  <2> QED BY <2>2, CbCaseTypes
<1> QED BY <1>1, <1>2

LEMMA StackCodes ==
    /\ \A c \in Pushes : /\ c \in {197, 213, 229, 245} /\ Known(c, "PUSH_R16", 1) /\ Known(c - 4, "POP_R16", 1)
    /\ \A c \in Calls : c < 256 /\ (Known(c, "CALL_NN", 3) \/ Known(c, "RST_N", 1))
<1>1. ASSUME NEW c \in Pushes PROVE /\ c \in {197, 213, 229, 245} /\ Known(c, "PUSH_R16", 1) /\ Known(c - 4, "POP_R16", 1)
  <2>1. c \in Codes /\ Type(c) = "PUSH_R16" /\ c < 256
    BY OnStackUnprefixed DEF Pushes, Pushing
  <2>2. PICK r \in O!Rows : c \in r.ops /\ Type(c) = r.type /\ O!Decoded(c).len = r.len
    BY <2>1, RowOfCode
  <2>3. c \in {197, 213, 229, 245} /\ r.len = 1
    BY <2>1, <2>2, EveryTable DEF TableRow
  <2>4. c - 4 \in {193, 209, 225, 241}
    BY <2>3
  <2>5. Known(c - 4, "POP_R16", 1)
    BY <2>4, KnownCodes
  <2>6. Known(c, "PUSH_R16", 1)
    BY <2>1, <2>2, <2>3 DEF Known
  <2> QED BY <2>3, <2>5, <2>6
<1>2. ASSUME NEW c \in Calls PROVE c < 256 /\ (Known(c, "CALL_NN", 3) \/ Known(c, "RST_N", 1))
  <2>1. c \in Codes /\ (Type(c) = "CALL_NN" \/ Type(c) = "RST_N") /\ c < 256
    BY OnStackUnprefixed DEF Calls, Pushing
  <2>2. PICK r \in O!Rows : c \in r.ops /\ Type(c) = r.type /\ O!Decoded(c).len = r.len
    BY <2>1, RowOfCode
  <2>3. (r.type = "CALL_NN" => r.len = 3) /\ (r.type = "RST_N" => r.len = 1)
    BY EveryTable DEF TableRow
  <2> QED BY <2>1, <2>2, <2>3 DEF Known
<1> QED BY <1>1, <1>2

-----------------------------------------------------------------------------
(* The tests *)

Kinds == {"one", "decimal", "wide", "stack", "interrupt", "memory"}

\* What IsTest says of the fields of a test.
LEMMA Tested ==
    ASSUME NEW t, IsTest(t)
    PROVE  /\ t.kind \in Kinds /\ t.a \in Byte /\ t.n \in Byte /\ t.f \in Flags /\ t.lowFirst \in BOOLEAN
           /\ t.kind # "memory" => t.w \in Word
           /\ t.kind = "one" => t.code \in Codes
           /\ t.kind = "decimal" => t.code \in {ADD_N, ADC_N, SUB_N, SBC_N} /\ t.a \in Decimals /\ t.n \in Decimals
           /\ t.kind = "wide" => t.code \in {ADD_N, SUB_N}
           /\ t.kind = "stack" => t.code \in Pushes \cup Calls
           /\ t.kind = "interrupt" => t.code = INT /\ t.w \notin 65..68
           /\ t.kind = "memory" => /\ t.code = LD_NN_A /\ t.w[1] \in Word /\ t.w[2] \in Word
                                   /\ t.w[2] \notin 336..341
<1>1. O!Byte = Byte
  BY DEF O!Byte, Byte
<1>2. Decimals \subseteq Byte
  <2> SUFFICES ASSUME NEW h \in 0..9, NEW d \in 0..9 PROVE 16 * h + d \in Byte
    BY DEF Decimals
  <2>1. 16 * h + d \in Int /\ 0 <= 16 * h + d /\ 16 * h + d <= 255
    OBVIOUS
  <2> QED BY <2>1, ByteIs
<1> DEFINE near == 65..68
           own == 336..341
<1>3. near = 65..68 /\ own = 336..341
  OBVIOUS
<1>4. \/ t \in Test("one", Codes, O!Byte, O!Byte, Word, Flags, BOOLEAN)
      \/ t \in Test("decimal", {ADD_N, ADC_N, SUB_N, SBC_N}, Decimals, Decimals, Word, Flags, BOOLEAN)
      \/ t \in Test("wide", {ADD_N, SUB_N}, O!Byte, O!Byte, Word, Flags, BOOLEAN)
      \/ t \in Test("stack", Pushes \cup Calls, O!Byte, O!Byte, Word, Flags, BOOLEAN)
      \/ t \in Test("interrupt", {INT}, O!Byte, O!Byte, Word \ near, Flags, BOOLEAN)
      \/ t \in Test("memory", {LD_NN_A}, O!Byte, O!Byte, Word \X (Word \ own), Flags, BOOLEAN)
  BY DEF IsTest
<1> HIDE DEF near, own
<1>5. CASE t \in Test("one", Codes, O!Byte, O!Byte, Word, Flags, BOOLEAN)
  BY <1>1, <1>5 DEF Test, Kinds
<1>6. CASE t \in Test("decimal", {ADD_N, ADC_N, SUB_N, SBC_N}, Decimals, Decimals, Word, Flags, BOOLEAN)
  BY <1>2, <1>6 DEF Test, Kinds
<1>7. CASE t \in Test("wide", {ADD_N, SUB_N}, O!Byte, O!Byte, Word, Flags, BOOLEAN)
  BY <1>1, <1>7 DEF Test, Kinds
<1>8. CASE t \in Test("stack", Pushes \cup Calls, O!Byte, O!Byte, Word, Flags, BOOLEAN)
  BY <1>1, <1>8 DEF Test, Kinds
<1>9. CASE t \in Test("interrupt", {INT}, O!Byte, O!Byte, Word \ near, Flags, BOOLEAN)
  BY <1>1, <1>3, <1>9 DEF Test, Kinds
<1>10. CASE t \in Test("memory", {LD_NN_A}, O!Byte, O!Byte, Word \X (Word \ own), Flags, BOOLEAN)
  BY <1>1, <1>3, <1>10 DEF Test, Kinds
<1> QED BY <1>4, <1>5, <1>6, <1>7, <1>8, <1>9, <1>10

Plain(s) == s.code < 256 /\ Type(s.code) \in Straight

\* A code that is known can be loaded with any constant of its length.
LEMMA KnownStep ==
    ASSUME NEW c \in 0..255, NEW t, NEW len, Known(c, t, len), NEW imm \in Word, len = 2 => imm \in Byte
    PROVE  /\ StepOk(Step(c, imm)) /\ Step(c, imm).code = c /\ Step(c, imm).imm = imm
           /\ t \in Straight => Plain(Step(c, imm))
<1> DEFINE s == Step(c, imm)
<1>1. s.code = c /\ s.imm = imm
  BY DEF Step
<1>2. Instruction(s).len = O!Decoded(c).len
  BY <1>1 DEF Instruction
<1>3. c < 256
  OBVIOUS
<1> HIDE DEF s
<1> QED BY <1>1, <1>2, <1>3 DEF StepOk, Plain, Known, s

\* The words that are one byte, and the halves of a word.
LEMMA Halves ==
    /\ \A b \in Byte : b \in Word
    /\ \A w \in Word : B!High(w) \in Byte /\ B!Low(w) \in Byte /\ w = 256 * B!High(w) + B!Low(w)
    /\ 0 \in Byte /\ 4660 \in Word
<1>1. ASSUME NEW b \in Byte PROVE b \in Word
  BY ByteIs, WordIs
<1>2. ASSUME NEW w \in Word PROVE B!High(w) \in Byte /\ B!Low(w) \in Byte /\ w = 256 * B!High(w) + B!Low(w)
  <2>1. w \in Int /\ 0 <= w /\ w <= 65535
    BY WordIs
  <2> QED BY <2>1, ByteIs DEF B!High, B!Low
<1>3. 0 \in Byte /\ 4660 \in Word
  BY ByteIs, WordIs
<1> QED BY <1>1, <1>2, <1>3

LEMMA StraightKinds ==
    {"ADD_N", "ADC_N", "SUB_N", "SBC_N", "DAA", "LD_R8_R8", "LD_R8_N", "ADD_HL_R16", "LD_NN_A", "LD_A_NN"} \subseteq Straight
BY DEF Straight, L!R8Loads, L!ALoads, L!HlLoads, WordTypes, OffsetTypes, PairTypes, L!FlagOps, RestTypes, RotateTypes, StepTypes,
       AluTypes, AluN

\* What the program of each kind of test is.
LEMMA OneProgram ==
    ASSUME NEW t, IsTest(t), t.kind = "one"
    PROVE  Program(t) = <<Step(t.code, Immediate(t))>> /\ StepOk(Step(t.code, Immediate(t)))
<1>1. t.code \in Codes /\ t.w \in Word /\ t.n \in Byte
  BY Tested
<1> DEFINE s == Step(t.code, Immediate(t))
<1>2. Program(t) = <<s>>
  BY DEF Program
<1>3. s.code = t.code /\ s.imm = Immediate(t)
  BY DEF Step
<1>4. Instruction(s).len = O!Decoded(t.code).len
  BY <1>3 DEF Instruction
<1>5. Immediate(t) \in {t.w, B!Low(t.w), t.n} /\ (O!Decoded(t.code).len = 2 => Immediate(t) \in {B!Low(t.w), t.n})
  <2>1. CASE O!Decoded(t.code).len = 3
    BY <2>1 DEF Immediate
  <2>2. CASE O!Decoded(t.code).len # 3 /\ Type(t.code) \in {"LDH_A_N", "LDH_N_A"}
    BY <2>2 DEF Immediate
  <2>3. CASE O!Decoded(t.code).len # 3 /\ Type(t.code) \notin {"LDH_A_N", "LDH_N_A"}
    BY <2>3 DEF Immediate
  <2> QED BY <2>1, <2>2, <2>3
<1>6. Immediate(t) \in Word /\ (O!Decoded(t.code).len = 2 => Immediate(t) \in Byte)
  BY <1>1, <1>5, Halves
<1> HIDE DEF s
<1>7. StepOk(s)
  BY <1>1, <1>3, <1>4, <1>6 DEF StepOk
<1> QED BY <1>2, <1>7 DEF s

LEMMA DecimalProgram ==
    ASSUME NEW t, IsTest(t), t.kind = "decimal"
    PROVE  LET p == Step(t.code, t.n)
               q == Step(DAA, 0)
           IN  Program(t) = <<p, q>> /\ StepOk(p) /\ StepOk(q) /\ Plain(p) /\ Plain(q)
<1>1. t.code \in {ADD_N, ADC_N, SUB_N, SBC_N} /\ t.n \in Byte
  BY Tested
<1>2. Program(t) = <<Step(t.code, t.n), Step(DAA, 0)>>
  BY DEF Program
<1>3. PICK type \in Straight : Known(t.code, type, 2)
  BY <1>1, KnownCodes, StraightKinds
<1>4. t.code \in 0..255 /\ DAA \in 0..255
  BY <1>1 DEF ADD_N, ADC_N, SUB_N, SBC_N, DAA
<1>5. StepOk(Step(t.code, t.n)) /\ Plain(Step(t.code, t.n))
  BY <1>1, <1>3, <1>4, Halves, KnownStep
<1>6. StepOk(Step(DAA, 0)) /\ Plain(Step(DAA, 0))
  <2>1. Known(DAA, "DAA", 1) /\ "DAA" \in Straight /\ 0 \in Word /\ (1 = 2 => 0 \in Byte) /\ DAA \in 0..255
    BY <1>4, KnownCodes, StraightKinds, Halves
  <2> QED BY ONLY <2>1, KnownStep
<1> QED BY <1>2, <1>5, <1>6

LEMMA WideProgram ==
    ASSUME NEW t, IsTest(t), t.kind = "wide"
    PROVE  LET c == IF t.code = ADD_N THEN ADC_N ELSE SBC_N
               p == Step(t.code, t.n)
               q == Step(LD_E_A, 0)
               r == Step(LD_A_N, B!High(t.w))
               s == Step(c, B!Low(t.w))
               u == Step(ADD_HL_BC, 0)
           IN  /\ Program(t) = <<p, q, r, s, u>>
               /\ StepOk(p) /\ StepOk(q) /\ StepOk(r) /\ StepOk(s) /\ StepOk(u)
               /\ Plain(p) /\ Plain(q) /\ Plain(r) /\ Plain(s) /\ Plain(u)
<1> DEFINE c == IF t.code = ADD_N THEN ADC_N ELSE SBC_N
<1>1. t.code \in {ADD_N, SUB_N} /\ t.n \in Byte /\ t.w \in Word
  BY Tested
<1>2. Program(t) = <<Step(t.code, t.n), Step(LD_E_A, 0), Step(LD_A_N, B!High(t.w)), Step(c, B!Low(t.w)), Step(ADD_HL_BC, 0)>>
  BY DEF Program
<1>3. PICK type \in Straight : Known(t.code, type, 2)
  BY <1>1, KnownCodes, StraightKinds
<1>4. PICK other \in Straight : Known(c, other, 2)
  BY <1>1, KnownCodes, StraightKinds
<1>5. /\ t.code \in 0..255 /\ c \in 0..255 /\ LD_E_A \in 0..255 /\ LD_A_N \in 0..255 /\ ADD_HL_BC \in 0..255
  BY <1>1 DEF ADD_N, SUB_N, ADC_N, SBC_N, LD_E_A, LD_A_N, ADD_HL_BC
<1> HIDE DEF c
<1>6. B!High(t.w) \in Byte /\ B!Low(t.w) \in Byte /\ B!High(t.w) \in Word /\ B!Low(t.w) \in Word /\ t.n \in Word /\ 0 \in Word /\ 0 \in Byte
  BY <1>1, Halves
<1>7. StepOk(Step(t.code, t.n)) /\ Plain(Step(t.code, t.n))
  BY <1>1, <1>3, <1>5, <1>6, KnownStep
<1>8. StepOk(Step(LD_E_A, 0)) /\ Plain(Step(LD_E_A, 0)) /\ StepOk(Step(ADD_HL_BC, 0)) /\ Plain(Step(ADD_HL_BC, 0))
  BY <1>5, <1>6, KnownCodes, StraightKinds, KnownStep
<1>9. StepOk(Step(LD_A_N, B!High(t.w))) /\ Plain(Step(LD_A_N, B!High(t.w)))
  BY <1>5, <1>6, KnownCodes, StraightKinds, KnownStep
<1>10. StepOk(Step(c, B!Low(t.w))) /\ Plain(Step(c, B!Low(t.w)))
  BY <1>4, <1>5, <1>6, KnownStep
<1> QED BY <1>2, <1>7, <1>8, <1>9, <1>10 DEF c

LEMMA MemoryProgram ==
    ASSUME NEW t, IsTest(t), t.kind = "memory"
    PROVE  LET p == Step(LD_NN_A, t.w[1])
               q == Step(LD_A_NN, t.w[2])
           IN  Program(t) = <<p, q>> /\ StepOk(p) /\ StepOk(q) /\ Plain(p) /\ Plain(q)
<1>1. t.w[1] \in Word /\ t.w[2] \in Word
  BY Tested
<1>2. Program(t) = <<Step(LD_NN_A, t.w[1]), Step(LD_A_NN, t.w[2])>>
  BY DEF Program
<1>3. LD_NN_A \in 0..255 /\ LD_A_NN \in 0..255
  BY DEF LD_NN_A, LD_A_NN
<1>4. StepOk(Step(LD_NN_A, t.w[1])) /\ Plain(Step(LD_NN_A, t.w[1]))
  BY <1>1, <1>3, KnownCodes, StraightKinds, KnownStep
<1>5. StepOk(Step(LD_A_NN, t.w[2])) /\ Plain(Step(LD_A_NN, t.w[2]))
  BY <1>1, <1>3, KnownCodes, StraightKinds, KnownStep
<1> QED BY <1>2, <1>4, <1>5

LEMMA StackProgram ==
    ASSUME NEW t, IsTest(t), t.kind = "stack"
    PROVE  LET p == Step(t.code, 4660)
               q == Step(IF Type(t.code) = "PUSH_R16" THEN t.code - 4 ELSE RET, 0)
           IN  /\ Program(t) = <<p, q>> /\ StepOk(p) /\ StepOk(q) /\ p.code < 256 /\ p.imm = 4660
               /\ \/ t.code \in Pushes /\ Known(t.code, "PUSH_R16", 1) /\ Known(t.code - 4, "POP_R16", 1) /\ q = Step(t.code - 4, 0)
                  \/ t.code \in Calls /\ Known(t.code, "CALL_NN", 3) /\ q = Step(RET, 0)
                  \/ t.code \in Calls /\ Known(t.code, "RST_N", 1) /\ q = Step(RET, 0)
<1> DEFINE p == Step(t.code, 4660)
           q == Step(IF Type(t.code) = "PUSH_R16" THEN t.code - 4 ELSE RET, 0)
<1>1. t.code \in Pushes \cup Calls
  BY Tested
<1>2. Program(t) = <<p, q>>
  BY DEF Program
<1>3. CASE t.code \in Pushes
  <2>1. t.code \in {197, 213, 229, 245} /\ Known(t.code, "PUSH_R16", 1) /\ Known(t.code - 4, "POP_R16", 1)
    BY <1>3, StackCodes
  <2>2. t.code \in 0..255 /\ t.code - 4 \in 0..255 /\ t.code < 256 /\ t.code - 4 < 256
    BY <2>1
  <2>3. q = Step(t.code - 4, 0)
    BY <2>1 DEF Known
  <2>4. StepOk(p) /\ p.code = t.code /\ p.imm = 4660
    BY <2>1, <2>2, Halves, KnownStep
  <2>5. StepOk(Step(t.code - 4, 0))
    BY <2>1, <2>2, Halves, KnownStep
  <2> QED BY <1>2, <1>3, <2>1, <2>2, <2>3, <2>4, <2>5
<1>4. CASE t.code \in Calls
  <2>1. t.code < 256 /\ (Known(t.code, "CALL_NN", 3) \/ Known(t.code, "RST_N", 1))
    BY <1>4, StackCodes
  <2>2. t.code \in 0..255 /\ RET \in 0..255
    <3>1. t.code \in Codes
      BY <1>4 DEF Calls
    <3> QED BY <2>1, <3>1, SMTT(30) DEF Codes, O!Codes, RET
  <2>3. q = Step(RET, 0)
    BY <2>1 DEF Known
  <2>4. StepOk(p) /\ p.code = t.code /\ p.imm = 4660
    <3>1. CASE Known(t.code, "CALL_NN", 3)
      <4>1. 4660 \in Word /\ (3 = 2 => 4660 \in Byte) /\ t.code \in 0..255
        BY <2>2, Halves
      <4> QED BY ONLY <3>1, <4>1, KnownStep
    <3>2. CASE Known(t.code, "RST_N", 1)
      <4>1. 4660 \in Word /\ (1 = 2 => 4660 \in Byte) /\ t.code \in 0..255
        BY <2>2, Halves
      <4> QED BY ONLY <3>2, <4>1, KnownStep
    <3> QED BY <2>1, <3>1, <3>2
  <2>5. StepOk(Step(RET, 0))
    <3>1. Known(RET, "RET", 1) /\ 0 \in Word /\ (1 = 2 => 0 \in Byte) /\ RET \in 0..255
      BY <2>2, KnownCodes, Halves
    <3> QED BY ONLY <3>1, KnownStep
  <2> QED BY <1>2, <1>4, <2>1, <2>2, <2>3, <2>4, <2>5
<1> QED BY <1>1, <1>3, <1>4

LEMMA InterruptProgram ==
    ASSUME NEW t, IsTest(t), t.kind = "interrupt"
    PROVE  Program(t) = <<Step(INT, 0), Step(RETI, 0)>> /\ StepOk(Step(RETI, 0)) /\ Step(INT, 0).code = INT
<1>1. Program(t) = <<Step(INT, 0), Step(RETI, 0)>>
  BY DEF Program
<1>2. RETI \in 0..255
  BY DEF RETI
<1>3. StepOk(Step(RETI, 0))
  <2>1. Known(RETI, "RETI", 1) /\ 0 \in Word /\ (1 = 2 => 0 \in Byte) /\ RETI \in 0..255
    BY <1>2, KnownCodes, Halves
  <2> QED BY ONLY <2>1, KnownStep
<1> QED BY <1>1, <1>3 DEF Step

Steps == [code : Int, imm : Int]

LEMMA StepType == ASSUME NEW c \in Int, NEW imm \in Int PROVE Step(c, imm) \in Steps
BY DEF Step, Steps

LEMMA StepOkType ==
    ASSUME NEW c, NEW imm, StepOk(Step(c, imm))
    PROVE  Step(c, imm) \in Steps /\ Step(c, imm).code # INT
<1>1. Step(c, imm).code = c /\ Step(c, imm).imm = imm
  BY DEF Step
<1>2. c \in Codes /\ imm \in Word
  BY <1>1 DEF StepOk
<1>3. c \in 0..511 /\ imm \in Int
  BY <1>2, WordIs, SMTT(30) DEF Codes, O!Codes
<1> QED BY <1>1, <1>3, StepType DEF INT

\* The steps of a program can all be loaded, but for the interrupt.
StepsOk(t, p) ==
    /\ p \in Seq(Steps) /\ Len(p) \in 1..5
    /\ \A k \in 1..Len(p) : \/ StepOk(p[k]) /\ p[k].code # INT
                            \/ t.kind = "interrupt" /\ k = 1 /\ p[k].code = INT
    /\ t.kind \in {"decimal", "wide", "memory"} => \A k \in 1..Len(p) : Plain(p[k])
    /\ t.kind = "one" => Len(p) = 1
    /\ t.kind = "stack" => /\ Len(p) = 2 /\ p[1].code < 256 /\ p[1].imm = 4660
                           /\ Type(p[1].code) \in {"PUSH_R16", "CALL_NN", "RST_N"}
    /\ t.kind = "interrupt" => Len(p) = 2 /\ p[1].code = INT

\* Every program is a sequence of steps that can be loaded.
LEMMA ProgramSteps == ASSUME NEW t, IsTest(t) PROVE StepsOk(t, Program(t))
<1>1. t.kind \in Kinds
  BY Tested
<1>2. CASE t.kind = "one"
  <2>1. PICK p : Program(t) = <<p>> /\ StepOk(p) /\ p \in Steps /\ p.code # INT
    BY <1>2, OneProgram, StepOkType
  <2> QED BY <1>2, <2>1 DEF StepsOk
<1>3. CASE t.kind = "decimal"
  <2>1. PICK p, q : /\ Program(t) = <<p, q>> /\ StepOk(p) /\ StepOk(q) /\ Plain(p) /\ Plain(q)
                    /\ p \in Steps /\ p.code # INT /\ q \in Steps /\ q.code # INT
    BY <1>3, DecimalProgram, StepOkType
  <2> QED BY <1>3, <2>1 DEF StepsOk
<1>4. CASE t.kind = "wide"
  <2>1. PICK p, q, r, s, u :
           /\ Program(t) = <<p, q, r, s, u>>
           /\ StepOk(p) /\ StepOk(q) /\ StepOk(r) /\ StepOk(s) /\ StepOk(u)
           /\ Plain(p) /\ Plain(q) /\ Plain(r) /\ Plain(s) /\ Plain(u)
           /\ p \in Steps /\ q \in Steps /\ r \in Steps /\ s \in Steps /\ u \in Steps
           /\ p.code # INT /\ q.code # INT /\ r.code # INT /\ s.code # INT /\ u.code # INT
    BY <1>4, WideProgram, StepOkType
  <2> QED BY <1>4, <2>1 DEF StepsOk
<1>5. CASE t.kind = "memory"
  <2>1. PICK p, q : /\ Program(t) = <<p, q>> /\ StepOk(p) /\ StepOk(q) /\ Plain(p) /\ Plain(q)
                    /\ p \in Steps /\ p.code # INT /\ q \in Steps /\ q.code # INT
    BY <1>5, MemoryProgram, StepOkType
  <2> QED BY <1>5, <2>1 DEF StepsOk
<1>6. CASE t.kind = "stack"
  <2> DEFINE p == Step(t.code, 4660)
             q == Step(IF Type(t.code) = "PUSH_R16" THEN t.code - 4 ELSE RET, 0)
  <2>1. /\ Program(t) = <<p, q>> /\ StepOk(p) /\ StepOk(q) /\ p.code < 256 /\ p.imm = 4660
    BY <1>6, StackProgram
  <2>2. p \in Steps /\ p.code # INT /\ q \in Steps /\ q.code # INT
    BY <2>1, StepOkType
  <2>3. Type(p.code) \in {"PUSH_R16", "CALL_NN", "RST_N"}
    <3>1. p.code = t.code
      BY DEF Step
    <3>2. Type(t.code) \in {"PUSH_R16", "CALL_NN", "RST_N"}
      BY <1>6, StackProgram DEF Known
    <3> HIDE DEF p
    <3> QED BY <3>1, <3>2
  <2> HIDE DEF p, q
  <2> QED BY <1>6, <2>1, <2>2, <2>3 DEF StepsOk
<1>7. CASE t.kind = "interrupt"
  <2>1. Program(t) = <<Step(INT, 0), Step(RETI, 0)>> /\ StepOk(Step(RETI, 0)) /\ Step(INT, 0).code = INT
    BY <1>7, InterruptProgram
  <2>2. Step(INT, 0) \in Steps /\ Step(RETI, 0) \in Steps /\ Step(RETI, 0).code # INT
    BY <2>1, StepType, StepOkType DEF INT
  <2> QED BY <1>7, <2>1, <2>2 DEF StepsOk
<1> QED BY <1>1, <1>2, <1>3, <1>4, <1>5, <1>6, <1>7 DEF Kinds

-----------------------------------------------------------------------------
(* How far a program is *)

\* The steps that are done, when s are left of p.
Done(p, s) == Len(p) - Len(s)
Remains(p, s) ==
    /\ s \in Seq(Steps) /\ Len(s) <= Len(p)
    /\ \A k \in 1..Len(s) : s[k] = p[Done(p, s) + k]

LEMMA LeftStart == ASSUME NEW p \in Seq(Steps) PROVE Remains(p, p) /\ Done(p, p) = 0
BY DEF Remains, Done

\* The next step is the one behind those that are done.
LEMMA LeftNext ==
    ASSUME NEW p \in Seq(Steps), NEW s, Remains(p, s), s # <<>>
    PROVE  /\ Head(s) = p[Done(p, s) + 1] /\ Remains(p, Tail(s)) /\ Done(p, Tail(s)) = Done(p, s) + 1
           /\ Done(p, s) + 1 \in 1..Len(p) /\ (Tail(s) = <<>> <=> Done(p, s) + 1 = Len(p)) /\ Done(p, s) \in Nat
<1>1. s \in Seq(Steps) /\ Len(s) <= Len(p) /\ Len(p) \in Nat /\ Len(s) \in Nat /\ Len(s) > 0
  BY DEF Remains
<1>2. Tail(s) \in Seq(Steps) /\ Len(Tail(s)) = Len(s) - 1 /\ \A k \in 1..Len(Tail(s)) : Tail(s)[k] = s[k + 1]
  BY <1>1
<1>3. Head(s) = s[1] /\ 1 \in 1..Len(s)
  BY <1>1
<1>4. Done(p, Tail(s)) = Done(p, s) + 1 /\ Done(p, s) \in Nat
  BY <1>1, <1>2 DEF Done
<1>5. \A k \in 1..Len(Tail(s)) : Tail(s)[k] = p[Done(p, Tail(s)) + k]
  <2> SUFFICES ASSUME NEW k \in 1..Len(Tail(s)) PROVE Tail(s)[k] = p[Done(p, Tail(s)) + k]
    OBVIOUS
  <2>1. k + 1 \in 1..Len(s) /\ Tail(s)[k] = s[k + 1]
    BY <1>1, <1>2
  <2>2. s[k + 1] = p[Done(p, s) + (k + 1)]
    BY <2>1 DEF Remains
  <2>3. Done(p, s) + (k + 1) = Done(p, Tail(s)) + k
    BY <1>4, <2>1
  <2> QED BY <2>1, <2>2, <2>3
<1>6. Remains(p, Tail(s))
  BY <1>1, <1>2, <1>5 DEF Remains
<1>7. Head(s) = p[Done(p, s) + 1]
  BY <1>3 DEF Remains
<1>8. Done(p, s) + 1 \in 1..Len(p) /\ (Tail(s) = <<>> <=> Done(p, s) + 1 = Len(p))
  <2>1. Done(p, s) \in Nat /\ Done(p, s) = Len(p) - Len(s)
    BY <1>4 DEF Done
  <2>2. Tail(s) = <<>> <=> Len(Tail(s)) = 0
    <3>1. \A q \in Seq(Steps) : q = <<>> <=> Len(q) = 0
      OBVIOUS
    <3> QED BY <1>2, <3>1
  <2>3. Done(p, s) + 1 \in Nat /\ Done(p, s) + 1 >= 1 /\ Done(p, s) + 1 <= Len(p)
    BY <1>1, <2>1
  <2>4. Len(Tail(s)) = 0 <=> Done(p, s) + 1 = Len(p)
    <3> DEFINE a == Len(Tail(s))
               b == Len(s)
               c == Len(p)
               d == Done(p, s)
    <3>1. a = b - 1 /\ d = c - b /\ b \in Int /\ c \in Int
      BY <1>1, <1>2, <2>1
    <3> HIDE DEF a, b, c, d
    <3>2. a = 0 <=> d + 1 = c
      BY <3>1
    <3> QED BY <3>2 DEF a, c, d
  <2> QED BY <2>2, <2>3, <2>4
<1> QED BY <1>4, <1>6, <1>7, <1>8

\* The bus of the tests is that of the backends.
LEMMA BusCells ==
    /\ \A a : B!Cell(a) = E!Cell(a) /\ B!Trunc16(a) = E!Trunc16(a)
    /\ \A a \in Word : E!Cell(a) \in Word
    /\ \A a \in Int : E!Trunc16(a) \in Word
<1>1. \A a : B!Cell(a) = E!Cell(a) /\ B!Trunc16(a) = E!Trunc16(a)
  BY DEF B!Cell, E!Cell, B!EchoRam, E!EchoRam, B!Trunc16, E!Trunc16
<1>2. \A a \in Word : E!Cell(a) \in Word
  BY CellType
<1>3. \A a \in Int : E!Trunc16(a) \in Word
  <2> SUFFICES ASSUME NEW a \in Int PROVE E!Trunc16(a) \in Word
    OBVIOUS
  <2>1. a % 65536 \in Int /\ 0 <= a % 65536 /\ a % 65536 <= 65535
    OBVIOUS
  <2> QED BY <2>1, WordIs DEF E!Trunc16
<1> QED BY <1>1, <1>2, <1>3

LEMMA StartRam == ASSUME NEW t, IsTest(t) PROVE Cells(t) \in Memory
<1>1. t.n \in Byte
  BY Tested
<1>2. CASE t.kind = "memory"
  <2> DEFINE a == B!Cell(t.w[1])
             b == B!Cell(t.w[2])
  <2>1. a \in Word /\ b \in Word
    BY <1>2, Tested, BusCells
  <2>2. Cells(t) = [x \in {a, b} |-> (x + 77) % 256]
    BY <1>2 DEF Cells
  <2>3. \A x \in {a, b} : x \in Int
    BY <2>1, WordIs
  <2> HIDE DEF a, b
  <2>4. \A x \in {a, b} : (x + 77) % 256 \in Byte
    <3> SUFFICES ASSUME NEW x \in Int PROVE (x + 77) % 256 \in Byte
      BY <2>3
    <3>1. (x + 77) % 256 \in Int /\ 0 <= (x + 77) % 256 /\ (x + 77) % 256 <= 255
      OBVIOUS
    <3> QED BY <3>1, ByteIs
  <2>5. Cells(t) \in [{a, b} -> Byte]
    BY <2>2, <2>4
  <2>6. {a, b} \in SUBSET Word
    BY <2>1
  <2> QED BY <2>5, <2>6 DEF Memory
<1>3. CASE t.kind # "memory"
  <2> DEFINE a == B!Cell(t.w)
             b == B!Cell(B!Trunc16(t.w + 1))
             v == (t.n + 90) % 256
  <2>1. t.w \in Word /\ t.w + 1 \in Int
    BY <1>3, Tested, WordIs
  <2>2. a \in Word /\ b \in Word
    BY <2>1, BusCells
  <2>3. Cells(t) = [x \in {a, b} |-> IF x = a THEN t.n ELSE v]
    BY <1>3 DEF Cells
  <2>4. v \in Byte
    <3>1. v \in Int /\ 0 <= v /\ v <= 255
      BY <1>1, ByteIs
    <3> QED BY <3>1, ByteIs
  <2> HIDE DEF a, b, v
  <2>5. Cells(t) \in [{a, b} -> Byte]
    BY <1>1, <2>3, <2>4
  <2>6. {a, b} \in SUBSET Word
    BY <2>2
  <2> QED BY <2>5, <2>6 DEF Memory
<1> QED BY <1>2, <1>3

LEMMA StartRegisters == ASSUME NEW t, IsTest(t) PROVE Registers(t) \in Registers8
<1>1. t.n \in Byte /\ t.a \in Byte /\ 255 - t.n \in Byte /\ 0 \in Byte
  BY Tested, ByteIs
<1>2. ASSUME NEW w \in Word PROVE B!High(w) \in Byte /\ B!Low(w) \in Byte
  BY Halves
<1>3. ASSUME NEW a \in Byte, NEW b \in Byte, NEW c \in Byte, NEW d \in Byte, NEW x \in Byte, NEW h \in Byte, NEW y \in Byte
      PROVE  [A |-> a, B |-> b, C |-> c, D |-> d, E |-> x, H |-> h, L |-> y] \in Registers8
  BY DEF Registers8, Reg8
<1> DEFINE pointing == t.kind = "one" /\ Type(t.code) \in (O!Loads \cup O!Stores) \ StackTypes
<1>4. CASE pointing
  <2>1. t.w \in Word
    BY <1>4, Tested
  <2>2. B!High(t.w) \in Byte /\ B!Low(t.w) \in Byte
    BY <1>2, <2>1
  <2>3. t.kind # "wide" /\ Registers(t) = [A |-> t.a, B |-> B!High(t.w), C |-> B!Low(t.w), D |-> B!High(t.w), E |-> B!Low(t.w),
              H |-> B!High(t.w), L |-> B!Low(t.w)]
    BY <1>4 DEF Registers
  <2> QED BY <1>1, <1>3, <2>2, <2>3
<1>5. CASE ~pointing /\ t.kind = "wide"
  <2>1. t.w \in Word
    BY <1>5, Tested
  <2>2. B!High(t.w) \in Byte /\ B!Low(t.w) \in Byte
    BY <1>2, <2>1
  <2>3. Registers(t) = [A |-> t.a, B |-> B!Low(t.w), C |-> t.n, D |-> 0, E |-> 0, H |-> B!High(t.w), L |-> t.a]
    BY <1>5 DEF Registers
  <2> DEFINE a == t.a
             b == B!Low(t.w)
             c == t.n
             d == 0
             h == B!High(t.w)
  <2>4. a \in Byte /\ b \in Byte /\ c \in Byte /\ d \in Byte /\ h \in Byte
    BY <1>1, <2>2
  <2>5. Registers(t) = [A |-> a, B |-> b, C |-> c, D |-> d, E |-> d, H |-> h, L |-> a]
    BY <2>3
  <2> HIDE DEF a, b, c, d, h
  <2> QED BY ONLY <1>3, <2>4, <2>5
<1>6. CASE ~pointing /\ t.kind # "wide"
  <2>1. Registers(t) = [A |-> t.a, B |-> t.n, C |-> 255 - t.n, D |-> t.n, E |-> 255 - t.n, H |-> t.n, L |-> 255 - t.n]
    BY <1>6 DEF Registers
  <2> QED BY <1>1, <1>3, <2>1
<1> QED BY <1>4, <1>5, <1>6

\* The machine that a test starts from.
LEMMA StartType ==
    ASSUME NEW t, IsTest(t), NEW x, x = Start(t)
    PROVE  /\ x \in Machine /\ x.pc = Entry /\ x.log = <<>> /\ x.lowFirst = t.lowFirst /\ x.flag = t.f
           /\ x.reg = Registers(t) /\ x.ram = Cells(t) /\ x.ime = 1
           /\ t.kind # "memory" => x.sp = t.w
<1> DEFINE sp == IF t.kind = "memory" THEN 65534 ELSE t.w
<1>1. sp \in Word
  BY Tested, WordIs
<1>2. Entry \in Word /\ 1 \in {0, 1} /\ 100 \in Nat /\ <<>> \in Log
  BY WordIs DEF Entry, Log
<1>3. t.f \in Flags /\ t.lowFirst \in BOOLEAN /\ Registers(t) \in Registers8 /\ Cells(t) \in Memory
  BY Tested, StartRam, StartRegisters
<1>4. x = [reg |-> Registers(t), flag |-> t.f, sp |-> sp, pc |-> Entry, ime |-> 1, cycles |-> 100, ram |-> Cells(t),
           log |-> <<>>, lowFirst |-> t.lowFirst]
  BY DEF Start
<1>5. t.kind # "memory" => sp = t.w
  OBVIOUS
<1> HIDE DEF sp
<1> QED BY <1>1, <1>2, <1>3, <1>4, <1>5 DEF Machine

\* Where a program of t may be when k of its steps are done.
Where(t, k, pc) ==
    IF k = 0 THEN pc = Entry ELSE IF t.kind = "stack" THEN pc <= 4660 ELSE pc <= Entry + 3 * k

\* The program stays inside the cartridge.
LEMMA WhereRoom ==
    ASSUME NEW t, NEW k, k \in Nat, k <= 4, NEW n, n \in Machine, Where(t, k, n.pc)
    PROVE  Room(n)
<1>1. n.pc \in Int
  BY WordIs DEF Machine
<1> QED BY <1>1 DEF Where, Room, Entry

LEMMA StepsAre ==
    ASSUME NEW t, NEW p, StepsOk(t, p), NEW j, j \in 1..Len(p), NEW s, s = p[j]
    PROVE  /\ t.kind \in {"decimal", "wide", "memory"} => Plain(s)
           /\ t.kind = "one" => Len(p) = 1
           /\ t.kind = "stack" => /\ Len(p) = 2
                                  /\ j = 1 => /\ s.code < 256 /\ s.imm = 4660
                                              /\ Type(s.code) \in {"PUSH_R16", "CALL_NN", "RST_N"}
           /\ t.kind = "interrupt" => Len(p) = 2 /\ (j = 1 => s.code = INT)
BY DEF StepsOk

\* A step leads to where the next one may be.
LEMMA Onward ==
    ASSUME NEW t, IsTest(t), NEW k, k \in Nat, k <= 4, NEW n, n \in Machine, Where(t, k, n.pc), NEW s, StepOk(s), NEW x, x = Loaded(n, s),
           s = Program(t)[k + 1], k + 1 \in 1..Len(Program(t)), k + 1 # Len(Program(t))
    PROVE  Where(t, k + 1, L!Run(x, Instruction(s)).pc)
<1> DEFINE i == Instruction(s)
           q == L!Run(x, i).pc
<1>1. StepsOk(t, Program(t)) /\ t.kind \in Kinds
  BY ProgramSteps, Tested
<1>2. Room(n) /\ n.pc \in Int /\ 0 <= n.pc
  <2>1. Room(n)
    BY ONLY k \in Nat, k <= 4, n \in Machine, Where(t, k, n.pc), WhereRoom
  <2> QED BY <2>1, WordIs DEF Machine
<1> DEFINE p == Program(t)
           j == k + 1
<1>10. StepsOk(t, p) /\ j \in 1..Len(p) /\ s = p[j] /\ j # Len(p)
  BY <1>1
<1> HIDE DEF p
<1>11. /\ t.kind \in {"decimal", "wide", "memory"} => Plain(s)
       /\ t.kind = "one" => Len(p) = 1
       /\ t.kind = "stack" => /\ Len(p) = 2
                              /\ j = 1 => /\ s.code < 256 /\ s.imm = 4660
                                          /\ Type(s.code) \in {"PUSH_R16", "CALL_NN", "RST_N"}
       /\ t.kind = "interrupt" => Len(p) = 2 /\ (j = 1 => s.code = INT)
  <2> HIDE DEF j
  <2> QED BY ONLY <1>10, StepsAre
<1>12. t.kind \in {"one", "stack", "interrupt"} => t.kind # "one" /\ k = 0 /\ j = 1
  <2> DEFINE c == Len(p)
  <2>1. j \in 1..c /\ j # c /\ j = k + 1 /\ k \in Nat
    BY <1>10
  <2>2. /\ t.kind = "one" => c = 1
        /\ t.kind = "stack" => c = 2
        /\ t.kind = "interrupt" => c = 2
    BY <1>11
  <2> HIDE DEF c, j
  <2>3. c # 1 /\ (c = 2 => k = 0 /\ j = 1)
    BY <2>1, <2>2
  <2> QED BY <2>2, <2>3
<1>3. /\ i.type = Type(s.code)
      /\ s.code < 256 /\ Type(s.code) \in Straight => q = E!Trunc16(n.pc + i.len)
      /\ s.code < 256 /\ Type(s.code) \in Stacked => q = n.pc + 1
      /\ s.code < 256 /\ Type(s.code) = "CALL_NN" => q = i.imm
      /\ s.code < 256 /\ Type(s.code) = "RST_N" => q = i.operands[1]
  <2>1. n \in Machine /\ Room(n) /\ StepOk(s) /\ x = Loaded(n, s)
    BY <1>2
  <2> QED BY ONLY <2>1, EveryInstructionDoesTheSame
<1>4. i.imm = s.imm /\ s.code \in Codes
  BY DEF Instruction, StepOk
<1>5. s.code < 256 => i.len \in 1..3 /\ (i.type = "RST_N" => i.operands[1] <= 56 /\ i.operands[1] \in Int)
  <2>1. ASSUME s.code < 256 PROVE i.len \in 1..3 /\ Typed(i.type, i.operands)
    BY <1>4, <2>1, Unprefixed DEF Agrees
  <2>2. ASSUME s.code < 256, i.type = "RST_N" PROVE i.operands[1] <= 56 /\ i.operands[1] \in Int
    <3>1. PICK row \in 0..7 : i.operands = <<8 * row>>
      BY <2>1, <2>2 DEF Typed
    <3>2. i.operands[1] = 8 * row
      BY <3>1
    <3> QED BY <3>2
  <2> QED BY <2>1, <2>2
<1> HIDE DEF i, q, j
<1>6. ASSUME t.kind \in {"decimal", "wide", "memory"} PROVE Where(t, k + 1, q)
  <2>1. Plain(s)
    BY <1>6, <1>11
  <2>2. q = E!Trunc16(n.pc + i.len) /\ i.len \in 1..3
    BY <1>3, <1>5, <2>1 DEF Plain
  <2>3. n.pc <= Entry + 3 * k
    BY <1>2, <1>6 DEF Where, Entry
  <2>4. n.pc + i.len <= Entry + 3 * (k + 1) /\ 0 <= n.pc + i.len /\ n.pc + i.len \in Int /\ n.pc + i.len < 65536
    BY <1>2, <2>2, <2>3 DEF Entry
  <2>5. q = n.pc + i.len
    BY <2>2, <2>4 DEF E!Trunc16
  <2> QED BY <1>6, <2>4, <2>5 DEF Where
<1>7. ASSUME t.kind = "stack" PROVE Where(t, k + 1, q)
  <2>1. k = 0 /\ s.code < 256 /\ s.imm = 4660 /\ Type(s.code) \in {"PUSH_R16", "CALL_NN", "RST_N"}
    BY <1>7, <1>11, <1>12
  <2>2. n.pc = 336
    BY <2>1 DEF Where, Entry
  <2>3. q <= 4660
    <3>1. CASE Type(s.code) = "PUSH_R16"
      BY <1>3, <2>1, <2>2, <3>1 DEF Stacked
    <3>2. CASE Type(s.code) = "CALL_NN"
      BY <1>3, <1>4, <2>1, <3>2
    <3>3. CASE Type(s.code) = "RST_N"
      <4>1. q = i.operands[1]
        BY <1>3, <2>1, <3>3
      <4>2. q <= 56 /\ q \in Int
        BY <1>3, <1>5, <2>1, <3>3, <4>1
      <4> QED BY ONLY <4>2
    <3> QED BY <2>1, <3>1, <3>2, <3>3
  <2> QED BY <1>7, <2>1, <2>3 DEF Where
<1>8. ASSUME t.kind = "one" PROVE Where(t, k + 1, q)
  BY <1>8, <1>12
<1>9. ASSUME t.kind = "interrupt" PROVE Where(t, k + 1, q)
  <2>1. s.code = INT
    BY <1>9, <1>11, <1>12
  <2> QED BY <1>4, <2>1, SMTT(30) DEF Codes, O!Codes, INT
<1>13. Where(t, k + 1, q)
  BY <1>1, <1>6, <1>7, <1>8, <1>9 DEF Kinds
<1> QED BY <1>13 DEF q, i

-----------------------------------------------------------------------------
(* What the two backends have in common after every instruction *)

\* The interpreter has made the same of the machine as compiled code, but for the order
\* and the times of the accesses; the program is where it may be.
Fresh == last \in {"none", "INT"} /\ l = e /\ l.log = <<>>
Executed == last \notin {"none", "INT"} /\ m.lowFirst = test.lowFirst /\ Outcome(m, last, l, e)
Progress ==
    LET p == Program(test) IN
    /\ Remains(p, todo)
    /\ todo # <<>> => Where(test, Done(p, todo), l.pc)
    /\ Done(p, todo) = 0 => l = Start(test) /\ e = l /\ last = "none"
Together ==
    /\ IsTest(test)
    /\ l \in Machine /\ e \in Machine /\ Bare(l) = Bare(e) /\ l.lowFirst = test.lowFirst
    /\ Progress
    /\ Fresh \/ Executed

\* Together is inductive: at the start, by an instruction, by an interrupt.
LEMMA TogetherInit == Init => Together
<1> SUFFICES ASSUME Init PROVE Together
  OBVIOUS
<1>1. IsTest(test)
  BY BackendsAssumption DEF Init
<1>2. l = Start(test) /\ e = l /\ last = "none" /\ todo = Program(test)
  BY DEF Init
<1>3. l \in Machine /\ l.pc = Entry /\ l.log = <<>> /\ l.lowFirst = test.lowFirst
  BY <1>1, <1>2, StartType
<1>4. Remains(Program(test), todo) /\ Done(Program(test), todo) = 0
  BY <1>1, <1>2, ProgramSteps, LeftStart DEF StepsOk
<1>5. Progress
  BY <1>2, <1>3, <1>4 DEF Progress, Where
<1> QED BY <1>1, <1>2, <1>3, <1>5 DEF Together, Fresh

LEMMA TypeNames == \A c \in Codes : Type(c) \notin {"none", "INT"}
<1> SUFFICES ASSUME NEW c \in Codes PROVE Type(c) \notin {"none", "INT"}
  OBVIOUS
<1>1. c \in 0..511
  BY SMTT(30) DEF Codes, O!Codes
<1>2. CASE c < 256
  <2> DEFINE st == Step(c, 0)
             i == Instruction(st)
  <2>1. st.code = c
    BY DEF Step
  <2>2. Sized(i) /\ i.type = Type(c)
    BY <1>2, <2>1, Unprefixed
  <2> HIDE DEF i
  <2> QED BY <2>2 DEF Sized, Types1, AluR8, AluHL, Len2, Len3, AluN
<1>3. CASE c >= 256
  <2> DEFINE st == Step(c, 0)
             i == Instruction(st)
             cb == c - 256
  <2>1. st.code = c
    BY DEF Step
  <2>2. CbCase(i, cb) /\ i.type = Type(c) /\ cb \in 0..255
    BY <1>3, <2>1, CbCases
  <2> HIDE DEF i, cb
  <2>3. i.type \in ShiftBytes \cup ShiftCells \cup BitBytes \cup BitCells
    BY <2>2 DEF CbCase
  <2> QED BY <2>2, <2>3 DEF ShiftBytes, ShiftCells, BitBytes, BitCells
<1> QED BY <1>1, <1>2, <1>3

LEMMA TogetherExecute ==
    ASSUME Together, Execute
    PROVE  Together'
<1> DEFINE p == Program(test)
           s == Head(todo)
           k == Done(p, todo)
           i == Instruction(s)
           t == Type(s.code)
<1>1. IsTest(test) /\ l \in Machine /\ e \in Machine /\ Bare(l) = Bare(e) /\ l.lowFirst = test.lowFirst
      /\ Remains(p, todo) /\ todo # <<>> /\ Where(test, k, l.pc)
  BY DEF Together, Progress, Execute
<1>2. PICK from \in {l, e} : m' = Loaded(from, s)
  BY DEF Execute
<1>3. /\ s.code # INT /\ l' = L!Run(m', i) /\ e' = E!Run(m') /\ last' = t /\ todo' = Tail(todo) /\ test' = test
  BY DEF Execute
<1>4. StepsOk(test, p)
  BY <1>1, ProgramSteps
<1>5. p \in Seq(Steps) /\ Len(p) \in 1..5
  BY <1>4 DEF StepsOk
<1>6. /\ s = p[k + 1] /\ Remains(p, todo') /\ Done(p, todo') = k + 1 /\ k + 1 \in 1..Len(p)
      /\ (todo' = <<>> <=> k + 1 = Len(p)) /\ k \in Nat
  BY <1>1, <1>3, <1>5, LeftNext
<1>7. StepOk(s)
  BY <1>3, <1>4, <1>6 DEF StepsOk
<1>8. k \in Nat /\ k <= 4
  BY <1>5, <1>6
<1>9. m' = Loaded(l, s)
  BY <1>1, <1>2, LoadedBare
<1> HIDE DEF p, s, k, i, t
<1>10. Room(l)
  BY <1>1, <1>8, WhereRoom
<1>11. m' \in Machine /\ m'.lowFirst = test.lowFirst
  BY <1>1, <1>7, <1>9, <1>10, LoadedIs
<1>12. Outcome(m', t, l', e')
  <2>1. Outcome(m', t, L!Run(m', i), E!Run(m'))
    BY <1>1, <1>7, <1>9, <1>10, EveryInstructionDoesTheSame DEF i, t
  <2> QED BY <1>3, <2>1
<1>13. l' \in Machine /\ e' \in Machine /\ Bare(l') = Bare(e') /\ l'.lowFirst = test.lowFirst
  BY <1>11, <1>12 DEF Outcome
<1>14. todo' # <<>> => Where(test, k + 1, l'.pc)
  <2>1. ASSUME k + 1 # Len(p) PROVE Where(test, k + 1, L!Run(m', i).pc)
    BY <1>1, <1>6, <1>7, <1>8, <1>9, <2>1, Onward DEF p, i
  <2> QED BY <1>3, <1>6, <2>1
<1>15. Progress'
  <2>1. k + 1 # 0
    BY <1>8
  <2> QED BY <1>3, <1>6, <1>14, <2>1 DEF Progress, p
<1>16. t \notin {"none", "INT"}
  BY <1>7, TypeNames DEF t, StepOk
<1> QED BY <1>1, <1>3, <1>11, <1>12, <1>13, <1>15, <1>16 DEF Together, Executed

\* The machine an interrupt leaves.
Interrupted(n) == [B!interrupt_push(n) EXCEPT !.pc = 64]

LEMMA SameStore == \A n, a, v : B!store(n, a, v) = E!store(n, a, v)
BY DEF B!store, E!store

LEMMA InterruptType ==
    ASSUME NEW n, n \in Machine, Quiet(n), NEW x, x = Interrupted(n)
    PROVE  /\ x \in Machine /\ x.log = <<>> /\ x.lowFirst = n.lowFirst /\ x.pc = 64
<1> DEFINE s1 == B!Trunc16(n.sp - 1)
           s2 == B!Trunc16(n.sp - 2)
           h == B!High(n.pc)
           b == B!Low(n.pc)
           y == B!store(n, s1, h)
           z == B!store(y, s2, b)
<1>1. n.sp \in Int /\ n.pc \in Word /\ Good(n)
  BY WordIs DEF Machine, Good, Quiet, Stamped
<1>2. s1 \in Word /\ s2 \in Word /\ h \in Byte /\ b \in Byte
  BY <1>1, BusCells, Halves
<1>3. B!interrupt_push(n) = [z EXCEPT !.sp = s2, !.ime = 0]
  BY DEF B!interrupt_push
<1> HIDE DEF s1, s2, h, b, y, z
<1>4. From(n, y)
  BY <1>1, <1>2, StoreKeeps, SameStore DEF y
<1>5. From(y, z)
  BY <1>2, <1>4, StoreKeeps, SameStore DEF z, From
<1>6. z.log = <<>> /\ z.lowFirst = n.lowFirst
  <2>1. y.log = n.log
    BY <1>1 DEF y, B!store, Machine
  <2>2. z.log = y.log
    BY <1>4 DEF z, B!store, From, Good, Machine
  <2> QED BY <1>4, <1>5, <2>1, <2>2 DEF Quiet, From
<1>7. z \in Machine
  BY <1>5 DEF From, Good
<1>8. x = [z EXCEPT !.sp = s2, !.ime = 0, !.pc = 64]
  BY <1>3, <1>7 DEF Interrupted, Machine
<1>9. 64 \in Word
  BY WordIs
<1> QED BY <1>2, <1>6, <1>7, <1>8, <1>9 DEF Machine

\* The controller works on one machine, so that both are left the same.
LEMMA TogetherInterrupt ==
    ASSUME Together, Interrupt
    PROVE  Together'
<1> DEFINE p == Program(test)
           s == Head(todo)
           k == Done(p, todo)
<1>1. IsTest(test) /\ Remains(p, todo) /\ todo # <<>>
  BY DEF Together, Progress, Interrupt
<1>2. /\ s.code = INT /\ m' = l /\ l' = Interrupted(l) /\ e' = l' /\ last' = "INT" /\ todo' = Tail(todo) /\ test' = test
  BY DEF Interrupt, Interrupted
<1>3. StepsOk(test, p)
  BY <1>1, ProgramSteps
<1>4. p \in Seq(Steps) /\ Len(p) \in 1..5
  BY <1>3 DEF StepsOk
<1>5. /\ s = p[k + 1] /\ Remains(p, todo') /\ Done(p, todo') = k + 1 /\ k + 1 \in 1..Len(p) /\ k \in Nat
  BY <1>1, <1>2, <1>4, LeftNext
<1>6. ~StepOk(s)
  <2> HIDE DEF s
  <2> QED BY <1>2, SMTT(30) DEF StepOk, Codes, O!Codes, INT
<1>7. test.kind = "interrupt" /\ k + 1 = 1
  BY <1>3, <1>5, <1>6 DEF StepsOk
<1>8. k = 0
  BY <1>5, <1>7
<1>9. l = Start(test) /\ e = l
  BY <1>8 DEF Together, Progress
<1>10. l \in Machine /\ Quiet(l) /\ l.lowFirst = test.lowFirst
  BY <1>1, <1>9, StartType DEF Quiet
<1> HIDE DEF p, s, k
<1>11. l' \in Machine /\ l'.log = <<>> /\ l'.lowFirst = test.lowFirst /\ l'.pc = 64
  BY <1>2, <1>10, InterruptType
<1>12. Where(test, k + 1, l'.pc) /\ k + 1 # 0
  BY <1>7, <1>8, <1>11 DEF Where, Entry
<1>13. Progress'
  BY <1>2, <1>5, <1>12 DEF Progress, p
<1>14. Fresh'
  BY <1>2, <1>11 DEF Fresh
<1> QED BY <1>1, <1>2, <1>11, <1>13, <1>14 DEF Together

LEMMA TogetherNext == Together /\ [Next]_vars => Together'
<1> SUFFICES ASSUME Together, [Next]_vars PROVE Together'
  OBVIOUS
<1>1. CASE Execute
  BY <1>1, TogetherExecute
<1>2. CASE Interrupt
  BY <1>2, TogetherInterrupt
<1>3. CASE UNCHANGED vars
  BY <1>3 DEF vars, Together, Progress, Fresh, Executed
<1> QED BY <1>1, <1>2, <1>3 DEF Next

\* Whichever backend runs which instruction of a program, both leave the same machine
\* behind, and the next instruction is where both look for it (opcodes.go, emulator.c).
THEOREM BackendsTogether == Spec => []Together
<1>1. Init => Together
  BY TogetherInit
<1>2. Together /\ [Next]_vars => Together'
  BY TogetherNext
<1> QED BY <1>1, <1>2, PTL DEF Spec

LEMMA AccessesAreTrace == \A n : Accesses(n) = Trace(n.log)
BY DEF Accesses, Trace

\* What the runs check follows from it.
LEMMA TogetherSameState == Together => SameState
BY DEF Together, SameState, Bare

LEMMA TogetherSameAccesses == Together => SameAccesses
<1> SUFFICES ASSUME Together PROVE SameAccesses
  OBVIOUS
<1>0. Accesses(l) = Trace(l.log) /\ Accesses(e) = Trace(e.log)
  BY AccessesAreTrace
<1>1. CASE Fresh
  <2>1. last \notin StackTypes /\ last \notin {"POP_R16", "RET", "RET_CC", "RETI"}
    BY <1>1 DEF Fresh, StackTypes
  <2> QED BY <1>1, <2>1 DEF Fresh, SameAccesses
<1>2. CASE Executed
  <2>1. Ordered(last, test.lowFirst, Accesses(l), Accesses(e))
    BY <1>0, <1>2 DEF Executed, Outcome
  <2>2. /\ last \in Popping => Accesses(e) = IF test.lowFirst THEN Accesses(l) ELSE Reversed(Accesses(l))
        /\ last \notin Popping /\ last \in Pushing => Accesses(e) = Reversed(Accesses(l))
        /\ last \notin Popping /\ last \notin Pushing => Accesses(e) = Accesses(l)
    BY <2>1 DEF Ordered
  <2>3. StackTypes \ {"POP_R16", "RET", "RET_CC", "RETI"} = Pushing /\ Popping = {"POP_R16", "RET", "RET_CC", "RETI"}
    BY DEF StackTypes, Pushing, Popping
  <2>4. \A t : t \in Pushing => t \notin Popping
    BY DEF Pushing, Popping
  <2>5. CASE last \in Popping
    BY <2>2, <2>3, <2>4, <2>5 DEF SameAccesses
  <2>6. CASE last \in Pushing
    BY <2>2, <2>3, <2>4, <2>6 DEF SameAccesses
  <2>7. CASE last \notin Popping /\ last \notin Pushing
    BY <2>2, <2>3, <2>7 DEF SameAccesses
  <2> QED BY <2>5, <2>6, <2>7
<1> QED BY <1>1, <1>2 DEF Together

LEMMA TogetherAccessTimes == Together => AccessTimes
<1> SUFFICES ASSUME Together PROVE AccessTimes
  OBVIOUS
<1>1. CASE Fresh
  <2>1. DOMAIN l.log = {}
    BY <1>1, NothingSeen DEF Fresh
  <2> QED BY <2>1 DEF AccessTimes
<1>2. CASE Executed
  <2>1. Skew = SkewOf(last)
    BY DEF Skew, SkewOf
  <2>2. Timely(m, last, l, e)
    BY <1>2 DEF Executed, Outcome
  <2> QED BY <2>1, <2>2 DEF Timely, AccessTimes
<1> QED BY <1>1, <1>2 DEF Together

\* A block may be entered from the interpreter and left to it anywhere: registers, flags,
\* stack pointer, interrupt switch, address, cycles and memory are the same (opcodes.go
\* against emulator.c).
THEOREM EitherBackendLeavesTheSame == Spec => []SameState
<1>1. Spec => []Together
  BY BackendsTogether
<1>2. Together => SameState
  BY TogetherSameState
<1> QED BY <1>1, <1>2, PTL

\* The devices see the same reads and writes of their registers, in the same order but for
\* the two bytes of a word on a stack inside the registers (helpers.go pushReturnAddress,
\* emulator.c push16 and pop16).
THEOREM DevicesSeeTheSame == Spec => []SameAccesses
<1>1. Spec => []Together
  BY BackendsTogether
<1>2. Together => SameAccesses
  BY TogetherSameAccesses
<1> QED BY <1>1, <1>2, PTL

\* A register access has the same cycle in both backends but for calls, returns and the CB
\* instructions on memory, and lies inside the instruction (helpers.go increaseCycles,
\* emulator.c).
THEOREM SeenAtTheTimesGiven == Spec => []AccessTimes
<1>1. Spec => []Together
  BY BackendsTogether
<1>2. Together => AccessTimes
  BY TogetherAccessTimes
<1> QED BY <1>1, <1>2, PTL

-----------------------------------------------------------------------------
(* What the instructions of the programs compute *)

\* The instruction of a step is where its machine is.
LEMMA UnprefixedRun ==
    ASSUME NEW n, n \in Machine, Room(n), NEW s, StepOk(s), s.code < 256, NEW x, x = Loaded(n, s),
           NEW i, i = Instruction(s)
    PROVE  /\ Good(x) /\ Quiet(x) /\ x.pc = n.pc /\ x.reg = n.reg /\ x.flag = n.flag /\ x.sp = n.sp
           /\ Runs(x, i, s.code) /\ Columns(i, s.code) /\ Timed(i) /\ Shape(i)
           /\ i.imm = s.imm /\ i.type = Type(s.code)
<1> DEFINE op == s.code
<1>1. /\ Good(x) /\ Quiet(x) /\ x.pc = n.pc /\ x.reg = n.reg /\ x.flag = n.flag /\ x.sp = n.sp
      /\ E!ram(x, n.pc) = OpcodeOf(s) /\ E!ram(x, n.pc + 1) = SecondOf(s) /\ E!ram(x, n.pc + 2) = ThirdOf(s)
  BY LoadedIs
<1>2. s.code \in 0..255 /\ s.code < 256 /\ s.code \in Codes /\ s.imm \in Word /\ OpcodeOf(s) \in Byte
  BY StepBytesType, SMTT(30) DEF StepOk, Codes, O!Codes
<1>3. i.imm = s.imm /\ Shape(i) /\ Timed(i)
  BY <1>2, InstructionTimed DEF Instruction, Shape
<1>4. /\ Agrees(i, op) /\ Typed(i.type, i.operands) /\ Sized(i) /\ Columns(i, op) /\ i.type = Type(op)
  BY <1>2, Unprefixed DEF Columns
<1>5. OpcodeOf(s) = op /\ SecondOf(s) = s.imm % 256 /\ ThirdOf(s) = s.imm \div 256
  BY <1>2 DEF OpcodeOf, SecondOf, ThirdOf
<1>6. i.len = 2 => s.imm \in Byte /\ s.imm % 256 = s.imm
  BY <1>2, ByteIs DEF StepOk
<1> HIDE DEF op
<1>7. Fetched(x, i, op)
  <2>1. op = s.code
    BY DEF op
  <2> QED BY <1>1, <1>2, <1>3, <1>5, <1>6, <2>1 DEF Fetched, Room
<1>8. Runs(x, i, op)
  BY <1>4, <1>7 DEF Runs
<1> QED BY <1>1, <1>3, <1>4, <1>8 DEF op

\* y is what compiled code makes of n in the step s, which does not use the stack; z is
\* its work.
LEMMA PlainRun ==
    ASSUME NEW n, n \in Machine, Room(n), NEW s, StepOk(s), Plain(s), NEW x, x = Loaded(n, s),
           NEW i, i = Instruction(s), NEW y, y = L!Run(x, i)
    PROVE  LET z == L!emitInstruction(x, i)
           IN  /\ Good(x) /\ x.reg = n.reg /\ x.flag = n.flag /\ x.sp = n.sp
               /\ Runs(x, i, s.code) /\ Columns(i, s.code) /\ i.imm = s.imm /\ i.type = Type(s.code)
               /\ Good(z) /\ y.reg = z.reg /\ y.flag = z.flag /\ y.sp = z.sp /\ y.ram = z.ram
               /\ y.pc = E!Trunc16(n.pc + i.len)
<1> DEFINE z == L!emitInstruction(x, i)
           op == s.code
           q == E!Trunc16(x.pc + i.len)
<1>1. /\ Good(x) /\ x.pc = n.pc /\ x.reg = n.reg /\ x.flag = n.flag /\ x.sp = n.sp
      /\ Runs(x, i, op) /\ Columns(i, op) /\ Shape(i) /\ i.imm = s.imm /\ i.type = Type(op)
  BY UnprefixedRun DEF Plain
<1> HIDE DEF z, op, q
<1>2. i.type \in Straight
  BY <1>1 DEF Plain, op
<1>3. Works(x, i, op)
  BY <1>1, <1>2, StraightWorks
<1>4. i.type \notin L!Terminators
  BY <1>2, SMTT(60) DEF Straight, L!Terminators, L!R8Loads, L!ALoads, L!HlLoads, WordTypes, OffsetTypes,
     PairTypes, L!FlagOps, RestTypes, RotateTypes, StepTypes, AluTypes, AluR8, AluHL, AluN
<1>5. y = Finish(z, i.cycles, q)
  BY <1>1, <1>3, <1>4, Tail1 DEF Runs, z, q
<1>6. Good(z)
  BY <1>3 DEF Works, From, z
<1>7. i.cycles \in Nat /\ q \in Word
  <2>1. i.cycles \in Nat /\ i.len \in 1..3
    BY <1>1 DEF Runs, Agrees
  <2>2. x.pc + i.len \in Int
    BY <1>1, <2>1, GoodFields, WordIs
  <2> QED BY <2>1, <2>2, TruncType DEF q
<1>8. y.reg = z.reg /\ y.flag = z.flag /\ y.sp = z.sp /\ y.ram = z.ram /\ y.pc = q
  BY <1>5, <1>6, <1>7, FinishType
<1>9. q = E!Trunc16(n.pc + i.len)
  BY <1>1 DEF q
<1> QED BY <1>1, <1>6, <1>8, <1>9 DEF z, op

-----------------------------------------------------------------------------
(* Decimal arithmetic: one step *)

\* The premise of what follows: n is ready for s, which has the type t.
Ready(n, s, t) == n \in Machine /\ Room(n) /\ StepOk(s) /\ Plain(s) /\ Type(s.code) = t
\* What compiled code leaves of n.
Did(n, s) == L!Run(Loaded(n, s), Instruction(s))

\* Sum or difference, with the carry of the byte below.
CarryInto(n, t) == IF t \in {"ADC_N", "SBC_N"} /\ n.flag.C THEN 1 ELSE 0
Summed(a, v, c) == L!Result((a + v + c) % 256, FALSE, (a % 16) + (v % 16) + c >= 16, a + v + c >= 256)
Subtracted(a, v, c) == L!Result((a - v - c) % 256, TRUE, a % 16 < (v % 16) + c, a < v + c)
ResultOf(t, a, v, c) == IF t \in {"ADD_N", "ADC_N"} THEN Summed(a, v, c) ELSE Subtracted(a, v, c)

LEMMA BothOps ==
    ASSUME NEW a, NEW v, NEW c, NEW carry
    PROVE  /\ L!Bit8Result("Add", a, v, c, carry) = Summed(a, v, c)
           /\ L!Bit8Result("Sub", a, v, c, carry) = Subtracted(a, v, c)
<1>1. "Sub" # "Add" /\ "Sub" \in {"Sub", "Compare"} /\ "Add" \notin {"Sub", "Compare"}
  OBVIOUS
<1> QED BY <1>1, Zenon DEF L!Bit8Result, Summed, Subtracted

\* ADD A,n; ADC A,n; SUB n; SBC A,n, in a program.
LEMMA AluStep ==
    ASSUME NEW n, NEW s, NEW t, Ready(n, s, t), t \in {"ADD_N", "ADC_N", "SUB_N", "SBC_N"}
    PROVE  LET y == Did(n, s)
               res == ResultOf(t, n.reg["A"], s.imm, CarryInto(n, t))
           IN  s.imm \in Byte /\ y.reg = [n.reg EXCEPT !["A"] = res.r] /\ y.flag = FlagsOf(res)
<1> DEFINE x == Loaded(n, s)
           i == Instruction(s)
           y == L!Run(x, i)
           z == L!emitInstruction(x, i)
           row == E!Row8(t)
           o == AluOps[1 + row]
           c == IF row \in {1, 3} THEN E!Carry(x) ELSE 0
           v == s.imm
           a == n.reg["A"]
           k == CarryInto(n, t)
           res == ResultOf(t, a, v, k)
<1>1. /\ Good(x) /\ x.reg = n.reg /\ x.flag = n.flag
      /\ Runs(x, i, s.code) /\ Columns(i, s.code) /\ i.imm = v /\ i.type = t
      /\ Good(z) /\ y.reg = z.reg /\ y.flag = z.flag
  BY PlainRun DEF Ready
<1>2. t \in AluTypes /\ t \in AluN /\ t \in Len2 /\ t \notin Named
  BY SMTT(30) DEF AluTypes, AluN, Len2, Named, AluR8, AluHL, R8Column, Pairs, Stacked, Conditional
<1> HIDE DEF x, i, y, z
<1>3. /\ row \in 0..7 /\ L!bit8ArithmeticInstrTypeToOpType(t) = o
      /\ (IF L!toIncludeCarryFlag(t) /\ x.flag.C THEN 1 ELSE 0) = c
  BY <1>2, AluNamed DEF E!Carry
<1>4. z = L!bit8_arithmetic(x, i)
  BY <1>1, <1>2, AluChoice DEF Runs, z
<1>5. i.operands = <<>> /\ v \in Byte
  <2>1. Typed(i.type, i.operands) /\ i.len = 2
    BY <1>1, <1>2, Lengths DEF Runs
  <2> QED BY <1>1, <1>2, <2>1 DEF Typed, Runs, Fetched
<1>6. L!AfterOperand(x, i) = x /\ L!Operand(x, i) = v
  BY <1>1, <1>5 DEF L!AfterOperand, L!UsesMemory, L!Operand
<1>7. z = L!perform8BitArithmetic(x, i, o, v, c)
  BY <1>1, <1>3, <1>4, <1>6 DEF L!bit8_arithmetic
<1>8. z = E!alu(x, row, v)
  BY <1>1, <1>3, <1>5, <1>7, AluEnds
<1>9. row # 7 /\ AluResult(x, row, v) = res
  <2>1. CASE t = "ADD_N"
    <3>1. row = 0 /\ AluOps[1 + row] = "Add" /\ CarryInto(n, t) = 0
      BY <2>1 DEF E!Row8, AluOps, CarryInto
    <3> HIDE DEF row
    <3>2. AluResult(x, row, v) = L!Bit8Result("Add", a, v, k, x.flag.C)
      BY <1>1, <3>1 DEF AluResult
    <3>3. res = Summed(a, v, k)
      BY <2>1 DEF ResultOf
    <3> HIDE DEF k, a, v, res
    <3> QED BY <3>1, <3>2, <3>3, BothOps
  <2>2. CASE t = "ADC_N"
    <3>1. row = 1 /\ AluOps[1 + row] = "Add" /\ CarryInto(n, t) = E!Carry(x)
      BY <1>1, <2>2 DEF E!Row8, AluOps, CarryInto, E!Carry
    <3> HIDE DEF row
    <3>2. AluResult(x, row, v) = L!Bit8Result("Add", a, v, k, x.flag.C)
      BY <1>1, <3>1 DEF AluResult
    <3>3. res = Summed(a, v, k)
      BY <2>2 DEF ResultOf
    <3> HIDE DEF k, a, v, res
    <3> QED BY <3>1, <3>2, <3>3, BothOps
  <2>3. CASE t = "SUB_N"
    <3>1. row = 2 /\ AluOps[1 + row] = "Sub" /\ CarryInto(n, t) = 0
      BY <2>3 DEF E!Row8, AluOps, CarryInto
    <3> HIDE DEF row
    <3>2. AluResult(x, row, v) = L!Bit8Result("Sub", a, v, k, x.flag.C)
      BY <1>1, <3>1 DEF AluResult
    <3>3. res = Subtracted(a, v, k)
      BY <2>3 DEF ResultOf
    <3> HIDE DEF k, a, v, res
    <3> QED BY <3>1, <3>2, <3>3, BothOps
  <2>4. CASE t = "SBC_N"
    <3>1. row = 3 /\ AluOps[1 + row] = "Sub" /\ CarryInto(n, t) = E!Carry(x)
      BY <1>1, <2>4 DEF E!Row8, AluOps, CarryInto, E!Carry
    <3> HIDE DEF row
    <3>2. AluResult(x, row, v) = L!Bit8Result("Sub", a, v, k, x.flag.C)
      BY <1>1, <3>1 DEF AluResult
    <3>3. res = Subtracted(a, v, k)
      BY <2>4 DEF ResultOf
    <3> HIDE DEF k, a, v, res
    <3> QED BY <3>1, <3>2, <3>3, BothOps
  <2> QED BY <2>1, <2>2, <2>3, <2>4
<1> HIDE DEF row, res, v, a, k
<1>10. z = Sets(x, "A", res.r, FlagsOf(res)) /\ res.r \in Byte /\ FlagsOf(res) \in Flags
  BY <1>1, <1>3, <1>5, <1>8, <1>9, AluIs
<1>11. z.reg = [x.reg EXCEPT !["A"] = res.r] /\ z.flag = FlagsOf(res)
  <2>1. x \in Machine
    BY <1>1 DEF Good
  <2> DEFINE w == res.r
             f == FlagsOf(res)
  <2> HIDE DEF w, f
  <2>2. z = [[x EXCEPT !.reg["A"] = w] EXCEPT !.flag = f]
    BY <1>10 DEF Sets, E!set_reg8, w, f
  <2>3. z.reg = [x.reg EXCEPT !["A"] = w] /\ z.flag = f
    BY <2>1, <2>2 DEF Machine
  <2> QED BY <2>3 DEF w, f
<1> QED BY <1>1, <1>5, <1>11 DEF Did, res, v, y, x, i, a, k

\* What daa does with A and the flags.
DaaOf(a, f) ==
    LET adjHi == f.C \/ a > 153
        sum == a + (IF f.H \/ a % 16 > 9 THEN 6 ELSE 0) + (IF adjHi THEN 96 ELSE 0)
        difference == a - (IF f.C THEN 96 ELSE 0) - (IF f.H THEN 6 ELSE 0)
    IN  [r |-> (IF f.N THEN difference ELSE sum) % 256, c |-> IF f.N THEN f.C ELSE adjHi]

\* DAA, in a program.
LEMMA DaaStep ==
    ASSUME NEW n, NEW s, Ready(n, s, "DAA")
    PROVE  LET y == Did(n, s)
               res == DaaOf(n.reg["A"], n.flag)
           IN  y.reg["A"] = res.r /\ y.flag.C = res.c
<1> DEFINE x == Loaded(n, s)
           i == Instruction(s)
           y == L!Run(x, i)
           z == L!emitInstruction(x, i)
           res == DaaOf(n.reg["A"], n.flag)
<1>1. /\ Good(x) /\ x.reg = n.reg /\ x.flag = n.flag /\ i.type = "DAA"
      /\ Good(z) /\ y.reg = z.reg /\ y.flag = z.flag
  BY PlainRun DEF Ready
<1> HIDE DEF x, i, y
<1>2. z = L!daa(x)
  <2>1. "DAA" \in L!FlagOps
    BY DEF L!FlagOps
  <2>2. z = L!flag_ops(x, i)
    BY <1>1, <2>1, EmitArithmetic
  <2> QED BY <1>1, <2>2 DEF L!flag_ops
<1>3. /\ L!daa(x).reg = [x.reg EXCEPT !["A"] = res.r]
      /\ L!daa(x).flag = [Z |-> res.r = 0, N |-> n.flag.N, H |-> FALSE, C |-> res.c]
  <2>1. x \in Machine
    BY <1>1 DEF Good
  <2> DEFINE w == res.r
             b == res.c
             f == [Z |-> w = 0, N |-> n.flag.N, H |-> FALSE, C |-> b]
  <2>2. L!daa(x) = [L!set(x, "A", w) EXCEPT !.flag = f]
    BY <1>1 DEF L!daa, DaaOf
  <2> HIDE DEF w, b, f
  <2>3. L!daa(x) = [[x EXCEPT !.reg["A"] = w] EXCEPT !.flag = f]
    BY <2>2 DEF L!set
  <2>4. L!daa(x).reg = [x.reg EXCEPT !["A"] = w] /\ L!daa(x).flag = f
    BY <2>1, <2>3 DEF Machine
  <2> QED BY <2>4 DEF w, f, b
<1> HIDE DEF z, res
<1>4. "A" \in DOMAIN x.reg
  BY <1>1, GoodFields DEF Registers8, Reg8
<1>5. y.reg["A"] = res.r /\ y.flag.C = res.c
  BY <1>1, <1>2, <1>3, <1>4
<1> QED BY <1>5 DEF Did, res, y, x, i

\* Two digits, and what they stand for.
LEMMA DecimalDigits ==
    ASSUME NEW a \in Decimals
    PROVE  \E h, d \in Int : /\ 0 <= h /\ h <= 9 /\ 0 <= d /\ d <= 9 /\ a = 16 * h + d
                             /\ a % 16 = d /\ Value(a) = 10 * h + d
<1>1. PICK h \in 0..9, d \in 0..9 : a = 16 * h + d
  BY DEF Decimals
<1>2. h \in Int /\ d \in Int /\ 0 <= h /\ h <= 9 /\ 0 <= d /\ d <= 9
  BY <1>1
<1>3. a % 16 = d /\ a \div 16 = h
  BY <1>1, <1>2
<1>4. Value(a) = 10 * h + d
  BY <1>3 DEF Value
<1> QED BY <1>1, <1>2, <1>3, <1>4

\* Two digits and two digits: DAA makes the digits of the sum.
LEMMA DecimalSum ==
    ASSUME NEW a \in Decimals, NEW v \in Decimals, NEW c \in {0, 1}
    PROVE  LET res == Summed(a, v, c)
               daa == DaaOf(res.r, FlagsOf(res))
               total == Value(a) + Value(v) + c
           IN  daa.r = Digits(total % 100) /\ daa.c = (total > 99) /\ total >= 0 /\ total \in Int
<1>1. PICK h1, d1 \in Int : /\ 0 <= h1 /\ h1 <= 9 /\ 0 <= d1 /\ d1 <= 9 /\ a = 16 * h1 + d1
                            /\ a % 16 = d1 /\ Value(a) = 10 * h1 + d1
  BY DecimalDigits
<1>2. PICK h2, d2 \in Int : /\ 0 <= h2 /\ h2 <= 9 /\ 0 <= d2 /\ d2 <= 9 /\ v = 16 * h2 + d2
                            /\ v % 16 = d2 /\ Value(v) = 10 * h2 + d2
  BY DecimalDigits
<1>3. c \in Int /\ 0 <= c /\ c <= 1
  OBVIOUS
<1> DEFINE low == d1 + d2 + c
           k1 == IF low >= 10 THEN 1 ELSE 0
           high == h1 + h2 + k1
           k2 == IF high >= 10 THEN 1 ELSE 0
           d == low - 10 * k1
           h == high - 10 * k2
           total == Value(a) + Value(v) + c
           r == (a + v + c) % 256
           half == d1 + d2 + c >= 16
           carry == a + v + c >= 256
           adj == carry \/ r > 153
           fixed == (r + (IF half \/ r % 16 > 9 THEN 6 ELSE 0) + (IF adj THEN 96 ELSE 0)) % 256
<1>4. total = 100 * k2 + 10 * h + d /\ total \in Int /\ total >= 0
  BY <1>1, <1>2, <1>3
<1>5. h \in Int /\ d \in Int /\ 0 <= h /\ h <= 9 /\ 0 <= d /\ d <= 9 /\ k2 \in {0, 1} /\ k1 \in {0, 1}
  BY <1>1, <1>2, <1>3
<1>6. Digits(total % 100) = 16 * h + d
  <2> HIDE DEF h, d, k2, total
  <2>1. k2 \in Int /\ h \in Int /\ d \in Int /\ 0 <= h /\ h <= 9 /\ 0 <= d /\ d <= 9
    BY <1>5
  <2>2. total = 100 * k2 + 10 * h + d
    BY <1>4
  <2> DEFINE n == 10 * h + d
  <2>3. total % 100 = n
    BY <2>1, <2>2, SMT
  <2>4. n \div 10 = h /\ n % 10 = d
    BY <2>1, SMT
  <2> HIDE DEF n
  <2> QED BY <2>3, <2>4 DEF Digits
<1>7. DaaOf(r, FlagsOf(Summed(a, v, c))).r = fixed /\ DaaOf(r, FlagsOf(Summed(a, v, c))).c = adj /\ Summed(a, v, c).r = r
  <2>1. FlagsOf(Summed(a, v, c)).N = FALSE /\ FlagsOf(Summed(a, v, c)).H = half /\ FlagsOf(Summed(a, v, c)).C = carry
        /\ Summed(a, v, c).r = r
    BY <1>1, <1>2 DEF Summed, FlagsOf, L!Result
  <2> HIDE DEF r, half, carry
  <2> QED BY <2>1 DEF DaaOf
<1>8. /\ a + v + c = 16 * (h1 + h2) + low
      /\ low = 10 * k1 + d /\ high = h1 + h2 + k1 /\ high = 10 * k2 + h
      /\ 0 <= low /\ low <= 19 /\ 0 <= h1 + h2 /\ h1 + h2 <= 18 /\ low \in Int /\ high \in Int
      /\ (half <=> low >= 16)
  BY <1>1, <1>2, <1>3
<1>9. /\ (k1 = 1 <=> low >= 10) /\ (k2 = 1 <=> high >= 10)
  BY <1>3
<1>10. fixed = 16 * h + d /\ (adj <=> k2 = 1)
  <2> DEFINE s == h1 + h2
             x == a + v + c
  <2>1. x = 16 * s + low /\ s \in Int /\ 0 <= s /\ s <= 18 /\ r = x % 256 /\ (carry <=> x >= 256)
        /\ high = s + k1 /\ low \in Int /\ 0 <= low /\ low <= 19
    BY <1>1, <1>2, <1>8
  <2> HIDE DEF s, x, low, high, h, d, k1, k2, r, half, carry
  <2>2. CASE low <= 9
    <3>1. k1 = 0 /\ ~half /\ d = low /\ high = s
      BY <1>5, <1>8, <1>9, <2>1, <2>2
    <3>2. CASE s <= 9
      <4>1. k2 = 0 /\ h = s /\ x = 16 * s + low /\ x <= 153 /\ r = x /\ ~carry /\ r % 16 = low
        BY <1>5, <1>8, <1>9, <2>1, <2>2, <3>1, <3>2
      <4> QED BY <1>5, <2>1, <2>2, <3>1, <3>2, <4>1
    <3>3. CASE s >= 10 /\ s <= 15
      <4>1. k2 = 1 /\ h = s - 10 /\ x = 16 * s + low /\ r = x /\ ~carry /\ r > 153 /\ r % 16 = low
        BY <1>5, <1>8, <1>9, <2>1, <2>2, <3>1, <3>3
      <4>2. fixed = (x + 96) % 256
        BY <2>1, <2>2, <3>1, <4>1
      <4> QED BY <1>5, <2>1, <2>2, <3>1, <3>3, <4>1, <4>2
    <3>4. CASE s >= 16
      <4>1. k2 = 1 /\ h = s - 10 /\ x = 16 * s + low /\ r = x - 256 /\ carry /\ r % 16 = low
        BY <1>5, <1>8, <1>9, <2>1, <2>2, <3>1, <3>4
      <4>2. fixed = (x - 160) % 256
        BY <2>1, <2>2, <3>1, <4>1
      <4> QED BY <1>5, <2>1, <2>2, <3>1, <3>4, <4>1, <4>2
    <3> QED BY <2>1, <3>2, <3>3, <3>4
  <2>3. CASE low >= 10 /\ low <= 15
    <3>1. k1 = 1 /\ ~half /\ d = low - 10 /\ high = s + 1
      BY <1>5, <1>8, <1>9, <2>1, <2>3
    <3>2. CASE s <= 8
      <4>1. k2 = 0 /\ h = s + 1 /\ x = 16 * s + low /\ x <= 153 /\ r = x /\ ~carry /\ r % 16 = low
        BY <1>5, <1>8, <1>9, <2>1, <2>3, <3>1, <3>2
      <4> QED BY <1>5, <2>1, <2>3, <3>1, <3>2, <4>1
    <3>3. CASE s >= 9 /\ s <= 15
      <4>1. k2 = 1 /\ h = s - 9 /\ x = 16 * s + low /\ r = x /\ ~carry /\ r > 153 /\ r % 16 = low
        BY <1>5, <1>8, <1>9, <2>1, <2>3, <3>1, <3>3
      <4>2. fixed = (x + 102) % 256
        BY <2>1, <2>3, <3>1, <4>1
      <4> QED BY <1>5, <2>1, <2>3, <3>1, <3>3, <4>1, <4>2
    <3>4. CASE s >= 16
      <4>1. k2 = 1 /\ h = s - 9 /\ x = 16 * s + low /\ r = x - 256 /\ carry /\ r % 16 = low
        BY <1>5, <1>8, <1>9, <2>1, <2>3, <3>1, <3>4
      <4>2. fixed = (x - 154) % 256
        BY <2>1, <2>3, <3>1, <4>1
      <4> QED BY <1>5, <2>1, <2>3, <3>1, <3>4, <4>1, <4>2
    <3> QED BY <2>1, <3>2, <3>3, <3>4
  <2>4. CASE low >= 16
    <3>1. k1 = 1 /\ half /\ d = low - 10 /\ high = s + 1
      BY <1>5, <1>8, <1>9, <2>1, <2>4
    <3>2. CASE s <= 8
      <4>1. k2 = 0 /\ h = s + 1 /\ x = 16 * s + low /\ x <= 153 /\ r = x /\ ~carry
        BY <1>5, <1>8, <1>9, <2>1, <2>4, <3>1, <3>2
      <4> QED BY <1>5, <2>1, <2>4, <3>1, <3>2, <4>1
    <3>3. CASE s >= 9 /\ s <= 14
      <4>1. k2 = 1 /\ h = s - 9 /\ x = 16 * s + low /\ r = x /\ ~carry /\ r > 153
        BY <1>5, <1>8, <1>9, <2>1, <2>4, <3>1, <3>3
      <4>2. fixed = (x + 102) % 256
        BY <2>1, <2>4, <3>1, <4>1
      <4> QED BY <1>5, <2>1, <2>4, <3>1, <3>3, <4>1, <4>2
    <3>4. CASE s >= 15
      <4>1. k2 = 1 /\ h = s - 9 /\ x = 16 * s + low /\ r = x - 256 /\ carry
        BY <1>5, <1>8, <1>9, <2>1, <2>4, <3>1, <3>4
      <4>2. fixed = (x - 154) % 256
        BY <2>1, <2>4, <3>1, <4>1
      <4> QED BY <1>5, <2>1, <2>4, <3>1, <3>4, <4>1, <4>2
    <3> QED BY <2>1, <3>2, <3>3, <3>4
  <2> QED BY <2>1, <2>2, <2>3, <2>4
<1>11. adj = (total > 99)
  <2> HIDE DEF h, d, k2, total, adj
  <2>1. k2 = 1 <=> total > 99
    BY <1>4, <1>5
  <2>2. adj \in BOOLEAN
    BY DEF adj
  <2> QED BY <1>10, <2>1, <2>2
<1> HIDE DEF total, fixed, h, d, adj, r
<1> QED BY <1>4, <1>6, <1>7, <1>10, <1>11 DEF total

\* And of the difference.
LEMMA DecimalDifference ==
    ASSUME NEW a \in Decimals, NEW v \in Decimals, NEW c \in {0, 1}
    PROVE  LET res == Subtracted(a, v, c)
               daa == DaaOf(res.r, FlagsOf(res))
               total == Value(a) - Value(v) - c
           IN  daa.r = Digits(total % 100) /\ daa.c = (total < 0) /\ total <= 99 /\ total \in Int
<1>1. PICK h1, d1 \in Int : /\ 0 <= h1 /\ h1 <= 9 /\ 0 <= d1 /\ d1 <= 9 /\ a = 16 * h1 + d1
                            /\ a % 16 = d1 /\ Value(a) = 10 * h1 + d1
  BY DecimalDigits
<1>2. PICK h2, d2 \in Int : /\ 0 <= h2 /\ h2 <= 9 /\ 0 <= d2 /\ d2 <= 9 /\ v = 16 * h2 + d2
                            /\ v % 16 = d2 /\ Value(v) = 10 * h2 + d2
  BY DecimalDigits
<1>3. c \in Int /\ 0 <= c /\ c <= 1
  OBVIOUS
<1> DEFINE low == d1 - d2 - c
           k1 == IF low < 0 THEN 1 ELSE 0
           high == h1 - h2 - k1
           k2 == IF high < 0 THEN -1 ELSE 0
           d == low + 10 * k1
           h == high - 10 * k2
           total == Value(a) - Value(v) - c
           r == (a - v - c) % 256
           half == d1 < d2 + c
           carry == a < v + c
           fixed == (r - (IF carry THEN 96 ELSE 0) - (IF half THEN 6 ELSE 0)) % 256
<1>4. total = 100 * k2 + 10 * h + d /\ total \in Int /\ total <= 99
  BY <1>1, <1>2, <1>3
<1>5. h \in Int /\ d \in Int /\ 0 <= h /\ h <= 9 /\ 0 <= d /\ d <= 9 /\ k2 \in Int /\ -1 <= k2 /\ k2 <= 0 /\ k1 \in {0, 1}
  BY <1>1, <1>2, <1>3
<1>6. Digits(total % 100) = 16 * h + d
  <2> HIDE DEF h, d, k2, total
  <2>1. k2 \in Int /\ h \in Int /\ d \in Int /\ 0 <= h /\ h <= 9 /\ 0 <= d /\ d <= 9
    BY <1>5
  <2>2. total = 100 * k2 + 10 * h + d
    BY <1>4
  <2> DEFINE n == 10 * h + d
  <2>3. total % 100 = n
    BY <2>1, <2>2, SMT
  <2>4. n \div 10 = h /\ n % 10 = d
    BY <2>1, SMT
  <2> HIDE DEF n
  <2> QED BY <2>3, <2>4 DEF Digits
<1>7. DaaOf(r, FlagsOf(Subtracted(a, v, c))).r = fixed /\ DaaOf(r, FlagsOf(Subtracted(a, v, c))).c = carry
      /\ Subtracted(a, v, c).r = r
  <2>1. FlagsOf(Subtracted(a, v, c)).N = TRUE /\ FlagsOf(Subtracted(a, v, c)).H = half
        /\ FlagsOf(Subtracted(a, v, c)).C = carry /\ Subtracted(a, v, c).r = r
    <3>1. a % 16 = d1 /\ v % 16 = d2
      BY <1>1, <1>2
    <3>2. Subtracted(a, v, c) = [r |-> r, n |-> TRUE, h |-> half, c |-> carry]
      BY <3>1, Zenon DEF Subtracted, L!Result
    <3> HIDE DEF r, half, carry
    <3> QED BY <3>2 DEF FlagsOf
  <2> HIDE DEF r, half, carry
  <2> QED BY <2>1 DEF DaaOf
<1>8. /\ a - v - c = 16 * (h1 - h2) + low
      /\ low = d - 10 * k1 /\ high = h1 - h2 - k1 /\ high = h + 10 * k2
      /\ -10 <= low /\ low <= 9 /\ -9 <= h1 - h2 /\ h1 - h2 <= 9 /\ low \in Int /\ high \in Int
      /\ (half <=> low < 0)
  BY <1>1, <1>2, <1>3
<1>9. /\ (k1 = 1 <=> low < 0) /\ (k2 = -1 <=> high < 0)
  BY <1>3
<1>10. fixed = 16 * h + d /\ (carry <=> k2 = -1)
  <2> DEFINE s == h1 - h2
             x == a - v - c
  <2>1. x = 16 * s + low /\ s \in Int /\ -9 <= s /\ s <= 9 /\ r = x % 256 /\ (carry <=> x < 0)
        /\ high = s - k1 /\ low \in Int /\ -10 <= low /\ low <= 9
    BY <1>1, <1>2, <1>3, <1>8
  <2> HIDE DEF s, x, low, high, h, d, k1, k2, r, half, carry
  <2>2. CASE low >= 0
    <3>1. k1 = 0 /\ ~half /\ d = low /\ high = s
      BY <1>5, <1>8, <1>9, <2>1, <2>2
    <3>2. CASE s >= 0
      <4>1. k2 = 0 /\ h = s /\ ~carry /\ r = x
        BY <1>5, <1>8, <1>9, <2>1, <2>2, <3>1, <3>2
      <4> QED BY <1>5, <2>1, <2>2, <3>1, <3>2, <4>1
    <3>3. CASE s < 0
      <4>1. k2 = -1 /\ h = s + 10 /\ carry /\ r = x + 256
        BY <1>5, <1>8, <1>9, <2>1, <2>2, <3>1, <3>3
      <4> QED BY <1>5, <2>1, <2>2, <3>1, <3>3, <4>1
    <3> QED BY <2>1, <3>2, <3>3
  <2>3. CASE low < 0
    <3>1. k1 = 1 /\ half /\ d = low + 10 /\ high = s - 1
      BY <1>5, <1>8, <1>9, <2>1, <2>3
    <3>2. CASE s >= 1
      <4>1. k2 = 0 /\ h = s - 1 /\ ~carry /\ r = x
        BY <1>5, <1>8, <1>9, <2>1, <2>3, <3>1, <3>2
      <4> QED BY <1>5, <2>1, <2>3, <3>1, <3>2, <4>1
    <3>3. CASE s < 1
      <4>1. k2 = -1 /\ h = s + 9 /\ carry /\ r = x + 256
        BY <1>5, <1>8, <1>9, <2>1, <2>3, <3>1, <3>3
      <4> QED BY <1>5, <2>1, <2>3, <3>1, <3>3, <4>1
    <3> QED BY <2>1, <3>2, <3>3
  <2> QED BY <2>1, <2>2, <2>3
<1>11. carry = (total < 0)
  <2> HIDE DEF h, d, k2, total, carry
  <2>1. k2 = -1 <=> total < 0
    BY <1>4, <1>5
  <2>2. carry \in BOOLEAN
    BY DEF carry
  <2> QED BY <1>10, <2>1, <2>2
<1> HIDE DEF total, fixed, h, d, carry, r
<1> QED BY <1>4, <1>6, <1>7, <1>10, <1>11 DEF total

\* The next step of a program, from the machine that both backends left.
LEMMA NextStep ==
    ASSUME Together, Execute
    PROVE  LET p == Program(test)
               k == Done(p, todo)
               s == p[k + 1]
           IN  /\ IsTest(test) /\ test' = test /\ k \in Nat /\ k + 1 \in 1..Len(p) /\ Done(p, todo') = k + 1
               /\ l \in Machine /\ Room(l) /\ StepOk(s) /\ m' = Loaded(l, s) /\ l' = Did(l, s)
               /\ test.kind \in {"decimal", "wide", "memory"} => Plain(s)
               /\ k = 0 => l = Start(test)
               /\ last' = Type(s.code)
<1> DEFINE p == Program(test)
           s == Head(todo)
           k == Done(p, todo)
           i == Instruction(s)
<1>1. IsTest(test) /\ l \in Machine /\ e \in Machine /\ Bare(l) = Bare(e) /\ Remains(p, todo) /\ todo # <<>>
      /\ Where(test, k, l.pc) /\ (k = 0 => l = Start(test))
  BY DEF Together, Progress, Execute
<1>2. PICK from \in {l, e} : m' = Loaded(from, s)
  BY DEF Execute
<1>3. /\ s.code # INT /\ l' = L!Run(m', i) /\ todo' = Tail(todo) /\ test' = test /\ last' = Type(s.code)
  BY DEF Execute
<1>4. StepsOk(test, p)
  BY <1>1, ProgramSteps
<1>5. p \in Seq(Steps) /\ Len(p) \in 1..5
  BY <1>4 DEF StepsOk
<1>6. /\ s = p[k + 1] /\ Done(p, todo') = k + 1 /\ k + 1 \in 1..Len(p) /\ k \in Nat
  BY <1>1, <1>3, <1>5, LeftNext
<1>7. StepOk(s) /\ (test.kind \in {"decimal", "wide", "memory"} => Plain(s))
  BY <1>3, <1>4, <1>6 DEF StepsOk
<1>8. k <= 4
  BY <1>5, <1>6
<1>9. m' = Loaded(l, s)
  BY <1>1, <1>2, LoadedBare
<1> HIDE DEF p, s, k, i
<1>10. Room(l)
  BY <1>1, <1>6, <1>8, WhereRoom
<1>11. l' = Did(l, s)
  BY <1>3, <1>9 DEF Did, i
<1> QED BY <1>1, <1>3, <1>6, <1>7, <1>9, <1>10, <1>11 DEF p, k

\* What a program of the kind has made of the machine is what counts; an interrupt is
\* another program.
LEMMA OnlyInterrupted ==
    ASSUME Together, Interrupt
    PROVE  test.kind = "interrupt" /\ test' = test
<1> DEFINE p == Program(test)
           s == Head(todo)
           k == Done(p, todo)
<1>1. IsTest(test) /\ Remains(p, todo) /\ todo # <<>> /\ s.code = INT /\ test' = test
  BY DEF Together, Progress, Interrupt
<1>2. StepsOk(test, p) /\ p \in Seq(Steps)
  BY <1>1, ProgramSteps DEF StepsOk
<1>3. s = p[k + 1] /\ k + 1 \in 1..Len(p)
  BY <1>1, <1>2, LeftNext
<1>4. ~StepOk(s)
  <2> HIDE DEF s
  <2> QED BY <1>1, SMTT(30) DEF StepOk, Codes, O!Codes, INT
<1> QED BY <1>1, <1>2, <1>3, <1>4 DEF StepsOk

-----------------------------------------------------------------------------
(* Decimal arithmetic *)

\* After the sum or the difference A and the flags are what DAA needs, and after it they
\* are what was asked.
DecimalCarry == IF test.f.C /\ test.code \in {ADC_N, SBC_N} THEN 1 ELSE 0
DecimalResult == ResultOf(Type(test.code), test.a, test.n, DecimalCarry)
DecimalTotal ==
    IF test.code \in {ADD_N, ADC_N} THEN Value(test.a) + Value(test.n) + DecimalCarry
                                    ELSE Value(test.a) - Value(test.n) - DecimalCarry
DecimalDone == l.reg["A"] = Digits(DecimalTotal % 100) /\ l.flag.C = (DecimalTotal \notin 0..99)
DecimalAlong ==
    test.kind = "decimal" =>
        LET k == Done(Program(test), todo)
        IN  /\ k = 1 => l.reg["A"] = DecimalResult.r /\ l.flag = FlagsOf(DecimalResult)
            /\ k = 2 => DecimalDone

LEMMA CodesOfTypes ==
    /\ Type(ADD_N) = "ADD_N" /\ Type(ADC_N) = "ADC_N" /\ Type(SUB_N) = "SUB_N" /\ Type(SBC_N) = "SBC_N"
    /\ Type(DAA) = "DAA"
BY KnownCodes DEF Known

\* The two digits and their carry, whatever the operation.
LEMMA DecimalEither ==
    ASSUME NEW t, IsTest(t), t.kind = "decimal", NEW c, c = (IF t.f.C /\ t.code \in {ADC_N, SBC_N} THEN 1 ELSE 0),
           NEW total, total = (IF t.code \in {ADD_N, ADC_N} THEN Value(t.a) + Value(t.n) + c
                                                            ELSE Value(t.a) - Value(t.n) - c),
           NEW res, res = ResultOf(Type(t.code), t.a, t.n, c),
           NEW daa, daa = DaaOf(res.r, FlagsOf(res))
    PROVE  daa.r = Digits(total % 100) /\ daa.c = (total \notin 0..99)
<1>1. t.code \in {ADD_N, ADC_N, SUB_N, SBC_N} /\ t.a \in Decimals /\ t.n \in Decimals
  BY Tested
<1>2. c \in {0, 1}
  OBVIOUS
<1>3. ADD_N # SUB_N /\ ADD_N # SBC_N /\ ADC_N # SUB_N /\ ADC_N # SBC_N
  BY DEF ADD_N, SUB_N, ADC_N, SBC_N
<1>4. CASE t.code \in {ADD_N, ADC_N}
  <2>1. res = Summed(t.a, t.n, c)
    BY <1>4, CodesOfTypes DEF ResultOf
  <2>2. total = Value(t.a) + Value(t.n) + c
    BY <1>4
  <2>3. daa.r = Digits(total % 100) /\ daa.c = (total > 99) /\ total >= 0 /\ total \in Int
    BY <1>1, <1>2, <2>1, <2>2, DecimalSum
  <2>4. total > 99 <=> total \notin 0..99
    BY <2>3
  <2> QED BY <2>3, <2>4
<1>5. CASE t.code \in {SUB_N, SBC_N}
  <2>1. res = Subtracted(t.a, t.n, c)
    BY <1>5, CodesOfTypes DEF ResultOf
  <2>2. total = Value(t.a) - Value(t.n) - c
    BY <1>3, <1>5
  <2>3. daa.r = Digits(total % 100) /\ daa.c = (total < 0) /\ total <= 99 /\ total \in Int
    BY <1>1, <1>2, <2>1, <2>2, DecimalDifference
  <2>4. total < 0 <=> total \notin 0..99
    BY <2>3
  <2> QED BY <2>3, <2>4
<1> QED BY <1>1, <1>4, <1>5

LEMMA DecimalExecute ==
    ASSUME Together, Execute, DecimalAlong
    PROVE  DecimalAlong'
<1> DEFINE p == Program(test)
           k == Done(p, todo)
           s == p[k + 1]
<1>1. /\ IsTest(test) /\ test' = test /\ k \in Nat /\ k + 1 \in 1..Len(p) /\ Done(p, todo') = k + 1
      /\ l \in Machine /\ Room(l) /\ StepOk(s) /\ l' = Did(l, s)
      /\ test.kind \in {"decimal", "wide", "memory"} => Plain(s)
      /\ k = 0 => l = Start(test)
  BY NextStep
<1> SUFFICES ASSUME test.kind = "decimal"
             PROVE  /\ k = 0 => l'.reg["A"] = DecimalResult.r /\ l'.flag = FlagsOf(DecimalResult)
                    /\ k = 1 => l'.reg["A"] = Digits(DecimalTotal % 100) /\ l'.flag.C = (DecimalTotal \notin 0..99)
  <2> HIDE DEF k
  <2>1. test' = test /\ Program(test)' = Program(test) /\ (k + 1 = 1 => k = 0) /\ (k + 1 = 2 => k = 1)
    BY <1>1
  <2> QED BY <1>1, <2>1 DEF DecimalAlong, DecimalDone, DecimalResult, DecimalTotal, DecimalCarry
<1>2. p = <<Step(test.code, test.n), Step(DAA, 0)>> /\ Plain(s)
  BY <1>1, DecimalProgram
<1>3. test.code \in {ADD_N, ADC_N, SUB_N, SBC_N}
  BY <1>1, Tested
<1>4. ASSUME k = 0 PROVE l'.reg["A"] = DecimalResult.r /\ l'.flag = FlagsOf(DecimalResult)
  <2> DEFINE t == Type(test.code)
  <2>1. s = Step(test.code, test.n)
    BY <1>2, <1>4
  <2>2. s.code = test.code /\ s.imm = test.n
    BY <2>1 DEF Step
  <2>3. l.reg["A"] = test.a /\ l.flag = test.f /\ "A" \in DOMAIN l.reg
    <3>1. l.reg = Registers(test) /\ l.flag = test.f
      BY <1>1, <1>4, StartType
    <3>2. Registers(test).A = test.a /\ "A" \in DOMAIN Registers(test)
      BY DEF Registers
    <3> QED BY <3>1, <3>2
  <2>4. t \in {"ADD_N", "ADC_N", "SUB_N", "SBC_N"} /\ (t \in {"ADC_N", "SBC_N"} <=> test.code \in {ADC_N, SBC_N})
    BY <1>3, CodesOfTypes
  <2> HIDE DEF s, k, t
  <2>5. Ready(l, s, t)
    BY <1>1, <1>2, <2>2 DEF Ready, t
  <2>6. CarryInto(l, t) = DecimalCarry
    BY <2>3, <2>4 DEF CarryInto, DecimalCarry
  <2>7. ResultOf(t, l.reg["A"], s.imm, CarryInto(l, t)) = DecimalResult
    BY <2>2, <2>3, <2>6 DEF DecimalResult, t
  <2>8. l'.reg = [l.reg EXCEPT !["A"] = DecimalResult.r] /\ l'.flag = FlagsOf(DecimalResult)
    BY <1>1, <2>4, <2>5, <2>7, AluStep
  <2> QED BY <2>3, <2>8
<1>5. ASSUME k = 1 PROVE l'.reg["A"] = Digits(DecimalTotal % 100) /\ l'.flag.C = (DecimalTotal \notin 0..99)
  <2>1. s = Step(DAA, 0)
    BY <1>2, <1>5
  <2>2. s.code = DAA
    BY <2>1 DEF Step
  <2>3. l.reg["A"] = DecimalResult.r /\ l.flag = FlagsOf(DecimalResult)
    BY <1>5 DEF DecimalAlong
  <2> HIDE DEF s, k
  <2>4. Ready(l, s, "DAA")
    BY <1>1, <1>2, <2>2, CodesOfTypes DEF Ready
  <2> DEFINE daa == DaaOf(DecimalResult.r, FlagsOf(DecimalResult))
  <2>5. l'.reg["A"] = daa.r /\ l'.flag.C = daa.c
    BY <1>1, <2>3, <2>4, DaaStep
  <2>6. daa.r = Digits(DecimalTotal % 100) /\ daa.c = (DecimalTotal \notin 0..99)
    <3>1. DecimalCarry = IF test.f.C /\ test.code \in {ADC_N, SBC_N} THEN 1 ELSE 0
      BY DEF DecimalCarry
    <3>2. DecimalTotal = IF test.code \in {ADD_N, ADC_N} THEN Value(test.a) + Value(test.n) + DecimalCarry
                                                         ELSE Value(test.a) - Value(test.n) - DecimalCarry
      BY DEF DecimalTotal
    <3>3. DecimalResult = ResultOf(Type(test.code), test.a, test.n, DecimalCarry)
      BY DEF DecimalResult
    <3>4. IsTest(test) /\ daa = DaaOf(DecimalResult.r, FlagsOf(DecimalResult))
      BY <1>1
    <3> HIDE DEF daa
    <3> QED BY <3>1, <3>2, <3>3, <3>4, DecimalEither
  <2> HIDE DEF daa
  <2> QED BY <2>5, <2>6
<1> QED BY <1>4, <1>5

LEMMA EndedIs ==
    ASSUME Together, todo = <<>>
    PROVE  Done(Program(test), todo) = Len(Program(test)) /\ l.reg = e.reg /\ l.flag = e.flag /\ l.sp = e.sp
           /\ l.pc = e.pc /\ l.ime = e.ime
<1>1. IsTest(test) /\ l \in Machine /\ e \in Machine /\ Bare(l) = Bare(e)
  BY DEF Together
<1>2. Program(test) \in Seq(Steps)
  BY <1>1, ProgramSteps DEF StepsOk
<1>3. Done(Program(test), todo) = Len(Program(test))
  BY <1>2 DEF Done
<1>4. \A x \in Machine : Bare(x).reg = x.reg /\ Bare(x).flag = x.flag /\ Bare(x).sp = x.sp
                         /\ Bare(x).pc = x.pc /\ Bare(x).ime = x.ime
  BY DEF Bare, Machine
<1> QED BY <1>1, <1>3, <1>4

LEMMA DecimalNext == Together /\ DecimalAlong /\ [Next]_vars => DecimalAlong'
<1> SUFFICES ASSUME Together, DecimalAlong, [Next]_vars PROVE DecimalAlong'
  OBVIOUS
<1>1. CASE Execute
  BY <1>1, DecimalExecute
<1>2. CASE Interrupt
  BY <1>2, OnlyInterrupted DEF DecimalAlong
<1>3. CASE UNCHANGED vars
  BY <1>3 DEF vars, DecimalAlong, DecimalResult, DecimalDone, DecimalTotal, DecimalCarry
<1> QED BY <1>1, <1>2, <1>3 DEF Next

LEMMA DecimalInit == Init => DecimalAlong
<1> SUFFICES ASSUME Init PROVE DecimalAlong
  OBVIOUS
<1>1. Done(Program(test), todo) = 0
  <2>1. IsTest(test) /\ todo = Program(test)
    BY BackendsAssumption DEF Init
  <2> QED BY <2>1, ProgramSteps, LeftStart DEF StepsOk
<1> QED BY <1>1 DEF DecimalAlong

LEMMA DecimalEnds == Together /\ DecimalAlong => DecimalArithmetic
<1> SUFFICES ASSUME Together, DecimalAlong, todo = <<>>, test.kind = "decimal"
             PROVE  \A n \in {l, e} : n.reg["A"] = Digits(DecimalTotal % 100) /\ n.flag.C = (DecimalTotal \notin 0..99)
  BY DEF DecimalArithmetic, Ended, DecimalTotal, DecimalCarry
<1>1. Len(Program(test)) = 2
  BY DecimalProgram DEF Together
<1>2. DecimalDone
  BY <1>1, EndedIs DEF DecimalAlong
<1> QED BY <1>2, EndedIs DEF DecimalDone

\* DAA makes decimal digits of what any of the four instructions leaves, in any program
\* of either backend (arithmetic.go perform8BitArithmetic, opcodes.go daa, emulator.c).
THEOREM DecimalDigitsAreMade == Spec => []DecimalArithmetic
<1>1. Init => DecimalAlong
  BY DecimalInit
<1>2. Together /\ DecimalAlong /\ [Next]_vars => DecimalAlong'
  BY DecimalNext
<1>3. Together /\ DecimalAlong => DecimalArithmetic
  BY DecimalEnds
<1> QED BY <1>1, <1>2, <1>3, BackendsTogether, PTL DEF Spec

\* The operands the decoder gives the instruction of a code without a prefix.
LEMMA OperandsAre ==
    ASSUME NEW s, s.code \in 0..255
    PROVE  Instruction(s).operands = O!Operands(Type(s.code), s.code)
<1> DEFINE c == s.code
           r == O!decodeOpcode[c]
<1>1. ~O!Prefixed(c)
  BY DEF O!Prefixed
<1>2. O!Decoded(c) = O!WithOperands(r, O!Operands(r.type, c))
  BY <1>1 DEF O!Decoded
<1> QED BY <1>2 DEF Type, O!WithOperands, Instruction

LEMMA WideOperands ==
    /\ O!Operands("LD_R8_R8", 95) = <<"E", "A">> /\ O!Operands("LD_R8_N", 62) = <<"A">>
    /\ O!Operands("ADD_HL_R16", 9) = <<"BC">>
<1>1. O!Operands("LD_R8_R8", 95) = <<"E", "A">>
  <2>1. O!reg8FromEncoding(95 \div 8) = "E" /\ O!reg8FromEncoding(95) = "A"
    BY DEF O!reg8FromEncoding
  <2> QED BY <2>1, SMTT(30) DEF O!Operands, O!AluTypes, O!AluMemory
<1>2. O!Operands("LD_R8_N", 62) = <<"A">>
  <2>1. O!reg8FromEncoding(62 \div 8) = "A"
    BY DEF O!reg8FromEncoding
  <2> QED BY <2>1, SMTT(30) DEF O!Operands, O!AluTypes, O!AluMemory
<1>3. O!Operands("ADD_HL_R16", 9) = <<"BC">>
  <2>1. O!reg16FromEncoding(9 \div 16) = "BC"
    BY DEF O!reg16FromEncoding
  <2> QED BY <2>1, SMTT(30) DEF O!Operands, O!AluTypes, O!AluMemory
<1> QED BY <1>1, <1>2, <1>3

\* LD E,A and LD A,n.
LEMMA LoadSteps ==
    ASSUME NEW n, NEW s, n \in Machine, Room(n), StepOk(s), Plain(s)
    PROVE  /\ s.code = LD_E_A => /\ Did(n, s).reg = [n.reg EXCEPT !["E"] = n.reg["A"]]
                                 /\ Did(n, s).flag = n.flag
           /\ s.code = LD_A_N => /\ Did(n, s).reg = [n.reg EXCEPT !["A"] = s.imm]
                                 /\ Did(n, s).flag = n.flag
<1> DEFINE x == Loaded(n, s)
           i == Instruction(s)
           y == L!Run(x, i)
           z == L!emitInstruction(x, i)
<1>1. /\ Good(x) /\ x.reg = n.reg /\ x.flag = n.flag /\ i.imm = s.imm /\ i.type = Type(s.code)
      /\ y.reg = z.reg /\ y.flag = z.flag
  BY PlainRun
<1>2. s.code \in {LD_E_A, LD_A_N} => i.operands = O!Operands(Type(s.code), s.code)
  <2>1. s.code \in {LD_E_A, LD_A_N} => s.code \in 0..255
    BY DEF LD_E_A, LD_A_N
  <2> QED BY <2>1, OperandsAre
<1>3. LD_E_A = 95 /\ LD_A_N = 62
  BY DEF LD_E_A, LD_A_N
<1> HIDE DEF x, i, y
<1>4. x \in Machine
  BY <1>1 DEF Good
<1>5. \A r, v : L!set(x, r, v).reg = [x.reg EXCEPT ![r] = v] /\ L!set(x, r, v).flag = x.flag
  BY <1>4 DEF L!set, Machine
<1>6. ASSUME s.code = LD_E_A PROVE z = L!set(x, "E", x.reg["A"])
  <2>1. i.type = "LD_R8_R8" /\ i.operands = <<"E", "A">>
    BY <1>1, <1>2, <1>3, <1>6, KnownCodes, WideOperands DEF Known
  <2>2. z = L!r8_loads(x, i)
    BY <2>1, EmitLoads DEF L!R8Loads
  <2> QED BY <2>1, <2>2 DEF L!r8_loads
<1>7. ASSUME s.code = LD_A_N PROVE z = L!set(x, "A", s.imm)
  <2>1. i.type = "LD_R8_N" /\ i.operands = <<"A">>
    BY <1>1, <1>2, <1>3, <1>7, KnownCodes, WideOperands DEF Known
  <2>2. z = L!r8_loads(x, i)
    BY <2>1, EmitLoads DEF L!R8Loads
  <2> QED BY <1>1, <2>1, <2>2 DEF L!r8_loads
<1> HIDE DEF z
<1> QED BY <1>1, <1>5, <1>6, <1>7 DEF Did, y, x, i

\* ADD HL,rr as sums.
LEMMA AddHlIs ==
    ASSUME NEW x, NEW r, NEW hl \in Int, NEW w \in Int, L!HL(x) = hl, L!readReg16(x, r) = w
    PROVE  L!add_hl_r16(x, r) =
               [L!updateReg16(x, "HL", L!Trunc16(hl + w)) EXCEPT
                   !.flag = [Z |-> @.Z, N |-> FALSE, H |-> (hl % 4096) + (w % 4096) >= 4096, C |-> hl + w >= 65536]]
BY SMT DEF L!add_hl_r16

\* ADD HL,BC.
LEMMA AddStep ==
    ASSUME NEW n, NEW s, n \in Machine, Room(n), StepOk(s), Plain(s), s.code = ADD_HL_BC
    PROVE  LET hl == B!Join(n.reg["H"], n.reg["L"])
               bc == B!Join(n.reg["B"], n.reg["C"])
               sum == B!Trunc16(hl + bc)
               y == Did(n, s)
           IN  /\ y.reg = [n.reg EXCEPT !["H"] = B!High(sum), !["L"] = B!Low(sum)]
               /\ y.flag.C = (hl + bc >= 65536) /\ y.flag.H = ((hl % 4096) + (bc % 4096) >= 4096)
<1> DEFINE x == Loaded(n, s)
           i == Instruction(s)
           y == L!Run(x, i)
           z == L!emitInstruction(x, i)
           hl == B!Join(n.reg["H"], n.reg["L"])
           bc == B!Join(n.reg["B"], n.reg["C"])
           sum == B!Trunc16(hl + bc)
<1>1. /\ Good(x) /\ x.reg = n.reg /\ x.flag = n.flag /\ i.type = Type(s.code)
      /\ y.reg = z.reg /\ y.flag = z.flag
  BY PlainRun
<1>2. i.operands = <<"BC">> /\ i.type = "ADD_HL_R16"
  <2>1. s.code = 9 /\ s.code \in 0..255
    BY DEF ADD_HL_BC
  <2> QED BY <1>1, <2>1, OperandsAre, KnownCodes, WideOperands DEF Known
<1> HIDE DEF x, i, y
<1>3. z = L!add_hl_r16(x, "BC")
  <2>1. z = L!r16_arithmetic(x, i)
    BY <1>2, EmitArithmetic DEF L!R16Arithmetic
  <2> QED BY <1>2, <2>1 DEF L!r16_arithmetic
<1> HIDE DEF z
<1>4. L!HL(x) = hl /\ L!readReg16(x, "BC") = bc
  BY <1>1 DEF L!HL, L!readReg16, L!SplitUp, L!Join, B!Join
<1>16. hl \in Int /\ bc \in Int
  <2>1. "H" \in Reg8 /\ "L" \in Reg8 /\ "B" \in Reg8 /\ "C" \in Reg8
    BY DEF Reg8
  <2> QED BY <1>1, <2>1, GoodFields, ByteIs DEF B!Join
<1> HIDE DEF hl, bc
<1> DEFINE c == hl + bc >= 65536
           h == (hl % 4096) + (bc % 4096) >= 4096
           w == L!updateReg16(x, "HL", sum)
<1>6. z = [w EXCEPT !.flag = [Z |-> @.Z, N |-> FALSE, H |-> h, C |-> c]]
  <2>1. L!Trunc16(hl + bc) = sum
    BY DEF L!Trunc16, B!Trunc16
  <2>2. z = [L!updateReg16(x, "HL", L!Trunc16(hl + bc)) EXCEPT !.flag = [Z |-> @.Z, N |-> FALSE, H |-> h, C |-> c]]
    BY SMT, <1>3, <1>4, <1>16, AddHlIs
  <2> HIDE DEF sum, h, c
  <2> QED BY <2>1, <2>2
<1> HIDE DEF c, h, sum
<1>7. w = [x EXCEPT !.reg["H"] = L!High(sum), !.reg["L"] = L!Low(sum)]
  BY DEF L!updateReg16, L!SplitUp
<1>8. L!High(sum) = B!High(sum) /\ L!Low(sum) = B!Low(sum)
  BY DEF L!High, L!Low, B!High, B!Low
<1>9. x \in Machine
  BY <1>1 DEF Good
<1>10. w \in [reg : {[x.reg EXCEPT !["H"] = B!High(sum), !["L"] = B!Low(sum)]}, flag : {x.flag}, sp : {w.sp}, pc : {w.pc},
              ime : {w.ime}, cycles : {w.cycles}, ram : {w.ram}, log : {w.log}, lowFirst : {w.lowFirst}]
  BY <1>7, <1>8, <1>9 DEF Machine
<1> HIDE DEF w
<1>11. z.reg = w.reg /\ z.flag = [Z |-> w.flag.Z, N |-> FALSE, H |-> h, C |-> c]
  BY <1>6, <1>10
<1>12. z.flag.C = c /\ z.flag.H = h
  BY <1>11
<1>13. z.reg = [n.reg EXCEPT !["H"] = B!High(sum), !["L"] = B!Low(sum)]
  BY <1>1, <1>10, <1>11
<1>14. Did(n, s).flag.C = c /\ Did(n, s).flag.H = h
       /\ Did(n, s).reg = [n.reg EXCEPT !["H"] = B!High(sum), !["L"] = B!Low(sum)]
  BY <1>1, <1>12, <1>13 DEF Did, y, x, i
<1>15. Did(n, s).flag.C = (hl + bc >= 65536) /\ Did(n, s).flag.H = ((hl % 4096) + (bc % 4096) >= 4096)
  BY <1>14 DEF c, h
<1> QED BY <1>14, <1>15 DEF sum, hl, bc

-----------------------------------------------------------------------------
(* Sixteen bits as two bytes *)

LEMMA JoinedBytes ==
    ASSUME NEW s \in Int, NEW x \in Int, 0 <= x, x <= 255, NEW t \in Int, t = 256 * s + x
    PROVE  /\ 256 * (s % 256) + x = t % 65536
           /\ s >= 256 <=> t >= 65536
           /\ s >= 256 <=> t > 65535
           /\ s < 0 <=> t < 0
<1>1. (s >= 256 <=> t >= 65536) /\ (s >= 256 <=> t > 65535) /\ (s < 0 <=> t < 0)
  BY SMT
<1> DEFINE q == s \div 256
           r == s % 256
<1>2. s = 256 * q + r /\ q \in Int /\ r \in Int /\ 0 <= r /\ r <= 255
  BY SMT
<1> HIDE DEF q, r
<1>3. t = 65536 * q + (256 * r + x)
  BY <1>2, SMT
<1> DEFINE y == 256 * r + x
<1>4. y \in Int /\ 0 <= y /\ y <= 65535 /\ t = 65536 * q + y
  BY <1>2, <1>3, SMT
<1> HIDE DEF y
<1>5. t % 65536 = y
  BY <1>2, <1>4, SMT
<1> QED BY <1>1, <1>5, SMT DEF y, r

LEMMA WideSum ==
    ASSUME NEW h1 \in Byte, NEW a \in Byte, NEW h2 \in Byte, NEW v \in Byte,
           NEW low, low = Summed(a, v, 0), NEW c, c = (IF low.c THEN 1 ELSE 0),
           NEW high, high = Summed(h1, h2, c),
           NEW w1, w1 = B!Join(h1, a), NEW w2, w2 = B!Join(h2, v)
    PROVE  /\ B!Join(high.r, low.r) = B!Trunc16(w1 + w2) /\ high.c = (w1 + w2 > 65535)
           /\ w1 \in Int /\ w2 \in Int /\ high.c = (w1 + w2 >= 65536)
           /\ high.h = ((w1 % 4096) + (w2 % 4096) >= 4096)
<1>1. /\ h1 \in Int /\ 0 <= h1 /\ h1 <= 255 /\ a \in Int /\ 0 <= a /\ a <= 255
      /\ h2 \in Int /\ 0 <= h2 /\ h2 <= 255 /\ v \in Int /\ 0 <= v /\ v <= 255
  BY ByteIs
<1>2. low.r = (a + v) % 256 /\ low.c = (a + v >= 256)
  BY <1>1 DEF Summed, L!Result
<1>3. /\ high.r = (h1 + h2 + c) % 256 /\ high.c = (h1 + h2 + c >= 256)
      /\ high.h = ((h1 % 16) + (h2 % 16) + c >= 16)
  BY <1>1 DEF Summed, L!Result
<1>4. w1 = 256 * h1 + a /\ w2 = 256 * h2 + v /\ w1 \in Int /\ w2 \in Int
  BY <1>1 DEF B!Join
<1>5. c \in Int /\ (c = 1 <=> a + v >= 256) /\ (c = 0 <=> a + v < 256) /\ 0 <= c /\ c <= 1
  <2>1. CASE a + v >= 256
    <3>1. low.c
      BY <1>2, <2>1
    <3>2. c = 1
      BY <3>1
    <3> QED BY <1>1, <2>1, <3>2, SMT
  <2>2. CASE a + v < 256
    <3>1. ~(a + v >= 256)
      BY <1>1, <2>2, SMT
    <3>2. ~low.c
      BY <1>2, <3>1
    <3>3. c = 0
      BY <3>2
    <3> QED BY <1>1, <2>2, <3>3, SMT
  <2> QED BY <1>1, <2>1, <2>2, SMT
<1>6. a + v = 256 * c + low.r /\ low.r \in Int /\ 0 <= low.r /\ low.r <= 255
  BY <1>1, <1>2, <1>5
<1> DEFINE x == low.r
           s == h1 + h2 + c
           t == w1 + w2
<1>7. x \in Int /\ 0 <= x /\ x <= 255 /\ a + v = 256 * c + x /\ s \in Int /\ t \in Int
  BY <1>1, <1>4, <1>5, <1>6, SMT
<1> HIDE DEF x
<1>8. t = 256 * s + x
  BY <1>1, <1>4, <1>5, <1>7, SMT
<1>13. B!Join(high.r, x) = t % 65536 /\ (s >= 256 <=> t > 65535) /\ (s >= 256 <=> t >= 65536)
  <2>1. high.r = s % 256
    BY <1>3
  <2>2. s \in Int /\ x \in Int /\ 0 <= x /\ x <= 255 /\ t \in Int /\ t = 256 * s + x
    BY <1>7, <1>8
  <2> HIDE DEF s, t
  <2>3. 256 * (s % 256) + x = t % 65536 /\ (s >= 256 <=> t > 65535) /\ (s >= 256 <=> t >= 65536)
    BY ONLY <2>2, JoinedBytes, SMT
  <2> QED BY <2>1, <2>3 DEF B!Join
<1>9. (h1 % 16) + (h2 % 16) + c >= 16 <=> (w1 % 4096) + (w2 % 4096) >= 4096
  <2>1. w1 % 4096 = 256 * (h1 % 16) + a
    BY <1>1, <1>4, SMT
  <2>2. w2 % 4096 = 256 * (h2 % 16) + v
    BY <1>1, <1>4, SMT
  <2> DEFINE p == h1 % 16
             q == h2 % 16
             u == w1 % 4096
             y == w2 % 4096
  <2>3. p \in Int /\ q \in Int /\ u = 256 * p + a /\ y = 256 * q + v
    BY <1>1, <2>1, <2>2
  <2> HIDE DEF p, q, u, y
  <2>4. p + q + c >= 16 <=> u + y >= 4096
    BY <1>1, <1>5, <2>3, SMT
  <2> QED BY <2>4 DEF p, q, u, y
<1>10. B!Join(high.r, low.r) = B!Trunc16(w1 + w2)
  BY <1>13 DEF B!Trunc16, x
<1>11. high.c = (t > 65535) /\ high.c = (t >= 65536)
  <2>1. high.c = (s >= 256)
    BY <1>3
  <2> HIDE DEF s, t
  <2> QED BY <1>13, <2>1
<1>12. high.h = ((w1 % 4096) + (w2 % 4096) >= 4096)
  BY <1>3, <1>9
<1> QED BY <1>4, <1>10, <1>11, <1>12

LEMMA WideDifference ==
    ASSUME NEW h1 \in Byte, NEW a \in Byte, NEW h2 \in Byte, NEW v \in Byte,
           NEW low, low = Subtracted(a, v, 0), NEW c, c = (IF low.c THEN 1 ELSE 0),
           NEW high, high = Subtracted(h1, h2, c),
           NEW w1, w1 = B!Join(h1, a), NEW w2, w2 = B!Join(h2, v)
    PROVE  /\ B!Join(high.r, low.r) = B!Trunc16(w1 - w2) /\ high.c = (w1 < w2)
<1>1. /\ h1 \in Int /\ 0 <= h1 /\ h1 <= 255 /\ a \in Int /\ 0 <= a /\ a <= 255
      /\ h2 \in Int /\ 0 <= h2 /\ h2 <= 255 /\ v \in Int /\ 0 <= v /\ v <= 255
  BY ByteIs
<1>2. low.r = (a - v) % 256 /\ low.c = (a < v)
  BY <1>1 DEF Subtracted, L!Result
<1>3. high.r = (h1 - h2 - c) % 256 /\ high.c = (h1 < h2 + c)
  BY <1>1 DEF Subtracted, L!Result
<1>4. w1 = 256 * h1 + a /\ w2 = 256 * h2 + v /\ w1 \in Int /\ w2 \in Int
  BY <1>1 DEF B!Join
<1>5. c \in Int /\ (c = 1 <=> a < v) /\ (c = 0 <=> a >= v) /\ 0 <= c /\ c <= 1
  <2>1. CASE a < v
    <3>1. low.c
      BY <1>2, <2>1
    <3>2. c = 1
      BY <3>1
    <3> QED BY <1>1, <2>1, <3>2, SMT
  <2>2. CASE a >= v
    <3>1. ~(a < v)
      BY <1>1, <2>2, SMT
    <3>2. ~low.c
      BY <1>2, <3>1
    <3>3. c = 0
      BY <3>2
    <3> QED BY <1>1, <2>2, <3>3, SMT
  <2> QED BY <1>1, <2>1, <2>2, SMT
<1>6. a - v = low.r - 256 * c /\ low.r \in Int /\ 0 <= low.r /\ low.r <= 255
  BY <1>1, <1>2, <1>5
<1> DEFINE x == low.r
           s == h1 - h2 - c
           t == w1 - w2
<1>7. x \in Int /\ 0 <= x /\ x <= 255 /\ a - v = x - 256 * c /\ s \in Int /\ t \in Int
  BY <1>1, <1>4, <1>5, <1>6, SMT
<1> HIDE DEF x
<1>8. t = 256 * s + x
  BY <1>1, <1>4, <1>5, <1>7, SMT
<1>12. B!Join(high.r, x) = t % 65536 /\ (s < 0 <=> t < 0)
  <2>1. high.r = s % 256
    BY <1>3
  <2>2. s \in Int /\ x \in Int /\ 0 <= x /\ x <= 255 /\ t \in Int /\ t = 256 * s + x
    BY <1>7, <1>8
  <2> HIDE DEF s, t
  <2>3. 256 * (s % 256) + x = t % 65536 /\ (s < 0 <=> t < 0)
    BY ONLY <2>2, JoinedBytes, SMT
  <2> QED BY <2>1, <2>3 DEF B!Join
<1>9. (h1 < h2 + c <=> s < 0) /\ (w1 < w2 <=> t < 0)
  BY <1>1, <1>4, <1>5
<1>10. B!Join(high.r, low.r) = B!Trunc16(w1 - w2)
  BY <1>12 DEF B!Trunc16, x
<1>11. high.c = (w1 < w2)
  BY <1>3, <1>9, <1>12
<1> QED BY <1>10, <1>11

\* The low and the high bytes' sums or differences, and the two words.
WideTypes == IF test.code = ADD_N THEN <<"ADD_N", "ADC_N">> ELSE <<"SUB_N", "SBC_N">>
WideLow == ResultOf(WideTypes[1], test.a, test.n, 0)
WideHigh == ResultOf(WideTypes[2], B!High(test.w), B!Low(test.w), IF WideLow.c THEN 1 ELSE 0)
Word1 == B!Join(B!High(test.w), test.a)
Word2 == B!Join(B!Low(test.w), test.n)

\* What is in the registers when k steps are done; m is the machine before the last.
WideRegisters(n) ==
    n.reg["B"] = B!Low(test.w) /\ n.reg["C"] = test.n /\ n.reg["H"] = B!High(test.w) /\ n.reg["L"] = test.a
WideEnd == /\ WideRegisters(m) /\ m.reg["E"] = WideLow.r /\ m.reg["A"] = WideHigh.r /\ m.flag = FlagsOf(WideHigh)
           /\ LET sum == B!Trunc16(Word1 + Word2)
              IN  /\ l.reg["H"] = B!High(sum) /\ l.reg["L"] = B!Low(sum)
                  /\ l.flag.C = (Word1 + Word2 >= 65536)
                  /\ l.flag.H = ((Word1 % 4096) + (Word2 % 4096) >= 4096)
WideAlong ==
    test.kind = "wide" =>
        LET k == Done(Program(test), todo)
        IN  /\ k \in {1, 2, 3, 4} => WideRegisters(l)
            /\ k = 1 => l.reg["A"] = WideLow.r /\ l.flag = FlagsOf(WideLow)
            /\ k = 2 => l.reg["E"] = WideLow.r /\ l.flag = FlagsOf(WideLow)
            /\ k = 3 => l.reg["E"] = WideLow.r /\ l.reg["A"] = B!High(test.w) /\ l.flag = FlagsOf(WideLow)
            /\ k = 4 => l.reg["E"] = WideLow.r /\ l.reg["A"] = WideHigh.r /\ l.flag = FlagsOf(WideHigh)
            /\ k = 5 => WideEnd

LEMMA WideExecute ==
    ASSUME Together, Execute, WideAlong
    PROVE  WideAlong'
<1> DEFINE p == Program(test)
           k == Done(p, todo)
           s == p[k + 1]
           t1 == WideTypes[1]
           t2 == WideTypes[2]
           c == IF test.code = ADD_N THEN ADC_N ELSE SBC_N
<1>1. /\ IsTest(test) /\ test' = test /\ k \in Nat /\ k + 1 \in 1..Len(p) /\ Done(p, todo') = k + 1
      /\ l \in Machine /\ Room(l) /\ StepOk(s) /\ m' = Loaded(l, s) /\ l' = Did(l, s)
      /\ test.kind \in {"decimal", "wide", "memory"} => Plain(s)
      /\ k = 0 => l = Start(test)
  BY NextStep
<1> SUFFICES ASSUME test.kind = "wide"
             PROVE  /\ k \in {0, 1, 2, 3} => WideRegisters(l')
                    /\ k = 0 => l'.reg["A"] = WideLow.r /\ l'.flag = FlagsOf(WideLow)
                    /\ k = 1 => l'.reg["E"] = WideLow.r /\ l'.flag = FlagsOf(WideLow)
                    /\ k = 2 => l'.reg["E"] = WideLow.r /\ l'.reg["A"] = B!High(test.w) /\ l'.flag = FlagsOf(WideLow)
                    /\ k = 3 => l'.reg["E"] = WideLow.r /\ l'.reg["A"] = WideHigh.r /\ l'.flag = FlagsOf(WideHigh)
                    /\ k = 4 => WideEnd'
  <2> HIDE DEF k
  <2>1. test' = test /\ Program(test)' = Program(test) /\ \A j \in 1..5 : k + 1 = j <=> k = j - 1
    BY <1>1
  <2>2. \A n : WideRegisters(n)' <=> WideRegisters(n')
    BY <2>1 DEF WideRegisters
  <2>3. WideLow' = WideLow /\ WideHigh' = WideHigh
    BY <2>1 DEF WideLow, WideHigh, WideTypes
  <2> QED BY <1>1, <2>1, <2>2, <2>3 DEF WideAlong
<1>2. /\ p = <<Step(test.code, test.n), Step(LD_E_A, 0), Step(LD_A_N, B!High(test.w)), Step(c, B!Low(test.w)), Step(ADD_HL_BC, 0)>>
      /\ Plain(s)
  BY <1>1, WideProgram
<1>3. test.code \in {ADD_N, SUB_N} /\ ADD_N # SUB_N
  BY <1>1, Tested DEF ADD_N, SUB_N
<1>4. /\ Type(test.code) = t1 /\ Type(c) = t2 /\ t1 \in {"ADD_N", "SUB_N"} /\ t2 \in {"ADC_N", "SBC_N"}
  BY <1>3, CodesOfTypes DEF WideTypes
<1>5. \A r \in {"A", "B", "C", "E", "H", "L"} : r \in DOMAIN l.reg
  BY <1>1 DEF Machine, Registers8, Reg8
<1> HIDE DEF c, t1, t2
<1>6. ASSUME k = 0 PROVE WideRegisters(l') /\ l'.reg["A"] = WideLow.r /\ l'.flag = FlagsOf(WideLow)
  <2>1. s.code = test.code /\ s.imm = test.n
    BY <1>2, <1>6 DEF Step
  <2>2. WideRegisters(l) /\ l.reg["A"] = test.a
    <3>1. l.reg = Registers(test)
      BY <1>1, <1>6, StartType
    <3> QED BY <3>1 DEF Registers, WideRegisters
  <2> HIDE DEF s, k
  <2>3. Ready(l, s, t1)
    BY <1>1, <1>2, <1>4, <2>1 DEF Ready
  <2>4. CarryInto(l, t1) = 0
    BY <1>4 DEF CarryInto
  <2>5. ResultOf(t1, l.reg["A"], s.imm, CarryInto(l, t1)) = WideLow
    BY <2>1, <2>2, <2>4 DEF WideLow, t1
  <2>6. t1 \in {"ADD_N", "ADC_N", "SUB_N", "SBC_N"}
    BY <1>4
  <2>7. l'.reg = [l.reg EXCEPT !["A"] = WideLow.r] /\ l'.flag = FlagsOf(WideLow)
    BY <1>1, <2>3, <2>5, <2>6, AluStep
  <2> QED BY <1>5, <2>2, <2>7 DEF WideRegisters
<1>7. ASSUME k = 1 PROVE WideRegisters(l') /\ l'.reg["E"] = WideLow.r /\ l'.flag = FlagsOf(WideLow)
  <2>1. s.code = LD_E_A
    BY <1>2, <1>7 DEF Step
  <2>2. WideRegisters(l) /\ l.reg["A"] = WideLow.r /\ l.flag = FlagsOf(WideLow)
    BY <1>7 DEF WideAlong
  <2> HIDE DEF s, k
  <2>3. l'.reg = [l.reg EXCEPT !["E"] = l.reg["A"]] /\ l'.flag = l.flag
    BY <1>1, <1>2, <2>1, LoadSteps
  <2> QED BY <1>5, <2>2, <2>3 DEF WideRegisters
<1>8. ASSUME k = 2 PROVE WideRegisters(l') /\ l'.reg["E"] = WideLow.r /\ l'.reg["A"] = B!High(test.w) /\ l'.flag = FlagsOf(WideLow)
  <2>1. s.code = LD_A_N /\ s.imm = B!High(test.w)
    BY <1>2, <1>8 DEF Step
  <2>2. WideRegisters(l) /\ l.reg["E"] = WideLow.r /\ l.flag = FlagsOf(WideLow)
    BY <1>8 DEF WideAlong
  <2> HIDE DEF s, k
  <2>3. l'.reg = [l.reg EXCEPT !["A"] = s.imm] /\ l'.flag = l.flag
    BY <1>1, <1>2, <2>1, LoadSteps
  <2> QED BY <1>5, <2>1, <2>2, <2>3 DEF WideRegisters
<1>9. ASSUME k = 3 PROVE WideRegisters(l') /\ l'.reg["E"] = WideLow.r /\ l'.reg["A"] = WideHigh.r /\ l'.flag = FlagsOf(WideHigh)
  <2>1. s.code = c /\ s.imm = B!Low(test.w)
    BY <1>2, <1>9 DEF Step
  <2>2. WideRegisters(l) /\ l.reg["E"] = WideLow.r /\ l.reg["A"] = B!High(test.w) /\ l.flag = FlagsOf(WideLow)
    BY <1>9 DEF WideAlong
  <2> HIDE DEF s, k
  <2>3. Ready(l, s, t2)
    BY <1>1, <1>2, <1>4, <2>1 DEF Ready
  <2>4. CarryInto(l, t2) = IF WideLow.c THEN 1 ELSE 0
    BY <1>4, <2>2 DEF CarryInto, FlagsOf
  <2>5. ResultOf(t2, l.reg["A"], s.imm, CarryInto(l, t2)) = WideHigh
    BY <2>1, <2>2, <2>4 DEF WideHigh, t2
  <2>6. t2 \in {"ADD_N", "ADC_N", "SUB_N", "SBC_N"}
    BY <1>4
  <2>7. l'.reg = [l.reg EXCEPT !["A"] = WideHigh.r] /\ l'.flag = FlagsOf(WideHigh)
    BY <1>1, <2>3, <2>5, <2>6, AluStep
  <2> QED BY <1>5, <2>2, <2>7 DEF WideRegisters
<1>10. ASSUME k = 4 PROVE WideEnd'
  <2>1. s.code = ADD_HL_BC
    BY <1>2, <1>10 DEF Step
  <2>2. WideRegisters(l) /\ l.reg["E"] = WideLow.r /\ l.reg["A"] = WideHigh.r /\ l.flag = FlagsOf(WideHigh)
    BY <1>10 DEF WideAlong
  <2> HIDE DEF s, k
  <2>3. m'.reg = l.reg /\ m'.flag = l.flag
    BY <1>1, LoadedIs
  <2> DEFINE hl == B!Join(l.reg["H"], l.reg["L"])
             bc == B!Join(l.reg["B"], l.reg["C"])
             sum == B!Trunc16(Word1 + Word2)
  <2>4. hl = Word1 /\ bc = Word2
    BY <2>2 DEF WideRegisters, Word1, Word2
  <2>5. /\ l'.reg = [l.reg EXCEPT !["H"] = B!High(B!Trunc16(hl + bc)), !["L"] = B!Low(B!Trunc16(hl + bc))]
        /\ l'.flag.C = (hl + bc >= 65536) /\ l'.flag.H = ((hl % 4096) + (bc % 4096) >= 4096)
    BY <1>1, <1>2, <2>1, AddStep
  <2> HIDE DEF hl, bc
  <2>6. l'.reg["H"] = B!High(sum) /\ l'.reg["L"] = B!Low(sum)
    BY <1>5, <2>4, <2>5
  <2>7. l'.flag.C = (Word1 + Word2 >= 65536) /\ l'.flag.H = ((Word1 % 4096) + (Word2 % 4096) >= 4096)
    BY <2>4, <2>5
  <2>8. test' = test
    BY <1>1
  <2> QED BY <2>2, <2>3, <2>6, <2>7, <2>8 DEF WideEnd, WideRegisters, WideLow, WideHigh, WideTypes, Word1, Word2
<1> HIDE DEF k
<1> QED BY <1>6, <1>7, <1>8, <1>9, <1>10

LEMMA WideNext == Together /\ WideAlong /\ [Next]_vars => WideAlong'
<1> SUFFICES ASSUME Together, WideAlong, [Next]_vars PROVE WideAlong'
  OBVIOUS
<1>1. CASE Execute
  BY <1>1, WideExecute
<1>2. CASE Interrupt
  BY <1>2, OnlyInterrupted DEF WideAlong
<1>3. CASE UNCHANGED vars
  BY <1>3 DEF vars, WideAlong, WideEnd, WideRegisters, WideLow, WideHigh, WideTypes, Word1, Word2
<1> QED BY <1>1, <1>2, <1>3 DEF Next

LEMMA WideInit == Init => WideAlong
<1> SUFFICES ASSUME Init PROVE WideAlong
  OBVIOUS
<1>1. Done(Program(test), todo) = 0
  <2>1. IsTest(test) /\ todo = Program(test)
    BY BackendsAssumption DEF Init
  <2> QED BY <2>1, ProgramSteps, LeftStart DEF StepsOk
<1> QED BY <1>1 DEF WideAlong

LEMMA WideEnds == Together /\ WideAlong => WideArithmetic
<1> SUFFICES ASSUME Together, WideAlong, todo = <<>>, test.kind = "wide" PROVE WideArithmetic
  BY DEF WideArithmetic, Ended
<1>1. IsTest(test) /\ Len(Program(test)) = 5
  BY WideProgram DEF Together
<1>2. WideEnd /\ l.reg = e.reg /\ l.flag = e.flag
  BY <1>1, EndedIs DEF WideAlong
<1> DEFINE h1 == B!High(test.w)
           h2 == B!Low(test.w)
           bytes == B!Join(m.reg["A"], m.reg["E"])
<1>3. test.a \in Byte /\ test.n \in Byte /\ h1 \in Byte /\ h2 \in Byte /\ test.code \in {ADD_N, SUB_N}
      /\ ADD_N # SUB_N
  BY <1>1, Tested, Halves DEF ADD_N, SUB_N
<1>4. bytes = B!Join(WideHigh.r, WideLow.r) /\ m.flag.C = WideHigh.c /\ m.flag.H = WideHigh.h
  BY <1>2 DEF WideEnd, FlagsOf
<1>5. ASSUME test.code = ADD_N
      PROVE  /\ bytes = B!Trunc16(Word1 + Word2) /\ m.flag.C = (Word1 + Word2 > 65535)
             /\ \A n \in {l, e} : /\ B!Join(n.reg["H"], n.reg["L"]) = bytes
                                  /\ n.flag.C = m.flag.C /\ n.flag.H = m.flag.H
  <2>1. WideLow = Summed(test.a, test.n, 0) /\ WideHigh = Summed(h1, h2, IF WideLow.c THEN 1 ELSE 0)
    BY <1>5 DEF WideLow, WideHigh, WideTypes, ResultOf
  <2>2. Word1 = B!Join(h1, test.a) /\ Word2 = B!Join(h2, test.n)
    BY DEF Word1, Word2
  <2> HIDE DEF h1, h2
  <2>3. /\ B!Join(WideHigh.r, WideLow.r) = B!Trunc16(Word1 + Word2) /\ WideHigh.c = (Word1 + Word2 > 65535)
        /\ Word1 \in Int /\ Word2 \in Int /\ WideHigh.c = (Word1 + Word2 >= 65536)
        /\ WideHigh.h = ((Word1 % 4096) + (Word2 % 4096) >= 4096)
    BY ONLY <1>3, <2>1, <2>2, WideSum
  <2> DEFINE sum == B!Trunc16(Word1 + Word2)
  <2>4. B!Join(B!High(sum), B!Low(sum)) = sum
    <3>1. sum \in Int /\ 0 <= sum
      BY <2>3, SMT DEF B!Trunc16
    <3> HIDE DEF sum
    <3> QED BY <3>1, SMT DEF B!Join, B!High, B!Low
  <2>5. l.reg["H"] = B!High(sum) /\ l.reg["L"] = B!Low(sum) /\ l.flag.C = (Word1 + Word2 >= 65536)
        /\ l.flag.H = ((Word1 % 4096) + (Word2 % 4096) >= 4096)
    BY <1>2 DEF WideEnd
  <2>6. bytes = sum /\ m.flag.C = (Word1 + Word2 > 65535)
    BY <1>4, <2>3
  <2>7. l.flag.C = m.flag.C /\ l.flag.H = m.flag.H
    BY <1>4, <2>3, <2>5
  <2>8. B!Join(l.reg["H"], l.reg["L"]) = bytes
    BY <2>4, <2>5, <2>6
  <2> HIDE DEF sum, bytes
  <2>9. bytes = B!Trunc16(Word1 + Word2)
    BY <2>6 DEF sum
  <2> QED BY <1>2, <2>6, <2>7, <2>8, <2>9
<1>6. ASSUME test.code # ADD_N
      PROVE  bytes = B!Trunc16(Word1 - Word2) /\ m.flag.C = (Word1 < Word2)
  <2>1. WideLow = Subtracted(test.a, test.n, 0) /\ WideHigh = Subtracted(h1, h2, IF WideLow.c THEN 1 ELSE 0)
    BY <1>6 DEF WideLow, WideHigh, WideTypes, ResultOf
  <2>2. Word1 = B!Join(h1, test.a) /\ Word2 = B!Join(h2, test.n)
    BY DEF Word1, Word2
  <2> HIDE DEF h1, h2
  <2>3. B!Join(WideHigh.r, WideLow.r) = B!Trunc16(Word1 - Word2) /\ WideHigh.c = (Word1 < Word2)
    BY ONLY <1>3, <2>1, <2>2, WideDifference
  <2> QED BY <1>4, <2>3
<1> HIDE DEF bytes
<1>7. CASE test.code = ADD_N
  BY <1>5, <1>7 DEF WideArithmetic, bytes, Word1, Word2
<1>8. CASE test.code # ADD_N
  BY <1>6, <1>8 DEF WideArithmetic, bytes, Word1, Word2
<1> QED BY <1>7, <1>8

\* A word is added or subtracted byte by byte, with the carry between the bytes, to the
\* same result and flags that ADD HL has for words, by either backend (arithmetic.go
\* perform8BitArithmetic, opcodes.go add_hl_r16, emulator.c alu_add, alu_sub and add_hl).
THEOREM WordsAreAddedByBytes == Spec => []WideArithmetic
<1>1. Init => WideAlong
  BY WideInit
<1>2. Together /\ WideAlong /\ [Next]_vars => WideAlong'
  BY WideNext
<1>3. Together /\ WideAlong => WideArithmetic
  BY WideEnds
<1> QED BY <1>1, <1>2, <1>3, BackendsTogether, PTL DEF Spec

-----------------------------------------------------------------------------
(* One memory *)

LEMMA SameMemory ==
    /\ \A a : B!IsRegister(a) = E!IsRegister(a) /\ B!Cell(a) = E!Cell(a)
    /\ \A n, a : B!ram(n, a) = E!ram(n, a) /\ B!read_ram(n, a) = E!read_ram(n, a)
    /\ B!Rom = E!Rom
<1>1. \A a : B!IsRegister(a) = E!IsRegister(a)
  BY DEF B!IsRegister, E!IsRegister, B!Sound, E!Sound, B!Clock, E!Clock, B!Picture, E!Picture
<1>2. \A n, a : B!ram(n, a) = E!ram(n, a)
  BY DEF B!ram, E!ram
<1>3. \A a : B!DeviceValue(a) = E!DeviceValue(a)
  BY DEF B!DeviceValue, E!DeviceValue
<1> QED BY <1>1, <1>2, <1>3, BusCells DEF B!read_ram, E!read_ram, B!Rom, E!Rom

\* Nothing is stored: a register, or the cartridge.
Unwritten(p) == E!Cell(p) \in E!Rom \/ E!IsRegister(p)

\* A store is seen in its cell and nowhere else.
LEMMA StoredRam ==
    ASSUME NEW n, n \in Machine, NEW c, NEW v, NEW a
    PROVE  E!ram(E!store(n, c, v), a) = IF a = c THEN v ELSE E!ram(n, a)
<1>1. E!store(n, c, v).ram = [b \in DOMAIN n.ram \cup {c} |-> IF b = c THEN v ELSE n.ram[b]]
  BY DEF Machine, E!store
<1> QED BY <1>1 DEF E!ram

LEMMA WrittenRam ==
    ASSUME NEW n, n \in Machine, NEW p \in Word, NEW v, NEW a
    PROVE  E!ram(E!write_ram(n, p, v), a) = IF a = E!Cell(p) /\ ~Unwritten(p) THEN v ELSE E!ram(n, a)
<1>1. E!Cell(p) \in E!Rom <=> p \in E!Rom
  <2>1. p \in Int /\ 0 <= p /\ p <= 65535
    BY WordIs
  <2>2. CASE p \in E!EchoRam
    <3>1. 57344 <= p /\ p <= 65023 /\ E!Cell(p) = p - 8192
      BY <2>1, <2>2, Regions DEF E!Cell
    <3>2. E!Cell(p) \in Int /\ E!Cell(p) > 32767 /\ p > 32767
      BY <2>1, <3>1, SMT
    <3> QED BY <2>1, <3>2, Regions
  <2>3. CASE p \notin E!EchoRam
    BY <2>3 DEF E!Cell
  <2> QED BY <2>2, <2>3
<1>2. CASE E!IsRegister(p)
  <2>1. E!write_ram(n, p, v) = [n EXCEPT !.log = E!Logged(n, "write", p, v).log]
    BY <1>2, WriteIs DEF E!Logged, Machine
  <2>2. E!write_ram(n, p, v).ram = n.ram
    BY <2>1 DEF Machine
  <2> QED BY <1>2, <2>2 DEF E!ram, Unwritten
<1>3. CASE ~E!IsRegister(p) /\ p \in E!Rom
  BY <1>1, <1>3, WriteIs DEF Unwritten
<1>4. CASE ~E!IsRegister(p) /\ p \notin E!Rom
  BY <1>1, <1>4, WriteIs, StoredRam DEF Unwritten
<1> QED BY <1>2, <1>3, <1>4

\* What LD (nn),A leaves, but where the instruction itself is.
LEMMA StoreStep ==
    ASSUME NEW n, NEW s, Ready(n, s, "LD_NN_A")
    PROVE  LET y == Did(n, s)
               p == s.imm
           IN  /\ y.reg = n.reg /\ y.pc = E!Trunc16(n.pc + 3)
               /\ \A a : a \notin Span(n.pc) =>
                      E!ram(y, a) = IF a = E!Cell(p) /\ ~Unwritten(p) THEN n.reg["A"] ELSE E!ram(n, a)
<1> DEFINE x == Loaded(n, s)
           i == Instruction(s)
           y == L!Run(x, i)
           z == L!emitInstruction(x, i)
           p == s.imm
           v == n.reg["A"]
<1>1. /\ Good(x) /\ x.reg = n.reg /\ Runs(x, i, s.code) /\ i.imm = p /\ i.type = "LD_NN_A"
      /\ y.reg = z.reg /\ y.ram = z.ram /\ y.pc = E!Trunc16(n.pc + i.len)
  BY PlainRun DEF Ready
<1>2. \A a : a \notin Span(n.pc) => E!ram(x, a) = E!ram(n, a)
  BY LoadedIs DEF Ready
<1>3. p \in Word
  BY DEF Ready, StepOk
<1> HIDE DEF x, i, y
<1>4. i.len = 3
  BY <1>1, Lengths DEF Runs, Len3
<1>5. z = E!write_ram(x, p, v)
  <2>1. z = L!a_loads(x, i)
    BY <1>1, EmitLoads DEF L!ALoads
  <2>2. z = L!store_a(x, p)
    BY <1>1, <2>1 DEF L!a_loads
  <2>3. z = L!write_ram(x, p, x.reg["A"])
    BY <2>2 DEF L!store_a, L!updateMemory
  <2> QED BY <1>1, <1>3, <2>3, SameBus
<1> HIDE DEF z, p, v
<1>6. z.reg = x.reg
  BY <1>1, <1>3, <1>5, AccessKeeps DEF SameCpu
<1>7. \A a : E!ram(z, a) = IF a = E!Cell(p) /\ ~Unwritten(p) THEN v ELSE E!ram(x, a)
  BY <1>1, <1>3, <1>5, WrittenRam DEF Good
<1>8. \A a : E!ram(y, a) = E!ram(z, a)
  BY <1>1 DEF E!ram
<1>9. y.reg = n.reg /\ y.pc = E!Trunc16(n.pc + 3)
  BY <1>1, <1>4, <1>6
<1>10. \A a : a \notin Span(n.pc) =>
          E!ram(y, a) = IF a = E!Cell(p) /\ ~Unwritten(p) THEN v ELSE E!ram(n, a)
  BY <1>2, <1>7, <1>8
<1> QED BY <1>9, <1>10 DEF Did, y, x, i, p, v

\* What LD A,(nn) loads, but from where the instruction itself is.
LEMMA LoadStep ==
    ASSUME NEW n, NEW s, Ready(n, s, "LD_A_NN"), E!Cell(s.imm) \notin Span(n.pc)
    PROVE  Did(n, s).reg["A"] = E!read_ram(n, s.imm)
<1> DEFINE x == Loaded(n, s)
           i == Instruction(s)
           y == L!Run(x, i)
           z == L!emitInstruction(x, i)
           q == s.imm
<1>1. /\ Good(x) /\ x.reg = n.reg /\ Runs(x, i, s.code) /\ i.imm = q /\ i.type = "LD_A_NN"
      /\ y.reg = z.reg
  BY PlainRun DEF Ready
<1>2. E!ram(x, E!Cell(q)) = E!ram(n, E!Cell(q))
  BY LoadedIs DEF Ready
<1>3. q \in Word
  BY DEF Ready, StepOk
<1> HIDE DEF x, i, y
<1>4. z = L!load_a(x, q)
  <2>1. z = L!a_loads(x, i)
    BY <1>1, EmitLoads DEF L!ALoads
  <2> QED BY <1>1, <2>1 DEF L!a_loads
<1>5. z = E!load_from(x, "A", q)
  BY <1>1, <1>3, <1>4, LoadFrom DEF Reg8
<1> HIDE DEF z, q
<1>6. z.reg["A"] = E!read_ram(x, q)
  <2>1. Good(E!AfterRead(x, q))
    BY <1>1, <1>3, ReadKeeps DEF From
  <2> DEFINE w == E!AfterRead(x, q)
             v == E!read_ram(x, q)
  <2>2. z = [w EXCEPT !.reg["A"] = v]
    BY <1>5 DEF E!load_from, E!set_reg8
  <2> HIDE DEF w, v
  <2>3. w \in Machine
    BY <2>1 DEF w, Good
  <2>4. z.reg["A"] = v
    BY <2>2, <2>3 DEF Machine, Registers8, Reg8
  <2> QED BY <2>4 DEF v
<1>7. E!read_ram(x, q) = E!read_ram(n, q)
  BY <1>2 DEF E!read_ram
<1> QED BY <1>1, <1>6, <1>7 DEF Did, y, x, i, q

\* What a load must find.
Wanted ==
    IF E!Cell(test.w[2]) = E!Cell(test.w[1]) /\ ~Unwritten(test.w[1]) THEN test.a
    ELSE E!read_ram(Start(test), test.w[2])
\* After the store the cell holds A, and the others what they held at the start.
MemoryAlong ==
    test.kind = "memory" =>
        LET k == Done(Program(test), todo)
            p == test.w[1]
        IN  /\ k = 1 => /\ l.pc = 339 /\ l.reg["A"] = test.a
                        /\ \A a \in Int : a < 336 \/ a > 341 =>
                               E!ram(l, a) = IF a = E!Cell(p) /\ ~Unwritten(p) THEN test.a ELSE E!ram(Start(test), a)
            /\ k = 2 => l.reg["A"] = Wanted

\* A cell that is not the program's is read from outside of the program.
LEMMA OutsideProgram ==
    ASSUME NEW q \in Word, q \notin 336..341, NEW c, c = E!Cell(q)
    PROVE  /\ c \in Int /\ (c < 336 \/ c > 341) /\ (E!IsRegister(q) => c = q)
           /\ \A p \in Word : E!IsRegister(q) /\ E!Cell(p) = c => E!IsRegister(p)
<1>1. ASSUME NEW p \in Word
      PROVE  /\ p \in Int /\ 0 <= p /\ p <= 65535 /\ E!Cell(p) \in Int
             /\ E!Cell(p) = p \/ (E!Cell(p) = p - 8192 /\ 57344 <= p /\ p <= 65023)
  BY WordIs, Regions DEF E!Cell
<1>2. E!IsRegister(q) => q >= 65280
  BY <1>1, Regions
<1>3. E!IsRegister(q) => c = q
  <2>1. q \in E!EchoRam => q <= 65023
    BY <1>1, Regions
  <2> QED BY <1>1, <1>2, <2>1 DEF E!Cell
<1>4. ASSUME NEW p \in Word, E!IsRegister(q), E!Cell(p) = c PROVE E!IsRegister(p)
  <2>1. E!Cell(p) >= 65280
    BY <1>2, <1>3, <1>4
  <2>2. E!Cell(p) = p
    BY <1>1, <2>1
  <2> QED BY <1>3, <1>4, <2>2
<1>5. c \in Int /\ (c < 336 \/ c > 341)
  <2>1. q < 336 \/ q > 341
    BY <1>1
  <2> QED BY <1>1, <2>1
<1> QED BY <1>3, <1>4, <1>5

LEMMA MemoryExecute ==
    ASSUME Together, Execute, MemoryAlong
    PROVE  MemoryAlong'
<1> DEFINE prog == Program(test)
           k == Done(prog, todo)
           s == prog[k + 1]
           p == test.w[1]
           q == test.w[2]
           After(a) == IF a = E!Cell(p) /\ ~Unwritten(p) THEN test.a ELSE E!ram(Start(test), a)
<1>1. /\ IsTest(test) /\ test' = test /\ k \in Nat /\ k + 1 \in 1..Len(prog) /\ Done(prog, todo') = k + 1
      /\ l \in Machine /\ Room(l) /\ StepOk(s) /\ l' = Did(l, s)
      /\ test.kind \in {"decimal", "wide", "memory"} => Plain(s)
      /\ k = 0 => l = Start(test)
  BY NextStep
<1> SUFFICES ASSUME test.kind = "memory"
             PROVE  /\ k = 0 => /\ l'.pc = 339 /\ l'.reg["A"] = test.a
                                /\ \A a \in Int : a < 336 \/ a > 341 => E!ram(l', a) = After(a)
                    /\ k = 1 => l'.reg["A"] = Wanted
  <2> HIDE DEF k
  <2>1. test' = test /\ Program(test)' = Program(test) /\ (k + 1 = 1 => k = 0) /\ (k + 1 = 2 => k = 1)
    BY <1>1
  <2>2. Done(Program(test), todo)' = k + 1 /\ Wanted' = Wanted /\ \A a : After(a)' = After(a)
    BY <1>1, <2>1 DEF Wanted, Unwritten
  <2> QED BY <1>1, <2>1, <2>2 DEF MemoryAlong
<1>2. prog = <<Step(LD_NN_A, p), Step(LD_A_NN, q)>> /\ Plain(s)
  BY <1>1, MemoryProgram
<1>3. p \in Word /\ q \in Word /\ q \notin 336..341
  BY <1>1, Tested
<1>4. Type(LD_NN_A) = "LD_NN_A" /\ Type(LD_A_NN) = "LD_A_NN"
  BY KnownCodes DEF Known
<1> HIDE DEF p, q
<1>5. ASSUME k = 0
      PROVE  /\ l'.pc = 339 /\ l'.reg["A"] = test.a
             /\ \A a \in Int : a < 336 \/ a > 341 => E!ram(l', a) = After(a)
  <2>1. s.code = LD_NN_A /\ s.imm = p
    BY <1>2, <1>5 DEF Step
  <2>2. l.pc = 336 /\ l.reg["A"] = test.a /\ \A a : E!ram(l, a) = E!ram(Start(test), a)
    <3>1. l.reg = Registers(test) /\ l.pc = 336 /\ l = Start(test)
      BY <1>1, <1>5, StartType DEF Entry
    <3>2. Registers(test).A = test.a
      BY DEF Registers
    <3> QED BY <3>1, <3>2
  <2> HIDE DEF s, k
  <2>3. Ready(l, s, "LD_NN_A")
    BY <1>1, <1>2, <1>4, <2>1 DEF Ready
  <2>4. /\ l'.reg = l.reg /\ l'.pc = E!Trunc16(l.pc + 3)
        /\ \A a : a \notin Span(l.pc) => E!ram(l', a) = IF a = E!Cell(p) /\ ~Unwritten(p) THEN l.reg["A"] ELSE E!ram(l, a)
    BY <1>1, <2>1, <2>3, StoreStep
  <2>5. l'.pc = 339
    BY <2>2, <2>4, SMT DEF E!Trunc16
  <2>6. \A a \in Int : a < 336 \/ a > 341 => a \notin Span(l.pc)
    BY <2>2 DEF Span
  <2>7. \A a \in Int : a < 336 \/ a > 341 => E!ram(l', a) = After(a)
    BY <2>2, <2>4, <2>6
  <2> QED BY <2>2, <2>4, <2>5, <2>7
<1>6. ASSUME k = 1 PROVE l'.reg["A"] = Wanted
  <2>1. s.code = LD_A_NN /\ s.imm = q
    BY <1>2, <1>6 DEF Step
  <2>2. l.pc = 339 /\ \A a \in Int : a < 336 \/ a > 341 => E!ram(l, a) = After(a)
    BY <1>6 DEF MemoryAlong, p
  <2> DEFINE c == E!Cell(q)
  <2>3. c \in Int /\ (c < 336 \/ c > 341) /\ (E!IsRegister(q) => c = q)
        /\ (E!IsRegister(q) /\ E!Cell(p) = c => E!IsRegister(p))
    BY <1>3, OutsideProgram
  <2> HIDE DEF s, k, c
  <2>4. c \notin Span(l.pc)
    BY <2>2, <2>3 DEF Span
  <2>5. Ready(l, s, "LD_A_NN") /\ E!Cell(s.imm) \notin Span(l.pc)
    BY <1>1, <1>2, <1>4, <2>1, <2>4 DEF Ready, c
  <2>6. l'.reg["A"] = E!read_ram(l, q)
    BY <1>1, <2>1, <2>5, LoadStep
  <2>7. E!ram(l, c) = After(c)
    BY <2>2, <2>3
  <2>8. CASE E!IsRegister(q)
    <3>1. E!read_ram(l, q) = E!read_ram(Start(test), q)
      BY <2>8 DEF E!read_ram
    <3>2. ~(c = E!Cell(p) /\ ~Unwritten(p))
      BY <2>3, <2>8 DEF Unwritten
    <3> QED BY <2>6, <3>1, <3>2 DEF Wanted, c, p, q
  <2>9. CASE ~E!IsRegister(q)
    <3>1. E!read_ram(l, q) = After(c) /\ E!read_ram(Start(test), q) = E!ram(Start(test), c)
      BY <2>7, <2>9 DEF E!read_ram, c
    <3> QED BY <2>6, <3>1 DEF Wanted, c, p, q
  <2> QED BY <2>8, <2>9
<1> QED BY <1>5, <1>6

LEMMA MemoryNext == Together /\ MemoryAlong /\ [Next]_vars => MemoryAlong'
<1> SUFFICES ASSUME Together, MemoryAlong, [Next]_vars PROVE MemoryAlong'
  OBVIOUS
<1>1. CASE Execute
  BY <1>1, MemoryExecute
<1>2. CASE Interrupt
  BY <1>2, OnlyInterrupted DEF MemoryAlong
<1>3. CASE UNCHANGED vars
  BY <1>3 DEF vars, MemoryAlong, Wanted, Unwritten
<1> QED BY <1>1, <1>2, <1>3 DEF Next

LEMMA MemoryInit == Init => MemoryAlong
<1> SUFFICES ASSUME Init PROVE MemoryAlong
  OBVIOUS
<1>1. Done(Program(test), todo) = 0
  <2>1. IsTest(test) /\ todo = Program(test)
    BY BackendsAssumption DEF Init
  <2> QED BY <2>1, ProgramSteps, LeftStart DEF StepsOk
<1> QED BY <1>1 DEF MemoryAlong

LEMMA MemoryEnds == Together /\ MemoryAlong => OneMemory
<1> SUFFICES ASSUME Together, MemoryAlong, todo = <<>>, test.kind = "memory" PROVE OneMemory
  BY DEF OneMemory, Ended
<1>1. IsTest(test) /\ Len(Program(test)) = 2
  BY MemoryProgram DEF Together
<1>2. l.reg["A"] = Wanted /\ e.reg["A"] = Wanted
  BY <1>1, EndedIs DEF MemoryAlong
<1> QED BY <1>2, SameMemory DEF OneMemory, Wanted, Unwritten

\* A byte that either backend stores is what either loads from that cell, echo RAM
\* included, and no store changes another cell, ROM or what a register answers (ram.c
\* write_ram and read_ram, helpers.go updateMemory and readMemory).
THEOREM StoresAreSeenInTheirCell == Spec => []OneMemory
<1>1. Init => MemoryAlong
  BY MemoryInit
<1>2. Together /\ MemoryAlong /\ [Next]_vars => MemoryAlong'
  BY MemoryNext
<1>3. Together /\ MemoryAlong => OneMemory
  BY MemoryEnds
<1> QED BY <1>1, <1>2, <1>3, BackendsTogether, PTL DEF Spec

-----------------------------------------------------------------------------
(* An interrupt and its handler *)

\* RET and RETI, wherever the program is.
LEMMA ReturnStep ==
    ASSUME NEW n, n \in Machine, Room(n), NEW s, StepOk(s), s.code < 256, Type(s.code) \in {"RET", "RETI"},
           NEW x, x = Loaded(n, s), NEW y, y = Did(n, s)
    PROVE  /\ y.pc = E!Join(E!read_ram(x, Above(n, 1)), E!read_ram(x, n.sp)) /\ y.sp = Above(n, 2)
           /\ y.ime = (IF Type(s.code) = "RETI" THEN 1 ELSE n.ime) /\ x \in Machine
           /\ \A a : a \notin Span(n.pc) => E!ram(x, a) = E!ram(n, a)
<1> DEFINE i == Instruction(s)
<1>1. /\ x \in Machine /\ x.sp = n.sp /\ x.ime = n.ime /\ y = L!Run(x, i)
      /\ \A a : a \notin Span(n.pc) => E!ram(x, a) = E!ram(n, a)
  BY LoadedIs DEF Did
<1>2. Runs(x, i, s.code) /\ i.type = Type(s.code) /\ Timed(i) /\ Quiet(x)
  BY UnprefixedRun
<1> HIDE DEF i
<1>3. i.extra = 0 /\ i.cycles \in Nat
  <2>1. i.type \in L!Terminators \ Conditional
    BY <1>2, SMT DEF L!Terminators, Conditional
  <2> QED BY <1>2, <2>1 DEF Timed, Runs, Agrees
<1> DEFINE b == IF i.type = "RETI" THEN 1 ELSE x.ime
<1>4. y = Left(x, i.cycles, E!pop16(x), b, Above(x, 2), x.ram, LowFirstPop(x, x.cycles + i.cycles))
  BY <1>1, <1>2, <1>3, ReturnsWork DEF PopForm
<1>5. Above(x, 1) = Above(n, 1) /\ Above(x, 2) = Above(n, 2)
  BY <1>1 DEF Above
<1>6. E!pop16(x) = E!Join(E!read_ram(x, Above(n, 1)), E!read_ram(x, n.sp))
  BY <1>1, <1>5, PopForms
<1>7. y.pc = E!pop16(x) /\ y.sp = Above(x, 2) /\ y.ime = b
  BY <1>1, <1>4 DEF Left, Machine
<1> QED BY <1>1, <1>2, <1>5, <1>6, <1>7

\* What the controller leaves at the start of a program.
LEMMA InterruptedIs ==
    ASSUME NEW t, IsTest(t), t.kind # "memory", NEW n, n = Interrupted(Start(t)),
           NEW s1, s1 = E!Trunc16(t.w - 1), NEW s2, s2 = E!Trunc16(t.w - 2)
    PROVE  /\ n \in Machine /\ n.sp = s2 /\ n.pc = 64
           /\ s1 = Above(n, 1) /\ t.w = Above(n, 2) /\ s1 # s2
           /\ \A a : E!ram(n, a) = IF a = s2 THEN 80 ELSE IF a = s1 THEN 1 ELSE E!ram(Start(t), a)
<1> DEFINE x == Start(t)
           y == E!store(x, s1, 1)
           z == E!store(y, s2, 80)
<1>1. x \in Machine /\ x.pc = 336 /\ x.sp = t.w /\ Quiet(x) /\ t.w \in Word
  BY StartType, Tested DEF Entry, Quiet
<1>2. n \in Machine
  BY <1>1, InterruptType
<1>3. B!High(336) = 1 /\ B!Low(336) = 80
  BY SMT DEF B!High, B!Low
<1> HIDE DEF x
<1>4. n = [z EXCEPT !.sp = s2, !.ime = 0, !.pc = 64]
  <2>1. B!Trunc16(x.sp - 1) = s1 /\ B!Trunc16(x.sp - 2) = s2
    BY <1>1, BusCells
  <2>2. B!interrupt_push(x) = [E!store(E!store(x, s1, B!High(x.pc)), s2, B!Low(x.pc)) EXCEPT !.sp = s2, !.ime = 0]
    BY <2>1, SameStore DEF B!interrupt_push
  <2>3. B!interrupt_push(x) = [z EXCEPT !.sp = s2, !.ime = 0]
    BY <1>1, <1>3, <2>2
  <2>4. n = [B!interrupt_push(x) EXCEPT !.pc = 64]
    BY DEF x, Interrupted
  <2> HIDE DEF z
  <2> QED BY <2>3, <2>4
<1>5. /\ t.w \in Int /\ 0 <= t.w /\ t.w <= 65535 /\ s1 = (t.w - 1) % 65536 /\ s2 = (t.w - 2) % 65536
  BY <1>1, WordIs DEF E!Trunc16
<1>6. s1 \in Word /\ s2 \in Word /\ s1 # s2 /\ E!Trunc16(s2 + 1) = s1 /\ E!Trunc16(s2 + 2) = t.w
  <2>1. s1 = (IF t.w = 0 THEN 65535 ELSE t.w - 1)
    BY <1>5, SMT
  <2>2. s2 = (IF t.w = 0 THEN 65534 ELSE IF t.w = 1 THEN 65535 ELSE t.w - 2)
    BY <1>5, SMT
  <2>3. (s2 + 1) % 65536 = s1 /\ (s2 + 2) % 65536 = t.w
    BY <1>5, <2>1, <2>2, SMT
  <2> QED BY <1>5, <2>1, <2>2, <2>3, WordIs DEF E!Trunc16
<1>7. y \in Machine /\ z \in Machine
  <2>1. Good(x) /\ 1 \in Byte /\ 80 \in Byte
    BY <1>1, ByteIs DEF Good, Quiet, Stamped
  <2>2. Good(y)
    BY <1>6, <2>1, StoreKeeps DEF From
  <2> HIDE DEF y
  <2>3. Good(z)
    BY <1>6, <2>1, <2>2, StoreKeeps DEF From
  <2> QED BY <2>2, <2>3 DEF Good
<1>8. \A a : E!ram(z, a) = IF a = s2 THEN 80 ELSE IF a = s1 THEN 1 ELSE E!ram(x, a)
  <2>1. \A a : E!ram(y, a) = IF a = s1 THEN 1 ELSE E!ram(x, a)
    BY <1>1, StoredRam
  <2> HIDE DEF y
  <2>2. \A a : E!ram(z, a) = IF a = s2 THEN 80 ELSE E!ram(y, a)
    BY <1>7, StoredRam
  <2> HIDE DEF z
  <2> QED BY <2>1, <2>2
<1> HIDE DEF z
<1>9. n.sp = s2 /\ n.pc = 64 /\ n.ram = z.ram
  BY <1>4, <1>7 DEF Machine
<1>10. \A a : E!ram(n, a) = E!ram(z, a)
  BY <1>9 DEF E!ram
<1> QED BY <1>2, <1>6, <1>8, <1>9, <1>10 DEF Above, x

\* A byte of the address is read back exactly where the bus reads the cell the
\* controller stored it in.
LEMMA ReadBack ==
    ASSUME NEW t, IsTest(t), t.kind = "interrupt", NEW j \in {1, 2}, NEW a, a = E!Trunc16(t.w - j),
           NEW v, v = (IF j = 1 THEN 1 ELSE 80), NEW n, n = Interrupted(Start(t)),
           NEW x, \A b : b \notin Span(n.pc) => E!ram(x, b) = E!ram(n, b)
    PROVE  E!read_ram(x, a) = v <=> ~E!IsRegister(a) /\ a \notin E!EchoRam
<1> DEFINE s1 == E!Trunc16(t.w - 1)
           s2 == E!Trunc16(t.w - 2)
<1>1. /\ n.pc = 64 /\ s1 # s2
      /\ \A b : E!ram(n, b) = IF b = s2 THEN 80 ELSE IF b = s1 THEN 1 ELSE E!ram(Start(t), b)
  BY InterruptedIs
<1>2. /\ t.w \in Int /\ 0 <= t.w /\ t.w <= 65535 /\ (t.w < 65 \/ t.w > 68)
  <2>1. t.w \in Word /\ t.w \notin 65..68
    BY Tested
  <2> QED BY <2>1, WordIs
<1>3. /\ s1 = (IF t.w = 0 THEN 65535 ELSE t.w - 1)
      /\ s2 = (IF t.w = 0 THEN 65534 ELSE IF t.w = 1 THEN 65535 ELSE t.w - 2)
  <2>1. s1 = (t.w - 1) % 65536 /\ s2 = (t.w - 2) % 65536
    BY DEF E!Trunc16
  <2> QED BY <1>2, <2>1, SMT
<1>4. a = (IF j = 1 THEN s1 ELSE s2)
  OBVIOUS
<1> HIDE DEF s1, s2
<1>5. a \in Int /\ 0 <= a /\ a <= 65535 /\ (a < 64 \/ a > 66) /\ s1 \in Int /\ s2 \in Int
  BY <1>2, <1>3, <1>4, SMT
<1>6. \A b \in Int : b < 64 \/ b > 66 => E!ram(x, b) = E!ram(n, b)
  BY <1>1 DEF Span
<1>7. CASE E!IsRegister(a)
  <2>1. E!read_ram(x, a) = (7 * a + 3) % 256
    BY <1>7 DEF E!read_ram, E!DeviceValue
  <2>2. \/ 65296 <= a /\ a <= 65343
        \/ 65284 <= a /\ a <= 65287
        \/ 65344 <= a /\ a <= 65355
        \/ a = 65280 \/ a = 65295 \/ a = 65535
    BY <1>5, <1>7, Regions
  <2>3. (7 * a + 3) % 256 # 1 /\ (7 * a + 3) % 256 # 80
    BY <1>5, <2>2, SMTT(60)
  <2> QED BY <1>7, <2>1, <2>3
<1>8. CASE ~E!IsRegister(a) /\ a \in E!EchoRam
  <2>1. 57344 <= a /\ a <= 65023 /\ E!Cell(a) = a - 8192
    BY <1>5, <1>8, Regions DEF E!Cell
  <2> DEFINE c == a - 8192
  <2>2. E!read_ram(x, a) = E!ram(x, c)
    BY <1>8, <2>1 DEF E!read_ram
  <2>3. t.w = a + j
    BY <1>2, <1>3, <1>4, <2>1, SMT
  <2>4. c \in Int /\ c > 66 /\ c # s1 /\ c # s2
    BY <1>2, <1>3, <1>5, <2>1, <2>3, SMT
  <2>5. E!ram(Start(t), c) = 0
    <3> DEFINE b == B!Trunc16(t.w + 1)
    <3>1. (t.w + 1) % 65536 = t.w + 1
      BY <1>5, <2>1, <2>3, SMT
    <3>2. b = t.w + 1
      BY <3>1 DEF B!Trunc16
    <3>3. B!Cell(t.w) \in {t.w, t.w - 8192} /\ B!Cell(b) \in {b, b - 8192}
      BY DEF B!Cell
    <3> HIDE DEF b
    <3>4. c # t.w /\ c # t.w - 8192 /\ c # b /\ c # b - 8192
      BY <1>5, <2>3, <3>2, SMT
    <3>5. c \notin {B!Cell(t.w), B!Cell(b)}
      BY <3>3, <3>4
    <3>6. DOMAIN Start(t).ram = {B!Cell(t.w), B!Cell(b)}
      <4>1. Start(t).ram = Cells(t)
        BY StartType
      <4>2. Cells(t) = [d \in {B!Cell(t.w), B!Cell(b)} |-> IF d = B!Cell(t.w) THEN t.n ELSE (t.n + 90) % 256]
        BY DEF Cells, b
      <4> QED BY <4>1, <4>2
    <3> HIDE DEF c
    <3> QED BY <3>5, <3>6 DEF E!ram
  <2> HIDE DEF c
  <2>6. E!ram(x, c) = 0
    BY <1>1, <1>6, <2>4, <2>5 DEF s1, s2
  <2> QED BY <1>8, <2>2, <2>6
<1>9. CASE ~E!IsRegister(a) /\ a \notin E!EchoRam
  <2>1. E!read_ram(x, a) = E!ram(x, a)
    BY <1>9 DEF E!read_ram, E!Cell
  <2>2. E!ram(n, a) = v
    BY <1>1, <1>4 DEF s1, s2
  <2> QED BY <1>5, <1>6, <1>9, <2>1, <2>2
<1> QED BY <1>7, <1>8, <1>9

\* Where the handler returns to, and with what; both bytes of the address have been seen.
Returned ==
    LET seen == \A k \in {1, 2} : LET addr == E!Trunc16(test.w - k)
                                 IN  ~E!IsRegister(addr) /\ addr \notin E!EchoRam
    IN  l.sp = test.w /\ l.ime = 1 /\ (l.pc = Entry <=> seen)
ReturnsAlong ==
    test.kind = "interrupt" =>
        LET k == Done(Program(test), todo)
        IN  (k = 1 => l = Interrupted(Start(test))) /\ (k = 2 => Returned)

LEMMA ReturnsExecute ==
    ASSUME Together, Execute, ReturnsAlong
    PROVE  ReturnsAlong'
<1> DEFINE p == Program(test)
           k == Done(p, todo)
           s == p[k + 1]
           s1 == E!Trunc16(test.w - 1)
           s2 == E!Trunc16(test.w - 2)
<1>1. /\ IsTest(test) /\ test' = test /\ k \in Nat /\ k + 1 \in 1..Len(p) /\ Done(p, todo') = k + 1
      /\ l \in Machine /\ Room(l) /\ StepOk(s) /\ m' = Loaded(l, s) /\ l' = Did(l, s)
  BY NextStep
<1> SUFFICES ASSUME test.kind = "interrupt" PROVE k # 0 /\ (k = 1 => Returned')
  <2> HIDE DEF k
  <2>1. test' = test /\ Program(test)' = Program(test) /\ (k + 1 = 1 => k = 0) /\ (k + 1 = 2 => k = 1)
    BY <1>1
  <2> QED BY <1>1, <2>1 DEF ReturnsAlong
<1>2. p = <<Step(INT, 0), Step(RETI, 0)>> /\ Step(INT, 0).code = INT
  BY <1>1, InterruptProgram
<1>3. k # 0
  <2>1. ASSUME k = 0 PROVE FALSE
    <3>1. s.code = INT
      BY <1>2, <2>1
    <3> HIDE DEF s
    <3> QED BY <1>1, <3>1, SMTT(30) DEF StepOk, Codes, O!Codes, INT
  <2> QED BY <2>1
<1>4. ASSUME k = 1 PROVE Returned'
  <2>1. s.code = RETI /\ s.code < 256 /\ Type(s.code) = "RETI"
    <3>1. s.code = RETI
      BY <1>2, <1>4 DEF Step
    <3>2. RETI < 256 /\ Type(RETI) = "RETI"
      BY KnownCodes DEF Known, RETI
    <3> HIDE DEF s
    <3> QED BY <3>1, <3>2
  <2>2. l = Interrupted(Start(test))
    BY <1>4 DEF ReturnsAlong
  <2> HIDE DEF s, k
  <2>3. l.sp = s2 /\ l.pc = 64 /\ s1 = Above(l, 1) /\ test.w = Above(l, 2)
    BY <1>1, <2>2, InterruptedIs
  <2> DEFINE x == Loaded(l, s)
             u == E!read_ram(x, s1)
             v == E!read_ram(x, s2)
  <2>4. /\ l'.pc = E!Join(u, v) /\ l'.sp = test.w /\ l'.ime = 1 /\ x \in Machine
        /\ \A a : a \notin Span(l.pc) => E!ram(x, a) = E!ram(l, a)
    BY <1>1, <2>1, <2>3, ReturnStep
  <2>5. u \in Byte /\ v \in Byte
    <3>1. s1 \in Word /\ s2 \in Word
      BY <1>1, <2>3, StackWords DEF Machine
    <3>2. Good(x)
      BY <1>1, LoadedIs
    <3> HIDE DEF x
    <3> QED BY <3>1, <3>2, ReadType
  <2> HIDE DEF x
  <2>6. (u = 1 <=> ~E!IsRegister(s1) /\ s1 \notin E!EchoRam) /\ (v = 80 <=> ~E!IsRegister(s2) /\ s2 \notin E!EchoRam)
    BY <1>1, <2>2, <2>4, ReadBack
  <2> HIDE DEF u, v
  <2>7. E!Join(u, v) = 336 <=> u = 1 /\ v = 80
    <3>1. u \in Int /\ 0 <= u /\ u <= 255 /\ v \in Int /\ 0 <= v /\ v <= 255
      BY <2>5, ByteIs
    <3> QED BY <3>1, SMT DEF E!Join
  <2>8. l'.pc = 336 <=> /\ ~E!IsRegister(s1) /\ s1 \notin E!EchoRam
                        /\ ~E!IsRegister(s2) /\ s2 \notin E!EchoRam
    BY <2>4, <2>6, <2>7
  <2>9. test' = test
    BY <1>1
  <2> QED BY <2>4, <2>8, <2>9 DEF Returned, Entry
<1> QED BY <1>3, <1>4

LEMMA ReturnsInterrupt ==
    ASSUME Together, Interrupt
    PROVE  ReturnsAlong'
<1> DEFINE p == Program(test)
           k == Done(p, todo)
<1>1. /\ IsTest(test) /\ Remains(p, todo) /\ todo # <<>> /\ Head(todo).code = INT /\ test' = test
      /\ l' = Interrupted(l) /\ todo' = Tail(todo) /\ (k = 0 => l = Start(test))
  BY DEF Together, Progress, Interrupt, Interrupted
<1>2. test.kind = "interrupt"
  BY OnlyInterrupted
<1>3. p = <<Step(INT, 0), Step(RETI, 0)>> /\ StepOk(Step(RETI, 0)) /\ StepsOk(test, p)
  BY <1>1, <1>2, InterruptProgram, ProgramSteps
<1>4. Head(todo) = p[k + 1] /\ Done(p, todo') = k + 1 /\ k \in Nat /\ k + 1 \in 1..Len(p)
  <2>1. p \in Seq(Steps)
    BY <1>3 DEF StepsOk
  <2> HIDE DEF p
  <2> QED BY <1>1, <2>1, LeftNext
<1>5. k = 0
  <2>1. k + 1 \in {1, 2}
    BY <1>3, <1>4
  <2>2. Step(RETI, 0).code = RETI /\ RETI # INT
    BY DEF Step, RETI, INT
  <2> HIDE DEF k
  <2>3. k # 1
    BY <1>1, <1>3, <1>4, <2>2
  <2> QED BY <1>4, <2>1, <2>3
<1>6. l' = Interrupted(Start(test')) /\ Done(Program(test'), todo') = 1
  BY <1>1, <1>4, <1>5
<1> QED BY <1>6 DEF ReturnsAlong

LEMMA ReturnsNext == Together /\ ReturnsAlong /\ [Next]_vars => ReturnsAlong'
<1> SUFFICES ASSUME Together, ReturnsAlong, [Next]_vars PROVE ReturnsAlong'
  OBVIOUS
<1>1. CASE Execute
  BY <1>1, ReturnsExecute
<1>2. CASE Interrupt
  BY <1>2, ReturnsInterrupt
<1>3. CASE UNCHANGED vars
  BY <1>3 DEF vars, ReturnsAlong, Returned
<1> QED BY <1>1, <1>2, <1>3 DEF Next

LEMMA ReturnsInit == Init => ReturnsAlong
<1> SUFFICES ASSUME Init PROVE ReturnsAlong
  OBVIOUS
<1>1. Done(Program(test), todo) = 0
  <2>1. IsTest(test) /\ todo = Program(test)
    BY BackendsAssumption DEF Init
  <2> QED BY <2>1, ProgramSteps, LeftStart DEF StepsOk
<1> QED BY <1>1 DEF ReturnsAlong

LEMMA ReturnsEnd == Together /\ ReturnsAlong => InterruptReturns
<1> SUFFICES ASSUME Together, ReturnsAlong, todo = <<>>, test.kind = "interrupt" PROVE InterruptReturns
  BY DEF InterruptReturns, Ended
<1>1. IsTest(test) /\ Len(Program(test)) = 2
  BY InterruptProgram DEF Together
<1>2. Returned /\ l.sp = e.sp /\ l.ime = e.ime /\ l.pc = e.pc
  BY <1>1, EndedIs DEF ReturnsAlong
<1>3. B!EchoRam = E!EchoRam
  BY DEF B!EchoRam, E!EchoRam
<1> QED BY <1>2, <1>3, SameMemory, BusCells DEF InterruptReturns, Returned

\* The handler's RETI goes back to the interrupted instruction with interrupts enabled
\* if and only if the stack is in memory that is read where it is written: not in a
\* register, and not in echo RAM, which interrupt_service stores past (interrupt.c,
\* ram.c read_ram, emulator.c).
THEOREM HandlersReturn == Spec => []InterruptReturns
<1>1. Init => ReturnsAlong
  BY ReturnsInit
<1>2. Together /\ ReturnsAlong /\ [Next]_vars => ReturnsAlong'
  BY ReturnsNext
<1>3. Together /\ ReturnsAlong => InterruptReturns
  BY ReturnsEnd
<1> QED BY <1>1, <1>2, <1>3, BackendsTogether, PTL DEF Spec

-----------------------------------------------------------------------------
(* What is pushed is popped *)

\* The byte is kept where a program stores it.
Kept1(a) == a \notin E!Rom /\ ~E!IsRegister(a)

\* Such a byte is in a cell above the cartridge.
LEMMA KeptCell ==
    ASSUME NEW a \in Word, Kept1(a)
    PROVE  E!Cell(a) \in Int /\ E!Cell(a) > 32767
<1>1. a \in Int /\ 0 <= a /\ a <= 65535
  BY WordIs
<1>2. a > 32767
  BY <1>1, Regions DEF Kept1
<1>3. a \in E!EchoRam => 57344 <= a
  BY <1>1, Regions
<1> QED BY <1>1, <1>2, <1>3 DEF E!Cell

\* It is there after it has been put, and nothing else has changed.
LEMMA PutIs ==
    ASSUME NEW ram, NEW a, NEW v, Kept1(a), NEW c, NEW y, y.ram = Put(ram, a, v), NEW x, x.ram = ram
    PROVE  E!ram(y, c) = IF c = E!Cell(a) THEN v ELSE E!ram(x, c)
BY DEF Put, Kept1, E!ram

\* A word that is pushed is in its two cells.
LEMMA PushedIs ==
    ASSUME NEW x, x \in Machine, NEW w, NEW y, y.ram = PushRam(x, w), Kept1(Below(x, 1)), Kept1(Below(x, 2))
    PROVE  E!ram(y, E!Cell(Below(x, 1))) = E!High(w) /\ E!ram(y, E!Cell(Below(x, 2))) = E!Low(w)
<1> DEFINE a == Below(x, 2)
           b == Below(x, 1)
           u == [x EXCEPT !.ram = Put(x.ram, a, E!Low(w))]
<1>1. a \in Word /\ b \in Word /\ b = E!Trunc16(a + 1)
  BY StackWords
<1>2. u.ram = Put(x.ram, a, E!Low(w))
  BY DEF Machine
<1> HIDE DEF a, b, u
<1>3. y.ram = Put(u.ram, b, E!High(w))
  BY <1>2 DEF PushRam, a, b
<1>4. Kept1(a) /\ Kept1(b)
  BY DEF a, b
<1>5. \A c : E!ram(y, c) = IF c = E!Cell(b) THEN E!High(w) ELSE E!ram(u, c)
  BY <1>3, <1>4, PutIs
<1>6. \A c : E!ram(u, c) = IF c = E!Cell(a) THEN E!Low(w) ELSE E!ram(x, c)
  BY <1>2, <1>4, PutIs
<1>7. E!Cell(a) # E!Cell(b)
  BY <1>1, <1>4, TwoCells DEF Kept1
<1> QED BY <1>5, <1>6, <1>7 DEF a, b

\* PUSH, wherever the program is.
LEMMA PushStep ==
    ASSUME NEW n, n \in Machine, Room(n), NEW s, StepOk(s), s.code < 256, Type(s.code) = "PUSH_R16",
           NEW x, x = Loaded(n, s), NEW y, y = Did(n, s), NEW r \in StackPair, Instruction(s).operands = <<r>>
    PROVE  LET w == E!get16(n, r)
           IN  /\ x \in Machine /\ x.sp = n.sp /\ w \in Word
               /\ y.sp = Below(n, 2) /\ y.ram = PushRam(x, w) /\ y.reg = n.reg /\ y.flag = n.flag
<1> DEFINE i == Instruction(s)
           w == E!get16(n, r)
<1>1. /\ Good(x) /\ x \in Machine /\ x.sp = n.sp /\ x.reg = n.reg /\ x.flag = n.flag
      /\ Runs(x, i, s.code) /\ i.type = "PUSH_R16" /\ Quiet(x) /\ y = L!Run(x, i)
  BY UnprefixedRun DEF Did, Good
<1>2. i.operands[1] = r
  OBVIOUS
<1> HIDE DEF i
<1>3. E!get16(x, r) = w
  BY <1>1 DEF E!get16, E!get_bc, E!get_de, E!get_hl, E!get_af, E!get_f
<1>4. w \in Word /\ PushForm(x, w, i.cycles, x.pc + 1, 0, 0, y, E!Run(x))
  BY <1>1, <1>2, <1>3, PushesWork
<1> HIDE DEF w
<1>5. y = Left(x, i.cycles, x.pc + 1, x.ime, Below(x, 2), PushRam(x, w), HighFirstPush(x, w, x.cycles + 0))
  BY <1>4 DEF PushForm
<1>6. y.sp = Below(x, 2) /\ y.ram = PushRam(x, w) /\ y.reg = x.reg /\ y.flag = x.flag
  BY <1>1, <1>5 DEF Left, Machine
<1> QED BY <1>1, <1>4, <1>6 DEF w, Below

\* CALL and RST.
LEMMA CallStep ==
    ASSUME NEW n, n \in Machine, Room(n), NEW s, StepOk(s), s.code < 256, Type(s.code) \in {"CALL_NN", "RST_N"},
           NEW x, x = Loaded(n, s), NEW y, y = Did(n, s)
    PROVE  LET w == E!Trunc16(n.pc + Instruction(s).len)
           IN  /\ x \in Machine /\ x.sp = n.sp
               /\ y.sp = Below(n, 2) /\ y.ram = PushRam(x, w)
<1> DEFINE i == Instruction(s)
           w == Behind(x, i)
<1>1. /\ x \in Machine /\ x.sp = n.sp /\ x.pc = n.pc
      /\ Runs(x, i, s.code) /\ i.type = Type(s.code) /\ Timed(i) /\ y = L!Run(x, i)
  BY UnprefixedRun DEF Did, Good
<1> HIDE DEF i
<1>2. i.extra = 0
  <2>1. i.type \in L!Terminators \ Conditional
    BY <1>1, SMT DEF L!Terminators, Conditional
  <2> QED BY <1>1, <2>1 DEF Timed
<1>3. \E p : PushForm(x, w, i.cycles, p, i.cycles, 0, y, E!Run(x))
  BY <1>1, <1>2, CallsWork, RestartsWork
<1> HIDE DEF w
<1>4. PICK p : y = Left(x, i.cycles, p, x.ime, Below(x, 2), PushRam(x, w), HighFirstPush(x, w, x.cycles + i.cycles))
  BY <1>3 DEF PushForm
<1>5. y.sp = Below(x, 2) /\ y.ram = PushRam(x, w)
  BY <1>1, <1>4 DEF Left, Machine
<1>6. w = E!Trunc16(n.pc + i.len)
  BY <1>1 DEF w, Behind
<1> QED BY <1>1, <1>5, <1>6 DEF Below, i

\* POP.
LEMMA PopStep ==
    ASSUME NEW n, n \in Machine, Room(n), NEW s, StepOk(s), s.code < 256, Type(s.code) = "POP_R16",
           NEW x, x = Loaded(n, s), NEW y, y = Did(n, s), NEW r \in StackPair, Instruction(s).operands = <<r>>
    PROVE  LET v == E!Join(E!read_ram(x, Above(n, 1)), E!read_ram(x, n.sp))
           IN  y.sp = Above(n, 2) /\ y.reg = ToReg(n.reg, r, v) /\ y.flag = ToFlag(n.flag, r, v)
<1> DEFINE i == Instruction(s)
           v == E!pop16(x)
<1>1. /\ Good(x) /\ x \in Machine /\ x.sp = n.sp /\ x.reg = n.reg /\ x.flag = n.flag
      /\ Runs(x, i, s.code) /\ i.type = "POP_R16" /\ Quiet(x) /\ y = L!Run(x, i)
  BY UnprefixedRun DEF Did, Good
<1>2. i.operands[1] = r
  OBVIOUS
<1> HIDE DEF i
<1>3. PICK z : /\ z = E!set16(x, r, v) /\ From(x, z)
               /\ y = Left(z, i.cycles, x.pc + 1, x.ime, Above(x, 2), x.ram, LowFirstPop(x, x.cycles + 0))
  BY <1>1, <1>2, PopsWork
<1>4. v = E!Join(E!read_ram(x, Above(n, 1)), E!read_ram(x, n.sp)) /\ Above(x, 2) = Above(n, 2)
  BY <1>1, PopForms DEF Above
<1> HIDE DEF v
<1>5. z.reg = ToReg(x.reg, r, v) /\ z.flag = ToFlag(x.flag, r, v)
  <2>1. z = [x EXCEPT !.reg = ToReg(x.reg, r, v), !.flag = ToFlag(x.flag, r, v)]
    BY <1>1, <1>3, SetForm
  <2> QED BY <1>1, <2>1 DEF Machine
<1>6. y.sp = Above(x, 2) /\ y.reg = z.reg /\ y.flag = z.flag
  <2>1. z \in Machine
    BY <1>3 DEF From, Good
  <2> QED BY <1>3, <2>1 DEF Left, Machine
<1> QED BY <1>1, <1>4, <1>5, <1>6

\* The flags in F come out of it.
LEMMA FlagsBack ==
    ASSUME NEW n, n \in Machine, NEW w, w = E!get16(n, "AF")
    PROVE  /\ E!High(w) = n.reg["A"]
           /\ (E!And(w, 128) # 0) = n.flag.Z /\ (E!And(w, 64) # 0) = n.flag.N
           /\ (E!And(w, 32) # 0) = n.flag.H /\ (E!And(w, 16) # 0) = n.flag.C
<1> DEFINE z == IF n.flag.Z THEN 128 ELSE 0
           nn == IF n.flag.N THEN 64 ELSE 0
           h == IF n.flag.H THEN 32 ELSE 0
           c == IF n.flag.C THEN 16 ELSE 0
           a == n.reg["A"]
           f == E!get_f(n)
<1>1. a \in Byte /\ n.flag \in Flags
  BY DEF Machine, Registers8, Reg8
<1>2. n.flag.Z \in BOOLEAN /\ n.flag.N \in BOOLEAN /\ n.flag.H \in BOOLEAN /\ n.flag.C \in BOOLEAN
  BY <1>1 DEF Flags
<1>3. f = z + nn + h + c
  BY FlagByte DEF E!get_f
<1>4. w = 256 * a + f
  BY DEF E!get16, E!get_af, E!Join
<1> HIDE DEF f
<1>5. /\ (z = 128 /\ n.flag.Z) \/ (z = 0 /\ ~n.flag.Z)
      /\ (nn = 64 /\ n.flag.N) \/ (nn = 0 /\ ~n.flag.N)
      /\ (h = 32 /\ n.flag.H) \/ (h = 0 /\ ~n.flag.H)
      /\ (c = 16 /\ n.flag.C) \/ (c = 0 /\ ~n.flag.C)
  BY <1>2
<1> HIDE DEF z, nn, h, c, a
<1>6. a \in Int /\ 0 <= a /\ a <= 255
  BY <1>1, ByteIs
<1>7. w \in Int /\ 0 <= w /\ w <= 65535 /\ w \div 256 = a
  BY <1>3, <1>4, <1>5, <1>6, SMT
<1>8. /\ (w \div 128) % 2 = (IF n.flag.Z THEN 1 ELSE 0) /\ (w \div 64) % 2 = (IF n.flag.N THEN 1 ELSE 0)
      /\ (w \div 32) % 2 = (IF n.flag.H THEN 1 ELSE 0) /\ (w \div 16) % 2 = (IF n.flag.C THEN 1 ELSE 0)
  <2>1. /\ w \div 128 = 2 * a + (IF z = 128 THEN 1 ELSE 0)
        /\ w \div 64 = 4 * a + (IF z = 128 THEN 2 ELSE 0) + (IF nn = 64 THEN 1 ELSE 0)
        /\ w \div 32 = 8 * a + (IF z = 128 THEN 4 ELSE 0) + (IF nn = 64 THEN 2 ELSE 0) + (IF h = 32 THEN 1 ELSE 0)
        /\ w \div 16 = 16 * a + (IF z = 128 THEN 8 ELSE 0) + (IF nn = 64 THEN 4 ELSE 0) + (IF h = 32 THEN 2 ELSE 0)
                       + (IF c = 16 THEN 1 ELSE 0)
    BY <1>3, <1>4, <1>5, <1>6, SMTT(60)
  <2> QED BY <1>5, <1>6, <2>1, SMTT(60)
<1>9. /\ E!And(w, 128) = 128 * ((w \div 128) % 2) /\ E!And(w, 64) = 64 * ((w \div 64) % 2)
      /\ E!And(w, 32) = 32 * ((w \div 32) % 2) /\ E!And(w, 16) = 16 * ((w \div 16) % 2)
  BY <1>7, WordIs, WordBit
<1>10. /\ E!And(w, 128) # 0 <=> n.flag.Z
       /\ E!And(w, 64) # 0 <=> n.flag.N
       /\ E!And(w, 32) # 0 <=> n.flag.H
       /\ E!And(w, 16) # 0 <=> n.flag.C
  BY <1>8, <1>9
<1>11. E!High(w) = a
  BY <1>7 DEF E!High
<1> QED BY <1>2, <1>10, <1>11 DEF a

\* So a pair is what it was when it is set to the word it made.
LEMMA PairBack ==
    ASSUME NEW n, n \in Machine, NEW r \in StackPair, NEW w, w = E!get16(n, r)
    PROVE  ToReg(n.reg, r, w) = n.reg /\ ToFlag(n.flag, r, w) = n.flag
<1>1. n.reg \in [Reg8 -> Byte] /\ n.flag \in Flags
  BY DEF Machine, Registers8
<1>2. ASSUME NEW a \in Reg8, NEW b \in Reg8
      PROVE  LET u == E!Join(n.reg[a], n.reg[b])
             IN  [n.reg EXCEPT ![a] = E!High(u), ![b] = E!Low(u)] = n.reg
  <2>1. n.reg[a] \in Byte /\ n.reg[b] \in Byte
    BY <1>1
  <2>2. E!High(E!Join(n.reg[a], n.reg[b])) = n.reg[a] /\ E!Low(E!Join(n.reg[a], n.reg[b])) = n.reg[b]
    BY <2>1, JoinParts
  <2> QED BY <1>1, <2>2
<1>3. CASE r \in {"BC", "DE", "HL"}
  <2>1. w = (CASE r = "BC" -> E!Join(n.reg["B"], n.reg["C"]) [] r = "DE" -> E!Join(n.reg["D"], n.reg["E"])
               [] r = "HL" -> E!Join(n.reg["H"], n.reg["L"]))
    BY <1>3 DEF E!get16, E!get_bc, E!get_de, E!get_hl
  <2>2. ToReg(n.reg, r, w) = n.reg
    BY <1>2, <1>3, <2>1 DEF ToReg, Reg8
  <2> QED BY <1>3, <2>2 DEF ToFlag
<1>4. CASE r = "AF"
  <2>1. w = E!get16(n, "AF")
    BY <1>4
  <2>2. E!High(w) = n.reg["A"] /\ (E!And(w, 128) # 0) = n.flag.Z /\ (E!And(w, 64) # 0) = n.flag.N
        /\ (E!And(w, 32) # 0) = n.flag.H /\ (E!And(w, 16) # 0) = n.flag.C
    BY <2>1, FlagsBack
  <2>3. [n.reg EXCEPT !["A"] = n.reg["A"]] = n.reg
    BY <1>1
  <2>4. [Z |-> n.flag.Z, N |-> n.flag.N, H |-> n.flag.H, C |-> n.flag.C] = n.flag
    BY <1>1 DEF Flags
  <2> QED BY <1>4, <2>2, <2>3, <2>4 DEF ToReg, ToFlag
<1> QED BY <1>3, <1>4 DEF StackPair

\* The register that PUSH and POP name.
LEMMA StackOperands ==
    ASSUME NEW c \in {197, 213, 229, 245}, NEW r, r = O!StackRegister(c)
    PROVE  /\ r \in StackPair
           /\ O!Operands("PUSH_R16", c) = <<r>> /\ O!Operands("POP_R16", c - 4) = <<r>>
<1>1. O!StackRegister(c - 4) = r /\ r \in StackPair
  <2>1. O!reg16FromEncoding(c \div 16) = O!reg16FromEncoding((c - 4) \div 16)
    BY SMTT(30) DEF O!reg16FromEncoding
  <2>2. c \in {241, 245} <=> c - 4 \in {241, 245}
    OBVIOUS
  <2>3. O!StackRegister(c - 4) = r
    BY <2>1, SMTT(30) DEF O!StackRegister
  <2>4. c \in Int /\ 192 <= c /\ c <= 255 /\ c % 16 \in {1, 5}
    OBVIOUS
  <2> QED BY <2>3, <2>4, StackNames DEF StackPair
<1>2. \A op : O!Operands("PUSH_R16", op) = <<O!StackRegister(op)>> /\ O!Operands("POP_R16", op) = <<O!StackRegister(op)>>
  BY SMTT(30) DEF O!Operands, O!AluTypes, O!AluMemory
<1> QED BY <1>1, <1>2

\* The addresses below a word.
LEMMA BelowWord ==
    ASSUME NEW w \in Word, NEW s1, s1 = E!Trunc16(w - 1), NEW s2, s2 = E!Trunc16(w - 2)
    PROVE  s1 \in Word /\ s2 \in Word /\ E!Trunc16(s2 + 1) = s1 /\ E!Trunc16(s2 + 2) = w
<1>1. w \in Int /\ 0 <= w /\ w <= 65535 /\ s1 = (w - 1) % 65536 /\ s2 = (w - 2) % 65536
  BY WordIs DEF E!Trunc16
<1>2. s1 = (IF w = 0 THEN 65535 ELSE w - 1)
  BY <1>1, SMT
<1>3. s2 = (IF w = 0 THEN 65534 ELSE IF w = 1 THEN 65535 ELSE w - 2)
  BY <1>1, SMT
<1>4. (s2 + 1) % 65536 = s1 /\ (s2 + 2) % 65536 = w
  BY <1>1, <1>2, <1>3, SMT
<1> QED BY <1>1, <1>2, <1>3, <1>4, WordIs DEF E!Trunc16

\* What is pushed: a pair of registers, or the address behind the call.
StackWord(t) ==
    IF t.code \in Pushes THEN E!get16(Start(t), O!StackRegister(t.code))
    ELSE E!Trunc16(Entry + O!Decoded(t.code).len)
KeptStack(t) == Kept1(E!Trunc16(t.w - 1)) /\ Kept1(E!Trunc16(t.w - 2))
\* n has it on the stack, and still in the registers.
Holds(t, n) ==
    /\ n.sp = E!Trunc16(t.w - 2)
    /\ t.code \in Pushes => n.reg = Registers(t) /\ n.flag = t.f
    /\ KeptStack(t) => /\ E!ram(n, E!Cell(E!Trunc16(t.w - 1))) = E!High(StackWord(t))
                       /\ E!ram(n, E!Cell(E!Trunc16(t.w - 2))) = E!Low(StackWord(t))
\* n has taken it off again.
Taken(t, n) ==
    /\ n.sp = t.w
    /\ KeptStack(t) => IF t.code \in Pushes THEN n.reg = Registers(t) /\ n.flag = t.f
                       ELSE n.pc = Entry + O!Decoded(t.code).len

\* The first step of a stack test pushes.
LEMMA StackPushed ==
    ASSUME NEW t, IsTest(t), t.kind = "stack", NEW n, n = Start(t), Room(n),
           NEW s, s = Program(t)[1], StepOk(s), NEW y, y = Did(n, s)
    PROVE  Holds(t, y)
<1> DEFINE x == Loaded(n, s)
           w == StackWord(t)
           s1 == E!Trunc16(t.w - 1)
           s2 == E!Trunc16(t.w - 2)
<1>1. n \in Machine /\ n.sp = t.w /\ n.reg = Registers(t) /\ n.flag = t.f /\ n.pc = Entry
  BY StartType
<1>2. s = Step(t.code, 4660) /\ s.code = t.code /\ s.code < 256
  <2>1. s = Step(t.code, 4660) /\ Step(t.code, 4660).code < 256
    BY StackProgram
  <2> QED BY <2>1 DEF Step
<1>3. /\ x \in Machine /\ x.sp = t.w /\ y.sp = s2 /\ y.ram = PushRam(x, w)
      /\ t.code \in Pushes => y.reg = n.reg /\ y.flag = n.flag
  <2>1. CASE t.code \in Pushes
    <3> DEFINE r == O!StackRegister(t.code)
    <3>1. Type(s.code) = "PUSH_R16" /\ t.code \in {197, 213, 229, 245}
      BY <1>2, <2>1, StackCodes DEF Known
    <3>2. r \in StackPair /\ O!Operands("PUSH_R16", t.code) = <<r>>
      BY <3>1, StackOperands
    <3>3. Instruction(s).operands = <<r>>
      <4>1. s.code \in 0..255
        BY <1>2, <3>1
      <4> QED BY <1>2, <3>1, <3>2, <4>1, OperandsAre
    <3>4. w = E!get16(n, r)
      BY <2>1 DEF StackWord
    <3> HIDE DEF r, w, x
    <3>5. x = Loaded(n, s)
      BY DEF x
    <3> QED BY <1>1, <1>2, <3>1, <3>2, <3>3, <3>4, <3>5, PushStep DEF Below
  <2>2. CASE t.code \notin Pushes
    <3>1. Type(s.code) \in {"CALL_NN", "RST_N"} /\ Instruction(s).len = O!Decoded(t.code).len
      BY <1>2, <2>2, StackProgram DEF Known, Instruction
    <3>2. w = E!Trunc16(n.pc + Instruction(s).len)
      BY <1>1, <2>2, <3>1 DEF StackWord
    <3> HIDE DEF w, x
    <3>3. x = Loaded(n, s)
      BY DEF x
    <3> QED BY <1>1, <1>2, <2>2, <3>1, <3>2, <3>3, CallStep DEF Below
  <2> QED BY <2>1, <2>2
<1> HIDE DEF x, w
<1>4. KeptStack(t) => E!ram(y, E!Cell(s1)) = E!High(w) /\ E!ram(y, E!Cell(s2)) = E!Low(w)
  <2> SUFFICES ASSUME KeptStack(t) PROVE E!ram(y, E!Cell(s1)) = E!High(w) /\ E!ram(y, E!Cell(s2)) = E!Low(w)
    OBVIOUS
  <2>1. Below(x, 1) = s1 /\ Below(x, 2) = s2
    BY <1>3 DEF Below
  <2>2. Kept1(Below(x, 1)) /\ Kept1(Below(x, 2))
    BY <2>1 DEF KeptStack
  <2> QED BY <1>3, <2>1, <2>2, PushedIs
<1> QED BY <1>1, <1>3, <1>4 DEF Holds, w

\* The second one pops.
LEMMA StackPopped ==
    ASSUME NEW t, IsTest(t), t.kind = "stack", NEW n, n \in Machine, Room(n), Holds(t, n),
           NEW s, s = Program(t)[2], StepOk(s), NEW y, y = Did(n, s)
    PROVE  Taken(t, y)
<1> DEFINE x == Loaded(n, s)
           w == StackWord(t)
           s1 == E!Trunc16(t.w - 1)
           s2 == E!Trunc16(t.w - 2)
           v == E!Join(E!read_ram(x, s1), E!read_ram(x, s2))
<1>1. t.w \in Word /\ s1 \in Word /\ s2 \in Word /\ n.sp = s2 /\ Above(n, 1) = s1 /\ Above(n, 2) = t.w
  BY Tested, BelowWord DEF Above, Holds
<1>2. \A a : a \notin Span(n.pc) => E!ram(x, a) = E!ram(n, a)
  BY LoadedIs
<1>3. Start(t) \in Machine /\ Start(t).reg = Registers(t) /\ Start(t).flag = t.f /\ Good(Start(t))
  BY StartType DEF Good, Stamped
<1> HIDE DEF x
<1>4. KeptStack(t) => v = E!Join(E!High(w), E!Low(w))
  <2> SUFFICES ASSUME KeptStack(t) PROVE v = E!Join(E!High(w), E!Low(w))
    OBVIOUS
  <2>1. ASSUME NEW a \in Word, Kept1(a) PROVE E!read_ram(x, a) = E!ram(n, E!Cell(a))
    <3>1. E!Cell(a) > 32767 /\ E!Cell(a) \in Int
      BY <2>1, KeptCell
    <3>2. E!Cell(a) \notin Span(n.pc)
      <4>1. n.pc \in Int
        BY WordIs DEF Machine
      <4> QED BY <3>1, <4>1 DEF Room, Span
    <3> QED BY <1>2, <2>1, <3>2 DEF Kept1, E!read_ram
  <2>2. E!read_ram(x, s1) = E!High(w) /\ E!read_ram(x, s2) = E!Low(w)
    BY <1>1, <2>1 DEF Holds, KeptStack
  <2> QED BY <2>2
<1>5. CASE t.code \in Pushes
  <2> DEFINE r == O!StackRegister(t.code)
  <2>1. s.code = t.code - 4 /\ t.code \in {197, 213, 229, 245} /\ Type(s.code) = "POP_R16"
    <3>1. t.code \in {197, 213, 229, 245} /\ Known(t.code - 4, "POP_R16", 1) /\ Type(t.code) = "PUSH_R16"
      BY <1>5, StackCodes DEF Known
    <3>2. s = Step(t.code - 4, 0)
      BY <3>1, StackProgram
    <3> QED BY <3>1, <3>2 DEF Step, Known
  <2>2. r \in StackPair /\ O!Operands("POP_R16", t.code - 4) = <<r>>
    BY <2>1, StackOperands
  <2>3. s.code \in 0..255 /\ s.code < 256
    BY <2>1
  <2>4. Instruction(s).operands = <<r>>
    BY <2>1, <2>2, <2>3, OperandsAre
  <2>5. w = E!get16(Start(t), r)
    BY <1>5 DEF StackWord
  <2> HIDE DEF r, w
  <2>6. y.sp = t.w /\ y.reg = ToReg(n.reg, r, v) /\ y.flag = ToFlag(n.flag, r, v)
    BY <1>1, <2>1, <2>2, <2>3, <2>4, PopStep DEF x
  <2>7. w \in Word
    BY <1>3, <2>2, <2>5, SamePair DEF StackPair, Pair
  <2>8. ToReg(Registers(t), r, w) = Registers(t) /\ ToFlag(t.f, r, w) = t.f
    BY <1>3, <2>2, <2>5, PairBack
  <2>9. KeptStack(t) => y.reg = Registers(t) /\ y.flag = t.f
    BY <1>4, <1>5, <2>6, <2>7, <2>8, HighLow DEF Holds
  <2> QED BY <1>5, <2>6, <2>9 DEF Taken
<1>6. CASE t.code \notin Pushes
  <2>1. s.code < 256 /\ Type(s.code) \in {"RET", "RETI"} /\ O!Decoded(t.code).len \in {1, 3}
    <3>1. s = Step(RET, 0) /\ O!Decoded(t.code).len \in {1, 3}
      BY <1>6, StackProgram DEF Known
    <3>2. s.code = RET
      BY <3>1 DEF Step
    <3>3. RET < 256 /\ Type(RET) = "RET"
      BY KnownCodes DEF Known, RET
    <3> QED BY <3>1, <3>2, <3>3
  <2>2. w = Entry + O!Decoded(t.code).len /\ w \in Word
    <3>1. w = E!Trunc16(Entry + O!Decoded(t.code).len)
      BY <1>6 DEF StackWord
    <3> HIDE DEF w
    <3>2. Entry + O!Decoded(t.code).len \in Int /\ 0 <= Entry + O!Decoded(t.code).len /\ Entry + O!Decoded(t.code).len <= 65535
      BY <2>1 DEF Entry
    <3>3. Entry + O!Decoded(t.code).len \in Word
      BY <3>2, WordIs
    <3> QED BY <3>1, <3>2, <3>3, TruncType
  <2> HIDE DEF w
  <2>3. y.pc = v /\ y.sp = t.w
    BY <1>1, <2>1, ReturnStep DEF x
  <2>4. KeptStack(t) => y.pc = w
    BY <1>4, <2>2, <2>3, HighLow
  <2> QED BY <1>6, <2>2, <2>3, <2>4 DEF Taken
<1> QED BY <1>5, <1>6

StackAlong ==
    test.kind = "stack" =>
        LET k == Done(Program(test), todo)
        IN  (k = 1 => Holds(test, l)) /\ (k = 2 => Taken(test, l))

LEMMA StackExecute ==
    ASSUME Together, Execute, StackAlong
    PROVE  StackAlong'
<1> DEFINE p == Program(test)
           k == Done(p, todo)
           s == p[k + 1]
<1>1. /\ IsTest(test) /\ test' = test /\ k \in Nat /\ k + 1 \in 1..Len(p) /\ Done(p, todo') = k + 1
      /\ l \in Machine /\ Room(l) /\ StepOk(s) /\ l' = Did(l, s) /\ (k = 0 => l = Start(test))
  BY NextStep
<1> SUFFICES ASSUME test.kind = "stack"
             PROVE  (k = 0 => Holds(test, l')) /\ (k = 1 => Taken(test, l'))
  <2> HIDE DEF k
  <2>1. test' = test /\ Program(test)' = Program(test) /\ (k + 1 = 1 => k = 0) /\ (k + 1 = 2 => k = 1)
    BY <1>1
  <2>2. Done(Program(test), todo)' = k + 1 /\ Holds(test, l)' = Holds(test, l') /\ Taken(test, l)' = Taken(test, l')
    BY <1>1, <2>1 DEF Holds, Taken, KeptStack, StackWord
  <2> QED BY <1>1, <2>1, <2>2 DEF StackAlong
<1>2. ASSUME k = 0 PROVE Holds(test, l')
  <2>1. l = Start(test) /\ s = p[1]
    BY <1>1, <1>2
  <2> HIDE DEF k, s
  <2> QED BY <1>1, <2>1, StackPushed
<1>3. ASSUME k = 1 PROVE Taken(test, l')
  <2>1. Holds(test, l) /\ s = p[2]
    BY <1>3 DEF StackAlong
  <2> HIDE DEF k, s
  <2> QED BY <1>1, <2>1, StackPopped
<1> QED BY <1>2, <1>3

LEMMA StackNext == Together /\ StackAlong /\ [Next]_vars => StackAlong'
<1> SUFFICES ASSUME Together, StackAlong, [Next]_vars PROVE StackAlong'
  OBVIOUS
<1>1. CASE Execute
  BY <1>1, StackExecute
<1>2. CASE Interrupt
  BY <1>2, OnlyInterrupted DEF StackAlong
<1>3. CASE UNCHANGED vars
  BY <1>3 DEF vars, StackAlong, Holds, Taken, KeptStack, StackWord
<1> QED BY <1>1, <1>2, <1>3 DEF Next

LEMMA StackInit == Init => StackAlong
<1> SUFFICES ASSUME Init PROVE StackAlong
  OBVIOUS
<1>1. Done(Program(test), todo) = 0
  <2>1. IsTest(test) /\ todo = Program(test)
    BY BackendsAssumption DEF Init
  <2> QED BY <2>1, ProgramSteps, LeftStart DEF StepsOk
<1> QED BY <1>1 DEF StackAlong

LEMMA StackEnds == Together /\ StackAlong => StackRoundTrip
<1> SUFFICES ASSUME Together, StackAlong, todo = <<>>, test.kind = "stack" PROVE StackRoundTrip
  BY DEF StackRoundTrip, Ended
<1>1. IsTest(test) /\ Len(Program(test)) = 2
  BY StackProgram DEF Together
<1>2. Taken(test, l) /\ l.sp = e.sp /\ l.reg = e.reg /\ l.flag = e.flag /\ l.pc = e.pc
  BY <1>1, EndedIs DEF StackAlong
<1>3. Taken(test, e)
  BY <1>2 DEF Taken
<1>4. Keeps(test.w) => KeptStack(test)
  BY SameMemory, BusCells DEF Keeps, KeptStack, Kept1
<1>5. Type(test.code) = "PUSH_R16" <=> test.code \in Pushes
  BY <1>1, StackProgram DEF Pushes, Calls
<1> QED BY <1>2, <1>3, <1>4, <1>5 DEF StackRoundTrip, Taken

\* What one backend pushes the other pops: every pair, the flags in F with it, and the
\* address behind a call, wherever the stack is memory that keeps what is stored; and
\* the stack pointer is back wherever it is (helpers.go pushReturnAddress and
\* popReturnAddress, emulator.c push16 and pop16).
THEOREM WhatIsPushedIsPopped == Spec => []StackRoundTrip
<1>1. Init => StackAlong
  BY StackInit
<1>2. Together /\ StackAlong /\ [Next]_vars => StackAlong'
  BY StackNext
<1>3. Together /\ StackAlong => StackRoundTrip
  BY StackEnds
<1> QED BY <1>1, <1>2, <1>3, BackendsTogether, PTL DEF Spec
=============================================================================
