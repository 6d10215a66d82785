----------------------------- MODULE MCBackends -----------------------------
(***************************************************************************)
(* Backends on a sample of the tests: every instruction, with all values   *)
(* of A where the result depends on it, pointers into every region of the  *)
(* address space, and words and bytes around the carries.                  *)
(***************************************************************************)
EXTENDS Backends

\* Work RAM and its end, ROM and the last of its bytes, video RAM, echo RAM and its
\* two ends, the two ends of register pages, registers side by side, high RAM, IE.
Pointers == {49152, 57343, 512, 32767, 32768, 57345, 57344, 65023, 65024,
             65283, 65286, 65295, 65355, 65534, 65535, 0}
WordSamples == {0, 1, 255, 4095, 4096, 32768, 61440, 65535}
Bytes == {0, 1, 9, 15, 16, 127, 128, 153, 240, 255}
Edges == {16 * h + d : h, d \in {0, 1, 4, 5, 9}}

NoFlags == [Z |-> FALSE, N |-> FALSE, H |-> FALSE, C |-> FALSE]
CarryFlags == {[NoFlags EXCEPT !.C = c] : c \in BOOLEAN}
SomeFlags == CarryFlags \cup {[f EXCEPT !.Z = TRUE, !.N = TRUE, !.H = TRUE] : f \in CarryFlags}

\* The codes of instructions that use the stack, that go to memory otherwise, that
\* depend on all of A, and that work on words.
OnStack   == {c \in Codes : Type(c) \in StackTypes}
InMemory  == {c \in Codes : Type(c) \in O!Loads \cup O!Stores} \ OnStack
OnA       == {DAA, ADD_N, ADC_N, SUB_N, SBC_N, 254}
OnWords   == {c \in Codes : \/ O!Decoded(c).len = 3
                            \/ Type(c) \in {"ADD_HL_R16", "ADD_SP_E", "LD_HL_SP_E", "INC_R16", "DEC_R16"}}
              \ (OnStack \cup InMemory)
Others    == Codes \ (OnStack \cup InMemory \cup OnA \cup OnWords)
PUSH_AF   == 245

const_Tests == UNION {
    Test("one", OnStack, {15}, {1, 128}, Pointers, SomeFlags, BOOLEAN),
    Test("one", InMemory, {15, 240}, {1, 128, 255}, Pointers, SomeFlags, {TRUE}),
    Test("one", OnA \ {DAA}, 0..255, Bytes, {49152}, CarryFlags, {TRUE}),
    Test("one", {DAA}, 0..255, {0}, {49152}, Flags, {TRUE}),
    Test("one", OnWords, {15}, {0, 16, 128, 255}, WordSamples, SomeFlags, {TRUE}),
    Test("one", Others, Bytes, {0, 15, 128, 255}, {49152}, SomeFlags, {TRUE}),
    Test("decimal", {ADD_N, ADC_N, SUB_N, SBC_N}, Decimals, Edges, {65534}, CarryFlags, {TRUE}),
    Test("wide", {ADD_N, SUB_N}, {0, 1, 16, 127, 128, 255}, Bytes, WordSamples, CarryFlags, {TRUE}),
    Test("stack", Pushes \ {PUSH_AF}, {15}, {128}, Pointers, {NoFlags}, BOOLEAN),
    Test("stack", {PUSH_AF}, {15}, {128}, Pointers, Flags, {TRUE}),
    Test("stack", Calls, {15}, {128}, Pointers, {NoFlags}, BOOLEAN),
    Test("interrupt", {INT}, {15}, {128}, Pointers, {NoFlags}, BOOLEAN),
    Test("memory", {LD_NN_A}, {0, 90}, {0}, Pointers \X Pointers, {NoFlags}, {TRUE}) }
=============================================================================
