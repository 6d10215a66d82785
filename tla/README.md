# A model of gbrc in TLA+

gbrc recompiles a Game Boy ROM ahead of time. A Go program decodes the ROM, finds
its basic blocks and emits LLVM IR for them; a C runtime holds the rest of the
machine (interrupts, timer, picture, sound, joypad) and an interpreter for
the code the compiler did not find. This directory models the parts of it that
decide *what runs when* and *what it does to the machine*, checks them with TLC and proves
nearly all of the safety properties with TLAPS: for every ROM, every image, every instruction on every machine, any
number of compilations, and devices of any size.

## The system

| component | state | operations | works with |
| --- | --- | --- | --- |
| decoder (`internal/decoder`, `internal/rom`) | a cache of decoded addresses | `DecodeAt`, the two opcode tables | read by the analyzer |
| analyzer (`internal/analyzer`) | worklist, known starts, owner of each byte, blocks | `AnalyzeBlocks`: enqueue, collect, cut, sort | hands its blocks to the code generator |
| code generator (`internal/codegen`) | the IR module, one function per mnemonic | emit blocks, dispatcher, joins | its output is `rom_main` |
| `rom_main` (generated) | the machine's globals: `pc`, `cycles`, `g_budget`, registers | dispatch, service an interrupt, look a block up, run it, fall back | calls `interrupt_service`, `emulator_run`, the bus |
| fallback interpreter (`emulator.c`) | a local `p` | one instruction per turn until a block start or the end of the budget | shares every global with `rom_main` |
| interrupt controller (`interrupt.c`) | IF, IE, IME | request, service, read and write | requested by timer, PPU and joypad |
| frame loop (`gbrc.h`, `core.c`) | frame number, `g_budget` | poll, step, tick the hardware, next budget | calls `rom_main` once a frame |
| profile (`profile.c`) | a bit per address | record, dump | its addresses seed the next compilation |
| bus (`ram.c`, `cg_read_memory`) | 64 KiB, the ROM | read and write by address | both backends use it; it hands registers to the devices |
| timer, PPU, APU | their registers, the time of the last catch-up | read, write, tick | lazy: they catch up when touched and once a frame; timer and PPU request interrupts |
| joypad | buttons, selected half | read, select, a button changes | the frontend between two frames; requests an interrupt |
| pipeline (`cmd`) | temporary directories, output directory, seeds | run each pass once, or exit; remove what it made | runs the other parts, `opt` and `clang`; reads the profile of a game that may be running |
| frontends (`examples`) | windows | the `gb_*` callbacks | I/O |

What is hard here, and what each part owes the others:

* **decoder**: the instruction set is written down five times; all five must agree.
* **analyzer**: starts are found in any order, and a start inside a block already
  collected must split it. No byte may belong to two blocks; control must enter
  a block only at its start; every static edge must be followed; the pass must end.
* **generated code**: in a block `pc` is only added to, so it is right only if the
  block's instructions follow one another without a gap. Interrupts happen only at the
  dispatcher, the budget is looked at only there: no interrupt may be missed, and
  none may return into code already run.
* **interpreter**: it hands control back and forth with `rom_main`, with its own
  program counter and its own table of block starts. The two must not disagree, or
  they call each other forever.
* **instructions**: each is written twice, as a builder of LLVM IR and as a case of a C switch, with
  different arithmetic, in a different order of memory accesses and cycles. A program
  goes from one to the other in the middle of a multi-byte sum or a call.
* **hardware**: everything is computed late. The result must be what a machine
  ticking every cycle would show, or at least come before the frame ends.
* **pipeline**: any step may fail, and exits the process past its deferred calls; runs of the same ROM share
  the output; the profile may be read while the game dumps it, or after the game
  was killed while it did.

## Modules

| module | models | how |
| --- | --- | --- |
| `Instructions` | `IsBlockTerminator`; the instructions that touch memory | sets of instruction types |
| `Decoder` | `decoder.go`, `rom.Read`, `MergeBytes` | one row per case of the opcode switch; operands and mnemonics |
| `Interpreter` | the opcode switch and `cb_exec` of `emulator.c` | a table written from the C code alone |
| `Opcodes` | the two tables, joinBlocks' and emitInstruction's lists side by side | walks through all 511 opcodes |
| `Bits` | and, or, exclusive or of C and LLVM | by halves, so that what uses them can be proved about |
| `Bus` | `ram.c`, `cg_read_memory`, `rom_init`, the stores of `interrupt.c` | operators on machines |
| `Lifted` | `opcodes.go`, `arithmetic.go`, `helpers.go`: what the compiled instruction does | an operator per builder |
| `Emulated` | `emulator.c`: what the interpreted instruction does | an operator per helper and per group of cases |
| `Backends` | the last three | runs short programs in both |
| `InstructionProofs` | | that every instruction does the same in both, for every machine |
| `BackendsProofs` | | nine theorems about `Backends`, for every test there is: all of its properties |
| `Analyzer` | `analyzer.go` | a state machine, one action per branch of `AnalyzeBlocks` and `collectBlock` |
| `AnalyzerProofs` | | eight theorems about `Analyzer`, for every ROM; that the blocks it returns keep `Isa`'s `BlockContract` is one |
| `Isa` | what a compiled image is: decoded ROM and blocks | constants, and `BlockContract`, what `Machine` assumes of blocks |
| `Cpu` | the abstract specification of `Machine` | a processor: execute an instruction, or service an interrupt |
| `Machine` | frame loop, `rom_main`, interpreter loop, interrupts, profile | one action per step of the generated code and of `emulator_run` |
| `MachineProofs` | | six theorems about `Machine`, for every image; that it implements `Cpu` is one, that a frame ends in time another |
| `Timer`, `Joypad` | `timer.c`, `joypad.c` | an operator per function, on the record it keeps |
| `TickingTimer` | the abstract specification of `Timer` | a timer that ticks every cycle |
| `Devices` | timer and joypad in the frame loop | the game touches them at any cycle; the frame's end ticks |
| `DevicesProofs` | | four theorems about `Devices`, for every period and width; that `Timer` implements `TickingTimer` is one |
| `Ppu` | `ppu.c` but for the pixels | an operator per function; a line is the registers it is drawn with and the window's row, if it shows one |
| `DotPpu` | the abstract specification of `Ppu` | a beam that moves every cycle |
| `Screen` | the PPU in the frame loop | runs `Ppu` and `DotPpu` side by side |
| `ScreenProofs` | | five theorems about `Screen`, for every geometry |
| `Apu` | `apu.c` but for the waveforms | an operator per function |
| `Sound` | the APU in the frame loop | the game writes the registers of one channel at any time |
| `SoundProofs` | | one theorem about `Sound` |
| `Profile` | the text `profile.c` writes and `readSeeds` reads | its chunks on either side |
| `Pipeline` | `cmd.go`, and `core.c`'s and `profile.c`'s dump | one action per step of `Run`; runs and a game interleave |
| `PipelineProofs` | | three theorems about `Pipeline`, for any number of runs and profiles of any size: all of its properties |
| `MCAnalyzer`, `MCBackends`, `MCMachine`, `MCDevices`, `MCScreen`, `MCSound`, `MCPipeline` | | the small instances TLC runs |

`Analyzer` reads code that `Decoder` decoded (`MCAnalyzer` composes them). `Machine`
runs images whose blocks satisfy `BlockContract`, which is what `Analyzer`'s
`Contiguous` and `JoinContract` say of its result, in the form the generated code
uses it (`ContractKept` proves it). `Machine` instantiates `Cpu` as `C`, and `Devices` instantiates `TickingTimer`:
the late one is shown to implement the other. `Screen` runs both PPUs, because the
late one forgets what an exact one does with STAT. The abstract modules state what the code
promises and so translate no line of it.

### Analyzer

`queue`, `blockStart` and `ownedBy` are the variables of `AnalyzeBlocks`; a `*Block` is
identified by its start, `block` is the heap and `blocks` the returned slice. `loc`
says which loop the pass is in: `Enqueue` and `Collected` are the calls of
`enqueue`; `Begin`, `Skip` and `Cut` the three outcomes of dequeuing a start;
`StopAtKnown`, `StopBlocked`, `Abandon`, `RunOff`, `Take` and `TakeTerminator` the branches of
`collectBlock`; `Finish` the sort and return. Each returns, stops or claims bytes
exactly where the code does.

### Machine

`loc` is where the one thread is: in `gb_run` ("poll", "step", "tick"), in the
dispatcher ("dispatch", "int", "lookup"), in a block ("block", "join"), or in
`emulator_run` ("emu", "emu_int", "emu_exec"). Every terminator of `opcodes.go` is an
action of its own; `emitCalls` runs one non-terminator, with what its
function does to SP, IME and the stack (`Effect`).

Data is abstracted to what these properties tell apart. Conditions and the value
of HL are nondeterministic; an instruction that reads memory may add interrupt
requests (its read may tick a timer), one that writes memory may change IF and IE at
will. What addresses outside the ROM decode to is nondeterministic on every fetch,
as code in RAM is data. The stack is a memory of its own, of words: code and
registers are never under the stack pointer. `cycles` and `g_budget` wrap at
`CYCLE_MOD`. Within the ROM an instruction's operand bytes are in the ROM too
(`ImageAssumption`).

An undefined opcode ends a block and takes one byte and one cycle when
interpreted, as in `emulator.c`. HALT and STOP wait for nothing, in both backends.

### Backends

`m` is the machine before an instruction, `l` and `e` what the two backends make of it. `Execute` goes
on from either result, so that a program of several instructions runs through every
mixture of the two. A machine is registers, flags, SP, PC, IME, cycles, the nonzero bytes of memory, and
a log of the accesses to registers, with the cycle each was made at: all that a
device ever sees of the processor. Where C leaves the order of two calls open
(`read16`), `lowFirst` chooses it, once for a build.

### Devices, Screen, Sound

Each has the frame loop around a device (`loc`, `spent`), a `Cycle` in which only time passes, and
the game's reads and writes at any cycle; `gb_step` ends the frame when the budget is
spent, up to `OVERRUN` cycles late, which is how long a block is. The device's state
changes only where the code's does: in a read, a write or the tick. `Sound` does not step
through cycles but chooses how late in the frame an access comes.

In `Devices`, `raised` counts overflows and `due` is the timer's bit in IF, had the timer
been up to date all the time. In `Screen`, `regs`, `ly`, `dot`, `row`,
`reached` and `picture` are `DotPpu`'s variables, and `rose` whether the level of STAT rose
since the last tick. They observe and are never read by the model of the code.

### Pipeline

`pc[r]` is the step of `Run` that run `r` is about to take. `must` may end a run at any step, which stands for a
failing step and for a kill. `temp` is the set of temporary directories and what they contain; a file is who made
it and whether `opt` has been there. `open` and `read` are apart, and so are
`profile_dump`, which empties the file, and `flush`, which writes a chunk: in between
the other process runs. `Profile` says what a chunk holds, digit by
digit, because the property is about digits.

## What is checked

| run | shows |
| --- | --- |
| `opcodes` | For all 511 opcodes: same length and cycles, taken and not, in both backends (`SameCost`); same operation on the same registers (`SameOperation`); a block ends exactly at what `joinBlocks` has code for and at what sets `p` in the interpreter (`SameTransfers`); whatever is in a block can be emitted and is called with the parameters it was built with (`Callable`); no two instructions share a function by mnemonic (`OwnFunction`) |
| `backends` | Every instruction leaves the same machine behind in both backends (`SameState`) and makes the same accesses to registers in the same order, but for the stack (`SameAccesses`), at the same cycle, but for a listed skew (`AccessTimes`); two digits added and adjusted give decimal sums (`DecimalArithmetic`), two bytes with a carry between them 16-bit ones (`WideArithmetic`); what one pushes the other pops (`StackRoundTrip`); handlers return to where they came from exactly if the stack is in memory that reads back (`InterruptReturns`); all readers see one memory (`OneMemory`) |
| `analyzer` | On about 13,800 small ROMs: each byte is owned by the one block that covers it (`Ownership`), blocks have no gaps (`Contiguous`) and are entered only at their start (`SingleEntry`), the result is what the generated code assumes (`JoinContract`), static edges are followed unless the code overlaps there (`EdgesFollowed`), a returned block only ever loses a suffix (`OnlyCut`), the pass ends (`Terminates`) |
| `machine` | On five ROMs compiled in every possible way: the program is the processor of `Cpu` (`ImplementsCpu`), `pc` is right inside blocks (`BlockPc`), a frame overruns by at most one block (`Overshoot`), no block runs past a pending, enabled interrupt (`ServicedFirst`), the profile names only code that is no block (`ProfileFresh`), every frame ends (`FrameEnds`) |
| `devices` | The lazy timer implements the ticking one (`LateIsUnseen`), its interrupt comes by the end of the frame however often it overflowed (`DueByFrameEnd`), a line of the joypad that falls is noticed, and only a button that is pressed and pulls its line by itself is (`PressSeen`) |
| `screen` | Brought up to date, the lazy PPU has drawn what one that moves every cycle draws (`AsIfDotByDot`); a frame with the LCD on has one or two pictures (`PictureEveryFrame`); the window's rows follow one another, and one is passed over only for a line that LCDC's bit 0 left blank (`WindowRows`); no STAT interrupt is made up (`StatSound`) |
| `sound` | What plays can be heard and can end (`PlaysSoundly`), and a note with a length ends (`NoteEnds`) |
| `pipeline` | Runs side by side link and save what they made themselves (`OwnBuild`), keep their directories and clean up (`Directories`); a whole profile gives every recorded address, a torn one at most one other per chunk read (`SeedsRecorded`) |
| `frame_budget` | **fails**: when `g_budget` wraps around and `cycles` does not, a frame starts with nothing to run, and so do all after it |
| `deadline` | **fails**: a block that runs off the ROM returns from `rom_main` before the deadline |
| `block_reached` | **fails**: after servicing an interrupt the interpreter runs an instruction at a compiled block's start |
| `static_targets` | **fails**: a static target inside another block's instruction is never compiled |

The four failing runs are disagreements between the code and the project's
presentation and report; `PROJECT.json` quotes them. None of the last three makes the program
wrong: `ImplementsCpu` holds with them. The first one stops a game after about 68
minutes.

Some properties say how much less than the ideal holds, and are tight:

* The backends differ in the order of the two bytes of a push and in the cycle at which a call, a return or a CB
  instruction on memory accesses it. `SameAccesses` and `AccessTimes` list these
  differences and exclude any other.
* A stack in echo RAM works for calls and pushes, but not for interrupts, whose return
  address is stored past the bus. `InterruptReturns` is an equivalence.
* `StatSound` has one direction: two rises between two ticks are one request, and a mode that
  comes and goes between two ticks is none.
* `DueByFrameEnd` also has one: a request the game cleared before the timer caught up
  may come back when it does.
* A line that bit 0 of LCDC leaves blank counts as a row of the window if the window would have been on it,
  so a game that turns the bit off and on in mid-picture leaves a gap in the rows. `WindowRows` allows
  that gap, and no other; without the exception TLC refutes it.
* Switching the LCD off in mid-picture keeps the window's row, and the next picture may begin with it. No
  property says otherwise: `DotPpu` describes the same, and `WindowRows` is about pictures that begin with the LCD on.
* `EdgesFollowed` excuses a target that any address before it decodes over, also one that no block
  has in the end: that instruction may have been cut off a block and abandoned after the target was given up.
* A profile cut off in the middle of a line gives a seed nobody recorded. `SeedsRecorded` bounds how many.

### Bounds

* `opcodes` is exhaustive.
* `backends`: `IsTest` says which tests there are, `MCBackends` takes a sample: all 256 values of A, with all flags for DAA, and ten other operands with and without
  carry for the six operations whose result depends on more than a few bits of it; elsewhere
  ten values, which include every power-of-two edge and both nibbles. The sixteen
  pointers have one in every range the bus tells apart and one on either side of each edge
  between two of them. Programs have at most five instructions, the length of a 16-bit
  addition by bytes, and every subset of them runs in either backend. The theorems remove the bound: every operand,
  word, stack pointer, address and set of flags.
* `MCAnalyzer`: ROMs of 7 bytes in four families: unconditional jumps; conditional jumps
  and calls with targets everywhere; code that overlaps itself; loops with every back
  edge. The alphabets are real opcodes that also serve as operands, so that targets
  fall inside instructions, before the ROM (they wrap) and past it, and instructions
  hang over the end. Seven bytes hold two overlapping instructions, a jump
  over them and one back: every kind of cut, stop and abandonment occurs. The theorems
  remove the bound for all of them but `Terminates`.
* `MCMachine`: ROMs of 8 bytes, one address of RAM, a stack of two words, two
  interrupt lines, frames of 5 cycles, two frames. Each ROM is compiled with
  every set of block starts that decode (219 images), which includes everything the
  analyzer could return, from a single block to a block per instruction; and an image without a block, whose
  `rom_main` returns at once, is one more. Two words of
  stack nest an interrupt in a call and wrap around; two lines compete; two
  frames of five cycles end in the middle of calls and handlers. `CYCLE_MOD` is 32: no
  wrap happens in `machine`, and it is 11 in `frame_budget`, where it must.
* `Overshoot`, `FrameEnds` and `ImplementsCpu` are therefore about the first 2^32 cycles; what comes
  after is what `frame_budget` shows.
* `MCDevices`: frames of three cycles and one of overrun, two clocks a cycle, TIMA of four
  values, periods of one and of four cycles, and every counter wraps around, `cycles` at 16. A frame holds
  several overflows under the short period, a remainder of the long one becomes
  several periods of the short one, and the longest catch-up fits dt as it does in the
  code (`DevicesAssumption`). Nothing bounds the number of frames.
* `MCScreen`: three visible lines and one of VBlank, one dot in each mode, a frame of twelve
  cycles and one of overrun. A tick may catch up a whole picture and a line
  of the next. Five kinds of game write different registers, so that each can write
  them as often as it likes: the window's, bit 0 of LCDC under a window, the LCD switch, STAT's, and what a line looks like. The two counters grow together; the `VIEW` keeps their
  difference, on which all operators depend.
* `MCSound`: notes of two or three length clocks, frequencies of two bits (the sweep's
  sum overflows at once), frames of one and a half sequencer steps, so that
  a frame's end falls on and between steps.
* The theorems about the devices remove these bounds for every safety property of the three runs.
* `MCPipeline`: two runs with the options that change the steps, or one that reads a profile and a game with two dumps,
  each killed anywhere. A line has four bytes and a chunk five, so that
  a chunk ends at every place of a line, as with 5 and 4096 in the code. Runs on more than two
  are what the theorems are for.

### Fairness

`Machine` and `Analyzer` have one thread. `FairSpec` asks for weak fairness of `Next`: the pass, or
the program, takes its next step until it returns. Nothing else is
assumed: no fairness of a branch, of an interrupt or of a condition. `FrameEnds` needs
no more, because every turn of the dispatcher spends cycles.

`Sound` asks for weak fairness of `gb_step`: `gb_run` loops until the player quits, and `FrameEnds` says that
each turn ends. The game owes nothing; `NoteEnds` holds where it stops writing.

`Pipeline` has no liveness property: every step may be the last.

## What is proved

### AnalyzerProofs

`AnalyzerProofs` proves eight theorems about `Analyzer!Spec`, for every ROM size up to
32 KiB, every program and every choice of seeds. Four are about every step: `TypeCorrect`, `OwnershipExact`,
`BlocksContiguous` and `EnteredAtStart`. The assumptions are `AnalyzerAssumption`: what the
decoder returns is an instruction of 0 to 3 bytes, and seeds are 16-bit.

None of the three safety invariants is inductive alone. The inductive invariant is

    IInv == TypeOK /\ Decodable /\ Cursor /\ Contiguous /\ Ownership /\ SingleEntry

`Decodable` says that every instruction of a block decodes and lies at or behind the
block's start, so that it has a last byte there. `Cursor` says that a block under collection is
either empty, at a byte nobody owns, or ends right before the cursor: it is what
lets `Take` extend a block without a gap and without taking a byte from another one.
`Ownership` in turn is what `Cut` needs: the bytes it releases are exactly those
behind the cut. `SingleEntry` needs `Contiguous` and the queue: a start inside a block
is still to be dequeued, and dequeuing it cuts the block there.
The proof has one lemma per action, and one step per conjunct under it.

The other four are about what the pass returns, under the same assumptions: `JoinsAssumed` (`JoinContract`), `EdgesAreFollowed`
(`EdgesFollowed`), `BlocksOnlyCut` (`OnlyCut`) and `ContractKept`. The invariant adds to `IInv`

    ResultInv == IInv /\ Ends /\ Progress /\ Reached /\ Placed

`Ends` is `JoinContract` of a block at every step: one that is not under collection ends in its terminator, or falls
through to the address behind its end, also after a cut. `Progress` says which blocks have been returned, and `Reached` and
`Placed` follow a start through the worklist: the target of an edge is known or about to be
enqueued, and a known start is queued, starts a block, or cannot (no instruction decodes there, or its
bytes are read as part of another one).

`ContractKept` puts the two developments together: `I!BlockContract`, for the returned block turned
into the record the generated code is made from. It is the assumption
`ImageAssumption` makes of blocks, so what `MachineProofs` shows of any image holds of what the analyzer
made. (`ImageAssumption` also excludes operands past the ROM; that is about the ROM, not its blocks.)

### InstructionProofs

It proves that for every opcode the decoder defines, every constant and every machine with the instruction in the
cartridge, compiled code and the interpreter do the same (`EveryInstructionDoesTheSame`). "Every machine" is `Machine` and `Room`:
registers and flags of their widths, any memory, and a program counter from which the instruction's bytes are in ROM. There are
no assumptions on constants.

The opcode map comes first: a row of the decoder's table and a case of the interpreter's switch that share an opcode agree on
operation, operands, length and cycles (`Unprefixed`, and the same for `cb_exec`'s). Then the instructions, group by group. What most of them have
in common is `Works`: on a machine that is `Fetched`, `emitInstruction` and the interpreter's `Work` give the same machine, except that
the interpreter's `pc` is already behind the opcode, which neither bus nor registers depend on (`At`). Then both add
the same cycles and go to the same address (`Tail1`). Jumps, calls and returns, the stack, and CB instructions on memory differ in the order or the time
of their accesses; `Outcome` says what is common to all, in the form the properties need it:

    Bare(l) = Bare(e)                           the same machine, but for its log of accesses
    the traces of l and e, equal or reversed    according to the type of instruction and lowFirst
    the times of l's and e's accesses           the skew, and within the instruction

Arithmetic is where the two differ most: the builders work on wide integers and compare, the interpreter masks nibbles. `AluIs`,
`IncreaseIs`, `DecreaseIs`, `OffsetFlags`, `DaaIs` and `SameShift` give each a common closed form. The bit operations
of `Bits` are what makes this possible: what a mask leaves of a byte (`ByteBits`, `WordBit`) follows from their tables, half by half.

### BackendsProofs

It proves `Spec => []P` for every property `P` of the run `backends`, for every set of tests in `IsTest` (`BackendsAssumption`), whichever
backend runs which instruction and in whichever order the C compiler evaluates. The inductive invariant is

    Together == /\ IsTest(test)
                /\ l \in Machine /\ e \in Machine /\ Bare(l) = Bare(e) /\ l.lowFirst = test.lowFirst
                /\ Progress
                /\ Fresh \/ Executed

`SameState` is not inductive alone: that two machines are the same says nothing of the next instruction unless it is in the cartridge,
where `Loaded` put it, and that is `Progress`: what is left of the program is a suffix of it, and `pc` is where a program of its kind may be
after so many steps. `Executed` keeps the last instruction's `Outcome`, from which `SameState`, `SameAccesses` and `AccessTimes` follow
(`EitherBackendLeavesTheSame`, `DevicesSeeTheSame`, `SeenAtTheTimesGiven`).

What a program computes needs what holds after each of its steps. `DecimalAlong`, `WideAlong`, `MemoryAlong`, `ReturnsAlong` and `StackAlong`
say that, and are inductive together with `Together`, which lets them speak of `l` alone:

* `DecimalDigitsAreMade` (`DecimalArithmetic`): after the first step A and the flags are the binary result; `DecimalSum` and
  `DecimalDifference` do the arithmetic of the adjustment, digit by digit.
* `WordsAreAddedByBytes` (`WideArithmetic`): the carry of the lower bytes is in the flags until the higher ones are added; `WideSum` and
  `WideDifference` put the bytes together.
* `StoresAreSeenInTheirCell` (`OneMemory`): a store changes one cell, or none; loading the next instruction changes
  only the program's, which is why `IsTest` keeps the second address off the program.
* `HandlersReturn` (`InterruptReturns`): for the direction from the return to the stack, no register of `Bus` answers with a byte of the
  return address, and the cells that echo RAM is read from hold zero; `IsTest` keeps the push off the handler.
* `WhatIsPushedIsPopped` (`StackRoundTrip`): for all four pairs; that F comes back bit by bit is `FlagsBack`.

### PipelineProofs

It proves `DirectoriesKept`, `RunsKeepApart` and `SeedsAreRecorded` (properties `Directories`, `OwnBuild` and `SeedsRecorded`)
about `Pipeline!Spec`, for any set of runs with any options, any names and any game. The assumptions are `PipelineAssumption`: no
directory is called `None`, the mark of a run that has none, and the game records addresses; and `ProfileAssumption`, that
digits have a base of two or more and that a line and a chunk are not empty. The inductive invariant of the first two is

    IInv == TypeOK /\ Made /\ Directories /\ Contents

`Made` says at which steps a run has made its directories, `Contents` what its work
directory holds at each. A step of one run leaves the contents of the others alone because every
directory it writes to or removes is its own: that is `Directories`, which in turn needs that a
new name is free (`MkdirTemp`). Steps come in four kinds, each with a lemma: those that touch no
directory, those that make one, those that write a file, and the end of a run.

The invariant of the seeds is

    SeedInv == ReadTypes /\ FileOK /\ \A r \in RUNS : ReadOK(r)

`FileOK` says that the file is how some dump begins, and the whole of it when the last dump was finished. `ReadOK` says of a run that
is reading that there are at most as many *torn* lines as it has read chunks, and that every other line it has is one that
was dumped (`Numbered`): a new chunk either continues at the end of a line, or tears the line it continues,
whoever has written the file meanwhile. While nobody has, what it has is how the file begins. From bytes to addresses go three lemmas:
a line is read as the address it was written for, digit by digit (`NumberOfLine`), a dump is the lines of its
addresses, one after the other (`DumpIs`), and of a beginning of it every line that is whole is one of its (`LineOfDump`).

### MachineProofs

It proves six theorems about `Machine!Spec`, for any set of images, any widths of registers and counters, any
number of interrupt lines, any frame budget and anything RAM may hold: `TypeCorrect` (`TypeOK`), `PcInBlocks` (`BlockPc`),
`ProfileStaysFresh` (`ProfileFresh`), `InterruptsFirst` (`ServicedFirst`) and `Refinement` (`ImplementsCpu`:
every step of the program is a step of the processor in `Cpu` or a stutter). The assumptions are
`IsaAssumption` and `ImageAssumption`, that an image's blocks keep `BlockContract` and
that an instruction that cannot go two ways has no additional cycles (`OperandAndCost`, as in `decodeOpcode`),
and `FrameAssumption`. The inductive invariant is

    IInv == TypeOK /\ BlockPc /\ Inside /\ ProfileFresh

`BlockPc` is not inductive alone: at a join, `pc` goes on to the block's successor, and that this is the address
behind its last instruction is the contract of a block without a terminator. `Inside` says that a
join is behind such an instruction, and that the dispatcher looks for a block only after the interrupts,
which `InterruptsFirst` needs. That `emitCalls` goes on to the next instruction where it increases `pc` to
(`NextInstr`) is the contract again: the instructions tile the block.

For the refinement, `cpuPc` is `pc`, and in the interpreter its local `p`. Dispatch, lookup, join
and the interpreter's head stutter (`Stutters`), the frame loop is a request by the hardware
(`Requests`), both places that service an interrupt push the processor's program counter (`Services`), and
every compiled terminator and every case of the interpreter's switch is one instruction taken or
not taken (`TerminatorsExecute`, `SwitchExecutes`).

`FramesEndInTime` is `Overshoot`: a frame overruns its budget by less than the longest block. The counter and the
budget wrap around (`frame_budget`), so it has an assumption: for some L that no block and no
interpreted instruction costs more than, the counter is wide enough for `Frames` frames of
`GB_CYCLES_PER_FRAME` + L (`Roomy`). `MCMachine` states it of its constants, where L is 5; for the program itself it says
that the session is shorter than about an hour. `InBudget` is the second invariant: the budget is not larger than what the
frames so far come to, the counter is below the budget where the code has just looked at it, and in a block it is
not further than the cost of the instructions below `ip`. That cost is a recursive function of the address
(`CostBelow`); `CostGrows` and `BlockTurn` say what the proof needs of it: executing an instruction never takes the counter further than
`CostBelow` goes, and `CostBelow` of the whole ROM is at most `Longest`.

### DevicesProofs

It proves four theorems about `Devices!Spec`: `TimerRefined` (`LateIsUnseen`, step by step), `InterruptInTime`
(`DueByFrameEnd`), `PressNoticed` (`PressSeen`), and the invariant itself, `DevicesInvariant`:

    DevicesInv == TypeOK /\ InTime /\ AtRest /\ Owed

The assumption is `DevicesAssumption`: sizes are positive, and the clocks since the last tick plus a period fit `CYCLE_MOD`, in
which `timer_tick` computes (a frame is 70224 clocks of 2^32). `InTime` is what makes this hold in every state: the last tick was in
this frame, and what it left is less than *some* period, not the selected one, as the game may just have changed it.
`AtRest` says that the frame ends with a tick, `Owed` that a request is in IF or in
the tick to come.

The loop of `timer_tick` has a closed form (`TurnsClosed`: TIMA and the overflows after k
increments), so that k increments and l more are k + l (`CountOn`), and a tick one cycle later is the tick until now and
one cycle of a timer that is never late (`CycleTick`). All of the refinement follows from these two.

### ScreenProofs

It proves five theorems about `Screen!Spec`: `DotByDot` (`AsIfDotByDot`), `PicturesCome` (`PictureEveryFrame`), `RowsInOrder`
(`WindowRows`), `StatNeverMadeUp` (`StatSound`), and the invariant, `ScreenInvariant`:

    ScreenInv == TypeOK /\ InTime /\ SameRegisters /\ AsIfDotByDot /\ StatOwed /\ Paced /\ RowsFollow

The assumption is `ScreenAssumption`: a frame is a picture long, lines are a whole number of cycles and end with one
of mode 0, the clocks since the last tick fit `CYCLE_MOD`, and a block is not longer than a frame. The
code's constants satisfy all but the last, which is about the game: 17,556 cycles of straight code are possible in
principle, and behind such a block a frame would have more than two pictures.

One comparison carries the proof. A tick that comes a cycle later takes the same turns of its loop,
and the unit it leaves is a cycle further on; or it takes one turn more, and ends the line (`OneCycle`). `CycleFields` says what
that changes of what can be seen, and it is what the beam does in a cycle (`CycleSeen`); a write ticks first, and then
both do the same. `InTime` again bounds how late a tick is. `StatOwed` relates the samples the unit takes of the STAT level, one per turn and
one per tick, to the rises the beam sees. `Paced` counts: the dots of the frame are
those of the pictures handed over, of the tick to come, and of the beam's place in the picture, up to a
start less than a picture, which leaves one or two. `RowsFollow` is `WindowRows` of the lines above the
beam, with the number of the next row: a line drawn either shows that row, or is blank and may pass it over, or leaves it.

### SoundProofs

`PlaysAlwaysSoundly` (`PlaysSoundly`) about `Sound!Spec`, for any clocking, note lengths, widths of the frequency and sweeps
(`SoundAssumption`). The invariant types the unit and says of each channel that it plays only with its DAC on and length left, and only while the
unit is on; each part of the unit keeps it by itself. The one place where that takes an argument is arithmetic: a write of the
frequency's lower or upper bits, and a sum or difference of the sweep, stay in the frequency's range.

### Recursion

The devices catch up by recursive functions, and the cost of a block and the number in a line of the profile are others, and `tlapm` cannot instantiate the library's induction theorems. The proofs
use induction over a *set* of naturals instead (`NatSetInduction`, in each of the five modules that need it, which
follows from the least element of the complement): for each function, the existence and the equation of the recursion are proved first
(as `RunsDefined`, `StepsDefined` and `TurnsClosed`), and then what it keeps.

### Only model-checked

* `Terminates`, `FrameEnds` and `NoteEnds`: liveness is out of the prover's reach.
* Everything about `Opcodes`: 511 codes and no parameter, so that the run is a proof. (`InstructionProofs` proves the part of it that
  the instructions' work depends on.)

## Not modelled

* Pixels, sprites, tiles and the OAM DMA copy; waveforms, envelopes, the mixer and the times of samples:
  pure data, which no other part depends on. A write to video RAM does not bring the PPU up to date
  (listed as a hazard without a property).
* Which of several sessions' discoveries survive in the profile: the code overwrites the file and
  promises nothing.
* Declaring globals and printing IR in `codegen.go`; ROM information and window titles in `core.c`: text.
* The frontends and the build: I/O.
* Operands past the ROM's end in `Machine` (`ImageAssumption`); `Analyzer` has them.

## Plan

1. `Analyzer`, `Decoder`, proofs of the analyzer's invariants. *Done.*
2. `Machine` against `Cpu`; `Opcodes`. *Done.*
3. `Lifted` and `Emulated` against each other and against sums, on one `Bus`. *Done.*
4. `Timer` and `Joypad`, `Ppu`, `Apu`, each in the frame loop and against its abstract
   specification. *Done.*
5. `Pipeline` and `Profile`, proofs of its directories and builds. *Done.*
6. `Machine`'s invariants and that it implements `Cpu`, from `BlockContract`. *Done.*
7. That an analysed program satisfies `BlockContract`. *Done.*
8. That the late timer and picture unit implement the exact ones, and `PlaysSoundly`, for every size. *Done.*
9. Every property of `Backends`, for every operand, word, pointer and set of flags rather than the sampled ones. *Done.*
10. `Overshoot`, from an assumption that keeps the counter from wrapping around. *Done.*
11. `SeedsRecorded` for every size of lines and chunks. *Done.*
