-------------------------------- MODULE Bus --------------------------------
(***************************************************************************)
(* The memory the two backends share (ram.c), the read shortcut of the     *)
(* compiled code (cg_read_memory), and the raw stores of the interrupt     *)
(* controller.                                                             *)
(*                                                                         *)
(* A machine is a record: reg, the 8-bit registers by name; flag, the four *)
(* flags; sp, pc, ime, cycles; ram, the bytes of the array that are not    *)
(* zero; log, the accesses to hardware registers, in order, each with the  *)
(* value of `cycles' it was made at, which is all a device sees of it; and *)
(* lowFirst, the order the C compiler chose for the two calls of read16,   *)
(* which the language leaves open.  pc is the interpreter's p as well.     *)
(***************************************************************************)
EXTENDS Integers, Sequences, TLC

High(w) == w \div 256
Low(w)  == w % 256
Join(high, low) == 256 * high + low
Trunc16(w) == w % 65536
SExt8(n) == IF n < 128 THEN n ELSE n - 256

Sound   == 65296..65343       \* 0xFF10 to 0xFF3F
Clock   == 65284..65287       \* 0xFF04 to 0xFF07
Picture == 65344..65355       \* 0xFF40 to 0xFF4B
EchoRam == 57344..65023       \* 0xE000 to 0xFDFF
Rom     == 0..32767

\* The addresses that read_ram and write_ram hand to a device; 0xFF00 is the
\* joypad's, 0xFF0F and 0xFFFF are IF and IE.
IsRegister(addr) ==
    \/ addr \in Sound \/ addr \in Clock \/ addr \in Picture
    \/ addr \in {65280, 65295, 65535}

\* Echo RAM is work RAM seen again, 0x2000 lower.
Cell(addr) == IF addr \in EchoRam THEN addr - 8192 ELSE addr

ram(m, addr) == IF addr \in DOMAIN m.ram THEN m.ram[addr] ELSE 0
store(m, addr, val) ==
    [m EXCEPT !.ram = [a \in DOMAIN @ \cup {addr} |-> IF a = addr THEN val ELSE @[a]]]

Logged(m, op, addr, val) ==
    IF IsRegister(addr)
    THEN [m EXCEPT !.log = Append(@, [op |-> op, addr |-> addr, val |-> val, at |-> m.cycles])]
    ELSE m

\* What a device answers is its own affair: here, a byte that tells registers apart.
DeviceValue(addr) == (7 * addr + 3) % 256

read_ram(m, addr) == IF IsRegister(addr) THEN DeviceValue(addr) ELSE ram(m, Cell(addr))
AfterRead(m, addr) == Logged(m, "read", addr, read_ram(m, addr))

write_ram(m, addr, val) ==
    CASE IsRegister(addr) -> Logged(m, "write", addr, val)
      [] addr \in Rom     -> m
      [] OTHER            -> store(m, Cell(addr), val)

\* Mutant: echo RAM is read inline too.
cg_read_below_registers(m, addr) == IF addr >= 65280 THEN read_ram(m, addr) ELSE ram(m, addr)

\* Compiled code goes to the bus from 0xE000 up, and reads the array itself below.
cg_read_memory(m, addr) == IF addr >= 57344 THEN read_ram(m, addr) ELSE ram(m, addr)

\* Mutant: the interrupted address is pushed low byte first.
interrupt_push_reversed(m) ==
    LET s1 == Trunc16(m.sp - 1)
        s2 == Trunc16(m.sp - 2)
    IN  [store(store(m, s1, Low(m.pc)), s2, High(m.pc)) EXCEPT !.sp = s2, !.ime = 0]

\* interrupt_service, once it has found a pending line: pc goes on the stack with
\* plain stores to the array.
interrupt_push(m) ==
    LET s1 == Trunc16(m.sp - 1)
        s2 == Trunc16(m.sp - 2)
    IN  [store(store(m, s1, High(m.pc)), s2, Low(m.pc)) EXCEPT !.sp = s2, !.ime = 0]

\* The addresses of the array.
Array == 0..(2^16 - 1)

\* rom_init copies the image, of which emitGlobals kept at most 64 KB, over the array.
rom_init(m, image) ==
    [m EXCEPT !.ram = [addr \in (DOMAIN image \cap Array) \cup DOMAIN @ |->
                          IF addr \in DOMAIN image THEN image[addr] ELSE @[addr]]]
============================================================================
