------------------------------ MODULE Profile ------------------------------
(***************************************************************************)
(* The profile file, which a running game writes (profile.c) and the       *)
(* compiler reads (readSeeds of cmd.go): addresses in hexadecimal, a line  *)
(* each, in ascending order.  Both sides go through buffers, so that a     *)
(* file is written and read in chunks of bytes that end anywhere in a      *)
(* line.  A byte is a digit below BASE or the end of a line.               *)
(***************************************************************************)
EXTENDS Integers, Sequences, FiniteSetsExt

CONSTANTS BASE,       \* 16
          DIGITS,     \* 4, of an address
          ROM_END,    \* 16#8000
          CHUNK       \* 4096, bytes of a buffer

ASSUME ProfileAssumption ==
    BASE \in Nat \ {0, 1} /\ DIGITS \in Nat \ {0} /\ CHUNK \in Nat \ {0} /\ ROM_END \in Nat

EOL == BASE
WIDTH == DIGITS + 1                      \* of a line

\* What is left of an address when its last n digits are gone.
Shifted(a) == LET rest[n \in 0..DIGITS] == IF n = 0 THEN a ELSE rest[n - 1] \div BASE IN rest
Addresses == {a \in Nat : Shifted(a)[DIGITS] = 0}

\* What profile_dump writes of the addresses in profile_map: byte k, from 0 on.
Line(a) == [i \in 1..WIDTH |-> IF i = WIDTH THEN EOL ELSE Shifted(a)[DIGITS - i] % BASE]
Entry(profile_map, i) == CHOOSE a \in profile_map : Cardinality({b \in profile_map : b < a}) = i
Byte(profile_map, k) == Line(Entry(profile_map, k \div WIDTH))[1 + (k % WIDTH)]
Dump(profile_map) == [k \in 1..Cardinality(profile_map) * WIDTH |-> Byte(profile_map, k - 1)]

\* The file when another chunk of the dump reaches it, and the buffer when another chunk
\* of the file does.
Flushed(file, profile_map) ==
    LET all == Dump(profile_map) IN SubSeq(all, 1, Min({Len(file) + CHUNK, Len(all)}))
Refilled(buf, file) == buf \o SubSeq(file, Len(buf) + 1, Min({Len(buf) + CHUNK, Len(file)}))

\* The number that the i-th line of a buffer holds, from 0 on; its last one may be short.
Number(buf, i) ==
    LET value[n \in 0..DIGITS] ==
            IF n = 0 THEN 0
            ELSE IF (i * WIDTH) + n > Len(buf) THEN value[n - 1]
            ELSE (value[n - 1] * BASE) + buf[(i * WIDTH) + n]
    IN  value[DIGITS]
Numbers(buf) == {Number(buf, i) : i \in {j \in 0..Len(buf) : j * WIDTH < Len(buf)}}

\* Mutant: addresses outside the ROM are taken as seeds.
readSeeds_anywhere(buf) == Numbers(buf)

\* The seeds in a buffer that has been filled to the end of the file.
readSeeds(buf) == {v \in Numbers(buf) : v < ROM_END}
=============================================================================
