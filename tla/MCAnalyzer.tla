----------------------------- MODULE MCAnalyzer -----------------------------
(***************************************************************************)
(* The analyzer on every ROM of a few bytes over a small alphabet of real  *)
(* opcodes, decoded by the decoder.  The same bytes serve as operands, so  *)
(* jumps land everywhere: inside other instructions, before the ROM (they  *)
(* wrap) and past it.                                                      *)
(***************************************************************************)
EXTENDS Analyzer

D == INSTANCE Decoder

MCTypes ==
    {r.type : r \in D!Rows \cup {D!UnknownRow}}
        \cup {D!CbGroups[g][f] : g \in DOMAIN D!CbGroups, f \in {1, 2}}

Decoded(roms) == {[a \in Addr |-> D!DecodeAt(rom, a)] : rom \in roms}

\* The bytes of a ROM: some free ones over an alphabet, then the same end.
Roms(free, alphabet, tail) ==
    {f \o tail : f \in [1..free -> alphabet]}
FromZero(s) == [a \in Addr |-> s[a + 1]]

\* NOP (and the high byte of an address), INC BC, JR, JP, RET, undefined; the ROM
\* ends with LD B,n, whose operand lies past it.
Unconditional == Roms(4, {0, 3, 24, 195, 201, 252}, <<24, 249, 6>>)

\* NOP, LD BC,nn, JR NZ and CALL NZ, CP n (also -2), undefined (also -4).
Conditional == Roms(5, {0, 1, 32, 196, 254, 252}, <<192, 5>>)

\* Code that overlaps itself: LD B,n, and two jumps into and onto it.
Overlapping == {<<0, 6, x, 32, y, z, w>> : x, y, z, w \in {0, 6, 32, 250, 253}}

\* A loop whose back edge lands on every address before it.
Loops == {<<x, y, z, 32, d, u, v>> : x, y, z, u, v \in {0, 3, 32, 201}, d \in 251..254}

MCPrograms == Decoded({FromZero(s) : s \in Unconditional \cup Conditional 
                                   \cup Overlapping \cup Loops})

MCSeeds == <<0, 0, 7>>
MCExtraSeeds == <<9, 5>>
=============================================================================
