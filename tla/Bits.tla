-------------------------------- MODULE Bits --------------------------------
(***************************************************************************)
(* Bitwise and, or and exclusive or of words of up to sixteen bits (C's    *)
(* operators, and LLVM's instructions).  They are written without          *)
(* recursion, so that theorems can be proved about what uses them: on two  *)
(* bits by a table, on more by their two halves.                           *)
(***************************************************************************)
EXTENDS Integers

\* op on the two halves of x and y; the lower half counts up to base.
Halves(op(_, _), base, x, y) == (base * op(x \div base, y \div base)) + op(x % base, y % base)

And1(x, y)  == IF x = 1 /\ y = 1 THEN 1 ELSE 0
And2(x, y)  == Halves(And1, 2, x, y)
And4(x, y)  == Halves(And2, 4, x, y)
And8(x, y)  == Halves(And4, 16, x, y)
And(x, y)   == Halves(And8, 256, x, y)

Or1(x, y)   == IF x = 1 \/ y = 1 THEN 1 ELSE 0
Or2(x, y)   == Halves(Or1, 2, x, y)
Or4(x, y)   == Halves(Or2, 4, x, y)
Or8(x, y)   == Halves(Or4, 16, x, y)
Or(x, y)    == Halves(Or8, 256, x, y)

Xor1(x, y)  == IF x = y THEN 0 ELSE 1
Xor2(x, y)  == Halves(Xor1, 2, x, y)
Xor4(x, y)  == Halves(Xor2, 4, x, y)
Xor8(x, y)  == Halves(Xor4, 16, x, y)
Xor(x, y)   == Halves(Xor8, 256, x, y)
=============================================================================
