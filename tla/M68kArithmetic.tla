--------------------------- MODULE M68kArithmetic ---------------------------
(***************************************************************************)
(* Binary arithmetic of the handlers in m68k_in.c: from the source operand *)
(* s, the destination operand d and the flags f to the result and the new  *)
(* flags.  The handlers compute in C's ints, which are wider than a byte   *)
(* or a word: there the carry is the next bit of the result.  A long fills *)
(* the int, and the carry is worked out from the highest bits.             *)
(***************************************************************************)
EXTENDS M68kValues

\* CFLAG_8, CFLAG_16, CFLAG_ADD_32, CFLAG_SUB_32.
NextBit(z, r) == (r \div Mod(z)) % 2
CarryAdd(z, s, d, r) ==
  IF z < 4 THEN NextBit(z, r)
  ELSE Bit(\/ Msb(z, s) = 1 /\ Msb(z, d) = 1
           \/ Msb(z, r) = 0 /\ (Msb(z, s) = 1 \/ Msb(z, d) = 1))
CarrySub(z, s, d, r) ==
  IF z < 4 THEN NextBit(z, r)
  ELSE Bit(\/ Msb(z, s) = 1 /\ Msb(z, r) = 1
           \/ Msb(z, d) = 0 /\ (Msb(z, s) = 1 \/ Msb(z, r) = 1))

\* Mutant: a sum overflows when the signs of the operands differ.
OverflowAddSigns(z, s, d, r) == Bit(Msb(z, s) # Msb(z, d) /\ Msb(z, d) # Msb(z, r))

\* VFLAG_ADD and VFLAG_SUB: the highest bits of (s^r)&(d^r), (s^d)&(r^d).
OverflowAdd(z, s, d, r) == Bit(Msb(z, s) # Msb(z, r) /\ Msb(z, d) # Msb(z, r))
OverflowSub(z, s, d, r) == Bit(Msb(z, s) # Msb(z, d) /\ Msb(z, r) # Msb(z, d))

Sum(z, s, d, r) ==
  LET c == CarryAdd(z, s, d, r)
  IN Result(Masked(z, r), [x |-> c, n |-> Msb(z, r), z |-> Bit(Masked(z, r) = 0),
                           v |-> OverflowAdd(z, s, d, r), c |-> c])
Difference(z, s, d, r) ==
  LET c == CarrySub(z, s, d, r)
  IN Result(Masked(z, r), [x |-> c, n |-> Msb(z, r), z |-> Bit(Masked(z, r) = 0),
                           v |-> OverflowSub(z, s, d, r), c |-> c])

\* Mutant: a chain forgets the parts before.
ChainedAnew(f, q) == q

\* In the instructions with X, FLAG_Z |= res: Z is cleared and never set.
Chained(f, q) == [q EXCEPT !.f.z = Bit(f.z = 1 /\ q.f.z = 1)]

Add(z, f, s, d)  == Sum(z, s, d, d + s)
AddX(z, f, s, d) == Chained(f, Sum(z, s, d, d + s + f.x))
Sub(z, f, s, d)  == Difference(z, s, d, d - s)
SubX(z, f, s, d) == Chained(f, Difference(z, s, d, d - s - f.x))
Neg(z, f, d)     == Difference(z, d, 0, 0 - d)
NegX(z, f, d)    == Chained(f, Difference(z, d, 0, 0 - d - f.x))

\* A comparison keeps the destination, and X.
Cmp(z, f, s, d) ==
  LET q == Difference(z, s, d, d - s) IN Result(d, [q.f EXCEPT !.x = f.x])

Ext(z, f, d) == Logical(z, f, Masked(z, MakeInt(z \div 2, d)))
Swap(z, f, d) == Logical(4, f, (d % Mod(2)) * Mod(2) + d \div Mod(2))

-----------------------------------------------------------------------------
\* Words to a long, and a long by a word.  The quotient goes to the low half
\* and the remainder to the high one, unless the quotient does not fit.
Mulu(f, s, d) == Logical(4, f, s * Masked(2, d))
Muls(f, s, d) == Logical(4, f, Masked(4, MakeInt(2, s) * MakeInt(2, d)))

Quotient(f, q, r) ==
  Result(Masked(2, q) + Masked(2, r) * Mod(2),
         [Logical(2, f, Masked(2, q)).f EXCEPT !.z = Bit(q = 0)])
TooBig(f, d) == Result(d, [f EXCEPT !.v = 1])

Divu(f, s, d) ==
  IF d \div s < Mod(2) THEN Quotient(f, d \div s, d % s) ELSE TooBig(f, d)

\* Mutant: the remainder is never negative.
DivsFloor(f, s, d) ==
  LET a == MakeInt(4, d)
      b == MakeInt(2, s)
      q == IF b > 0 THEN a \div b ELSE (-a) \div (-b)
  IN IF q \in -Half[2]..(Half[2] - 1) THEN Quotient(f, q, a - q * b)
     ELSE TooBig(f, d)

\* C divides towards zero, and the remainder has the sign of the dividend.
\* The smallest long by -1 is caught first, since C cannot divide it.
Divs(f, s, d) ==
  LET a == MakeInt(4, d)
      b == MakeInt(2, s)
      abs(i) == IF i < 0 THEN -i ELSE i
      magnitude == abs(a) \div abs(b)
      q == IF (a < 0) = (b < 0) THEN magnitude ELSE -magnitude
  IN IF d = Half[4] /\ b = -1 THEN Logical(4, f, 0)
     ELSE IF q \in -Half[2]..(Half[2] - 1) THEN Quotient(f, q, a - q * b)
     ELSE TooBig(f, d)
=============================================================================
