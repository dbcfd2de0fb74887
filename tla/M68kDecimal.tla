---------------------------- MODULE M68kDecimal -----------------------------
(***************************************************************************)
(* ABCD, SBCD and NBCD of m68k_in.c: two decimal digits in a byte.  With   *)
(* ten digits and four bits for each, the constants of the source are      *)
(*   9 = Digits - 1,  6 = Nibble - Digits,  0x99 = Nines,  0x9a = Nines + 1 *)
(* and 0xa0 = Digits * Nibble.                                             *)
(***************************************************************************)
EXTENDS M68kValues

CONSTANTS
  Digits,  \* 10 in the source
  Nibble   \* 16

ASSUME DecimalAssumption ==
  /\ Nibble \in Nat /\ Digits \in Nat /\ 1 < Digits /\ Digits < Nibble
  /\ Nibble * Nibble = Mod(1)

Nines == (Digits - 1) * (Nibble + 1)
Low(v) == v % Nibble
High(v) == v - Low(v)

\* C's unsigned ints: what is below zero is above everything.
Exceeds(r, limit) == r < 0 \/ r > limit

\* The carry, into X too; V is the bit 7 that the correction set.
Decimal(f, before, corrected, carry) ==
  LET r == Masked(1, corrected)
  IN Result(r, [x |-> carry, c |-> carry, n |-> Msb(1, corrected),
                v |-> Bit(Msb(1, before) = 0 /\ Msb(1, corrected) = 1),
                z |-> Bit(f.z = 1 /\ r = 0)])

Abcd(f, s, d) ==
  LET low   == Low(s) + Low(d) + f.x
      sum   == (IF low > Digits - 1 THEN low + Nibble - Digits ELSE low) + High(s) + High(d)
      carry == Bit(sum > Nines)
  IN Decimal(f, low, sum - carry * Digits * Nibble, carry)

\* Mutant: the digits are not corrected when a borrow leaves the low one.
SbcdPlain(f, s, d) ==
  LET rest == Masked(1, d - s - f.x) IN Decimal(f, rest, rest, Bit(d - s - f.x < 0))

Sbcd(f, s, d) ==
  LET low  == Low(d) - Low(s) - f.x
      rest == (IF Exceeds(low, Digits - 1) THEN low - (Nibble - Digits) ELSE low)
                + High(d) - High(s)
      carry == Bit(Exceeds(rest, Nines))
  IN Decimal(f, low, rest + carry * Digits * Nibble, carry)

\* Zero without a borrow stays zero, and Z as it was.
Nbcd(f, d) ==
  LET r == Masked(1, Nines + 1 - d - f.x)
      c == Masked(1, IF Low(r) = Digits THEN High(r) + Nibble ELSE r)
  IN IF r = Nines + 1
       THEN Result(d, [f EXCEPT !.v = 0, !.c = 0, !.x = 0, !.n = Msb(1, r)])
       ELSE Decimal(f, r, c, 1)
=============================================================================
