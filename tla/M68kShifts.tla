----------------------------- MODULE M68kShifts -----------------------------
(***************************************************************************)
(* Shifts and rotates of m68k_in.c: the operand d by n bits.  The count    *)
(* in the instruction is never 0; one in a register may be, and may exceed *)
(* the operand, which C's shift operators do not bear: hence the cases.    *)
(***************************************************************************)
EXTENDS M68kValues

\* Shifted by a count that is not 0: C and X are the last bit that left.
Shifted(z, v, carry) ==
  Result(v, [x |-> carry, n |-> Msb(z, v), z |-> Bit(v = 0), v |-> 0, c |-> carry])

\* By 0: C is cleared, X stays.
Unshifted(z, f, d) == Logical(z, f, d)

Asr(z, f, n, d) ==
  CASE n = 0       -> Unshifted(z, f, d)
    [] n \in 1..(Bits(z) - 1)
                   -> Shifted(z, Masked(z, MakeInt(z, d) \div Pow2[n]), BitOf(d, n - 1))
    [] n >= Bits(z) -> Shifted(z, Msb(z, d) * (Mod(z) - 1), Msb(z, d))

Lsr(z, f, n, d) ==
  CASE n = 0           -> Unshifted(z, f, d)
    [] n \in 1..Bits(z) -> Shifted(z, d \div Pow2[n], BitOf(d, n - 1))
    [] n > Bits(z)     -> Shifted(z, 0, 0)

Left(z, n, d) == (d % Pow2[Bits(z) - n]) * Pow2[n]
Lsl(z, f, n, d) ==
  CASE n = 0           -> Unshifted(z, f, d)
    [] n \in 1..Bits(z) -> Shifted(z, Left(z, n, d), BitOf(d, Bits(z) - n))
    [] n > Bits(z)     -> Shifted(z, 0, 0)

\* V of a left shift.
Overflowed(q, changes) == [q EXCEPT !.f.v = Bit(changes)]

\* Mutant: the sign before and after decides.
AslEnds(z, f, n, d) ==
  LET q == Lsl(z, f, n, d) IN Overflowed(q, n > 0 /\ Msb(z, q.v) # Msb(z, d))

\* ASL sets V when the sign changes on the way: when the bits that pass
\* through it are not all the same.
Asl(z, f, n, d) ==
  LET passing == d \div Pow2[Bits(z) - n - 1]
  IN CASE n = 0 -> Unshifted(z, f, d)
       [] n \in 1..(Bits(z) - 1) ->
            Overflowed(Shifted(z, Left(z, n, d), BitOf(d, Bits(z) - n)),
                       passing \notin {0, Pow2[n + 1] - 1})
       [] n >= Bits(z) ->
            Overflowed(Shifted(z, 0, IF n = Bits(z) THEN d % 2 ELSE 0), d # 0)

\* w bits of v turned right by k places; left is the rest of the way round.
Turned(w, v, k) == v \div Pow2[k] + (v % Pow2[k]) * Pow2[w - k]

\* Rotates leave X alone.
Ror(z, f, n, d) ==
  LET v == Turned(Bits(z), d, n % Bits(z))
  IN IF n = 0 THEN Unshifted(z, f, d)
     ELSE Result(v, [Logical(z, f, v).f EXCEPT !.c = BitOf(d, (n - 1) % Bits(z))])
Rol(z, f, n, d) ==
  LET v == Turned(Bits(z), d, (Bits(z) - (n % Bits(z))) % Bits(z))
  IN IF n = 0 THEN Unshifted(z, f, d)
     ELSE Result(v, [Logical(z, f, v).f EXCEPT !.c = v % 2])

\* X is one more bit in the circle; by 0, C is X.
Through(z, f, d, k) ==
  LET r == Turned(Bits(z) + 1, d + f.x * Mod(z), k)
  IN Shifted(z, Masked(z, r), r \div Mod(z))
Roxr(z, f, n, d) == Through(z, f, d, n % (Bits(z) + 1))
Roxl(z, f, n, d) == Through(z, f, d, (Bits(z) + 1 - (n % (Bits(z) + 1))) % (Bits(z) + 1))
=============================================================================
