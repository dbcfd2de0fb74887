----------------------------- MODULE M68kLogic ------------------------------
(***************************************************************************)
(* Bitwise operations of m68k_in.c, single bits, and the condition code    *)
(* register as a number.                                                   *)
(***************************************************************************)
EXTENDS M68kValues

\* The number that has the bits of a function.
Number2(n, bit) ==
  LET low[k \in 0..n] ==
        IF k = 0 THEN 0 ELSE low[k - 1] + bit[k - 1] * Pow2[k - 1]
  IN low[n]

\* C's & | ^ on as many bits as a size has.
And(z, s, d) == Number2(Bits(z), [b \in 0..(Bits(z) - 1) |-> BitOf(s, b) * BitOf(d, b)])
Or(z, s, d)  ==
  Number2(Bits(z), [b \in 0..(Bits(z) - 1) |-> 1 - (1 - BitOf(s, b)) * (1 - BitOf(d, b))])
Xor(z, s, d) == Number2(Bits(z), [b \in 0..(Bits(z) - 1) |-> (BitOf(s, b) + BitOf(d, b)) % 2])

Both(z, f, s, d)   == Logical(z, f, And(z, s, d))
Either(z, f, s, d) == Logical(z, f, Or(z, s, d))
OneOf(z, f, s, d)  == Logical(z, f, Xor(z, s, d))
Invert(z, f, d) == Logical(z, f, Mod(z) - 1 - d)

\* d with bit b replaced.  Only Z changes: the bit as it was.
Replaced(d, b, new) == d + (new - BitOf(d, b)) * Pow2[b]
Tested(f, d, b) == [f EXCEPT !.z = 1 - BitOf(d, b)]
Btst(f, b, d) == Result(d, Tested(f, d, b))
Bchg(f, b, d) == Result(Replaced(d, b, 1 - BitOf(d, b)), Tested(f, d, b))
Bclr(f, b, d) == Result(Replaced(d, b, 0), Tested(f, d, b))
Bset(f, b, d) == Result(Replaced(d, b, 1), Tested(f, d, b))

\* TAS shows the byte as it was and raises its highest bit.
Tas(f, d) == Result(Or(1, d, Half[1]), Logical(1, f, d).f)

\* m68ki_get_ccr and m68ki_set_ccr.
GetCcr(f) == 16 * f.x + 8 * f.n + 4 * f.z + 2 * f.v + f.c
SetCcr(v) == [x |-> BitOf(v, 4), n |-> BitOf(v, 3), z |-> BitOf(v, 2),
              v |-> BitOf(v, 1), c |-> BitOf(v, 0)]
CcrAnd(f, v) == SetCcr(And(2, GetCcr(f), v))
CcrOr(f, v)  == SetCcr(Or(2, GetCcr(f), v))
CcrEor(f, v) == SetCcr(Xor(2, GetCcr(f), v))
=============================================================================
