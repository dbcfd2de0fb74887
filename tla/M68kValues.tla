----------------------------- MODULE M68kValues -----------------------------
(***************************************************************************)
(* Bytes, words and longs as the macros of m68kcpu.h cut them out of C's   *)
(* unsigned ints, and the flags as what their macros read from them: the   *)
(* emulator keeps a flag in whatever bit of whatever value is at hand.     *)
(*                                                                         *)
(* A size is the number of bytes: 1, 2 or 4.  How wide a byte is, is a     *)
(* parameter; 8 bits in the source.                                        *)
(***************************************************************************)
EXTENDS Integers

CONSTANTS
  Half,     \* the weight of the highest bit of a byte, a word, a long
  ByteBits  \* 8 in the source

Sizes == {1, 2, 4}
Mod(z) == 2 * Half[z]
Range0(z) == 0..(Mod(z) - 1)
Bits(z) == z * ByteBits

\* 1 << n, and (d >> b) & 1.
Pow2[n \in Nat] == IF n = 0 THEN 1 ELSE 2 * Pow2[n - 1]
BitOf(d, b) == (d \div Pow2[b]) % 2

ASSUME HalfAssumption == Half \in [Sizes -> Nat \ {0}]
ASSUME WidthAssumption ==
  /\ ByteBits \in Nat \ {0}
  /\ \A z \in Sizes : Mod(z) = Pow2[Bits(z)]

\* MASK_OUT_ABOVE, and the bit that the flag N shows.
Masked(z, v) == v % Mod(z)
Msb(z, v) == (v \div Half[z]) % 2

\* MAKE_INT: the signed value, and the same in the bits of a long.
MakeInt(z, v) == LET u == Masked(z, v) IN IF u < Half[z] THEN u ELSE u - Mod(z)
Extended(z, v) == Masked(4, MakeInt(z, v))

Bit(condition) == IF condition THEN 1 ELSE 0

\* The condition codes.
Flags == [x : {0, 1}, n : {0, 1}, z : {0, 1}, v : {0, 1}, c : {0, 1}]

\* What an operation leaves behind: a value and the flags.
Result(value, flags) == [v |-> value, f |-> flags]

\* Logical operations, moves and tests: N and Z of the result; V and C clear.
Logical(z, f, v) ==
  Result(v, [x |-> f.x, n |-> Msb(z, v), z |-> Bit(v = 0), v |-> 0, c |-> 0])

\* The conditions by their names; t and f are always and never.
Condition(cc, f) ==
  CASE cc = "t"  -> TRUE
    [] cc = "f"  -> FALSE
    [] cc = "hi" -> f.c = 0 /\ f.z = 0
    [] cc = "ls" -> f.c = 1 \/ f.z = 1
    [] cc = "cc" -> f.c = 0
    [] cc = "cs" -> f.c = 1
    [] cc = "ne" -> f.z = 0
    [] cc = "eq" -> f.z = 1
    [] cc = "vc" -> f.v = 0
    [] cc = "vs" -> f.v = 1
    [] cc = "pl" -> f.n = 0
    [] cc = "mi" -> f.n = 1
    [] cc = "ge" -> f.n = f.v
    [] cc = "lt" -> f.n # f.v
    [] cc = "gt" -> f.n = f.v /\ f.z = 0
    [] cc = "le" -> f.n # f.v \/ f.z = 1

Conditions == {"hi", "ls", "cc", "cs", "ne", "eq", "vc", "vs",
               "pl", "mi", "ge", "lt", "gt", "le"}
=============================================================================
