------------------------- MODULE M68kHandlersProofs -------------------------
(***************************************************************************)
(* What a handler of the instruction set computes and changes, for every   *)
(* width of a byte, a word and a long.  The handlers get carry and overflow*)
(* from a few bits of the operands and of a result that C has cut to its   *)
(* int; the first theorems compare them with the same sum in the integers, *)
(* and the lemmas behind them give the type of every operation.  Stepped   *)
(* says then what finding operands does, Changed what a whole instruction  *)
(* does, and the lemmas follow a handler from the opcode to its result:    *)
(* operands, the operation, the destination.  Right is what the properties *)
(* of M68kProgram say of one instruction: the types, OnlyNamed and, when   *)
(* operands are no longer than the 68000 knows them, CounterRight.         *)
(***************************************************************************)
EXTENDS TestProgram, NaturalsInduction, WellFoundedInduction, FiniteSetTheorems, FunctionTheorems,
        TLAPS

\* The facts of arithmetic that the provers need named: products keep the
\* order, and what a quotient and a remainder are.
LEMMA Times == ASSUME NEW a \in Int, NEW b \in Int, NEW h \in Nat, a <= b
  PROVE a * h <= b * h
OBVIOUS

\* The product of a sum.
LEMMA Distribute == ASSUME NEW a \in Int, NEW b \in Int, NEW h \in Int
  PROVE (a + b) * h = a * h + b * h /\ (a - b) * h = a * h - b * h
OBVIOUS

\* A quotient is the multiple below, and a remainder what is left.
LEMMA DivBounds == ASSUME NEW v \in Int, NEW h \in Nat \ {0}
  PROVE v \div h \in Int /\ (v \div h) * h <= v /\ v < (v \div h) * h + h
        /\ v % h = v - (v \div h) * h
OBVIOUS

\* There is one such multiple.
LEMMA DivIs == ASSUME NEW v \in Int, NEW h \in Nat \ {0}, NEW k \in Int,
                      k * h <= v, v < k * h + h
  PROVE v \div h = k /\ v % h = v - k * h
<1>1. PICK q \in Int : q = v \div h
  BY DivBounds
<1>2. q * h <= v /\ v < q * h + h
  BY <1>1, DivBounds
<1>3. ~(q + 1 <= k)
  <2>1. (q + 1) * h = q * h + h
    OBVIOUS
  <2> QED BY <2>1, <1>2, Times
<1>4. ~(k + 1 <= q)
  <2>1. (k + 1) * h = k * h + h
    OBVIOUS
  <2> QED BY <2>1, <1>2, Times
<1>5. q = k
  BY <1>3, <1>4
<1> QED BY <1>1, <1>5, DivBounds

\* The highest bit, and the bit behind it, of a number of one more bit.
LEMMA Bits2 == ASSUME NEW z \in Sizes, NEW v \in Int, -Mod(z) <= v, v < 2 * Mod(z)
  PROVE /\ Half[z] \in Nat \ {0}
        /\ Mod(z) = 2 * Half[z]
        /\ Masked(z, v) = IF v < 0 THEN v + Mod(z) ELSE IF v < Mod(z) THEN v ELSE v - Mod(z)
        /\ NextBit(z, v) = IF v < 0 THEN 1 ELSE IF v < Mod(z) THEN 0 ELSE 1
        /\ Msb(z, v) = IF Masked(z, v) < Half[z] THEN 0 ELSE 1
<1>1. PICK h \in Nat \ {0} : h = Half[z]
  BY HalfAssumption
<1>2. Mod(z) = 2 * h
  BY <1>1 DEF Mod
<1>3. PICK m \in Nat \ {0} : m = 2 * h
  BY <1>1
<1>4. PICK k \in -2..3 : k * h <= v /\ v < k * h + h
  <2>1. CASE v < -h
    BY <1>2, <2>1
  <2>2. CASE -h <= v /\ v < 0
    BY <2>2
  <2>3. CASE 0 <= v /\ v < h
    BY <2>3
  <2>4. CASE h <= v /\ v < 2 * h
    BY <2>4
  <2>5. CASE 2 * h <= v /\ v < 3 * h
    BY <2>5
  <2>6. CASE 3 * h <= v
    BY <1>2, <2>6
  <2> QED BY <2>1, <2>2, <2>3, <2>4, <2>5, <2>6
<1>5. v \div h = k
  <2>1. k \in Int
    BY <1>4
  <2> QED BY <1>4, <2>1, DivIs, Zenon
<1>6. PICK j \in -1..1 : j * m <= v /\ v < j * m + m
  <2>1. CASE v < 0
    BY <1>2, <1>3, <2>1
  <2>2. CASE 0 <= v /\ v < m
    BY <2>2
  <2>3. CASE m <= v
    BY <1>2, <1>3, <2>3
  <2> QED BY <2>1, <2>2, <2>3, <1>3
<1>7. v \div m = j /\ v % m = v - j * m
  <2>1. j \in Int
    BY <1>6
  <2> QED BY <1>6, <2>1, DivIs, Zenon
<1>8. j = IF v < 0 THEN -1 ELSE IF v < m THEN 0 ELSE 1
  BY <1>6
<1>9. Masked(z, v) = v - j * m
  BY <1>2, <1>3, <1>7 DEF Masked
<1>10. NextBit(z, v) = j % 2
  BY <1>2, <1>3, <1>7 DEF NextBit
<1>11. Msb(z, v) = k % 2
  BY <1>1, <1>5 DEF Msb
<1>12. k = 2 * j + IF v - j * m < h THEN 0 ELSE 1
  BY <1>3, <1>4, <1>6
<1> QED BY <1>1, <1>2, <1>3, <1>8, <1>9, <1>10, <1>11, <1>12

\* The signed value of a number of size z.
LEMMA SignedValue == ASSUME NEW z \in Sizes, NEW v \in Range0(z)
  PROVE /\ Half[z] \in Nat \ {0} /\ Mod(z) = 2 * Half[z]
        /\ v \in Int /\ 0 <= v /\ v < Mod(z)
        /\ Masked(z, v) = v
        /\ Msb(z, v) = IF v < Half[z] THEN 0 ELSE 1
        /\ MakeInt(z, v) = IF v < Half[z] THEN v ELSE v - Mod(z)
<1>1. PICK h \in Nat \ {0} : h = Half[z]
  BY HalfAssumption
<1>2. Mod(z) = 2 * h
  BY <1>1 DEF Mod
<1>3. v \in Int /\ 0 <= v /\ v < Mod(z)
  BY <1>2 DEF Range0
<1>4. -Mod(z) <= v /\ v < 2 * Mod(z)
  BY <1>2, <1>3
<1>5. Masked(z, v) = v /\ Msb(z, v) = IF v < Half[z] THEN 0 ELSE 1
  BY <1>2, <1>3, <1>4, Bits2
<1> QED BY <1>1, <1>2, <1>3, <1>5 DEF MakeInt

\* ADD, ADDX and their forms (m68k_in.c's add and addx handlers, with the
\* CFLAG and VFLAG macros of m68kcpu.h): of every size, the value is the sum
\* cut to the size, C and X are the bit that was cut off, N is the sign and
\* V says that the signed sum does not fit.
THEOREM SumExact ==
  ASSUME NEW z \in Sizes, NEW s \in Range0(z), NEW d \in Range0(z), NEW x \in {0, 1}
  PROVE LET q == Sum(z, s, d, d + s + x)
            signed == MakeInt(z, s) + MakeInt(z, d) + x
        IN /\ q.v = IF d + s + x < Mod(z) THEN d + s + x ELSE d + s + x - Mod(z)
           /\ q.f.c = Bit(d + s + x >= Mod(z))
           /\ q.f.x = q.f.c
           /\ q.f.n = Bit(MakeInt(z, q.v) < 0)
           /\ q.f.z = Bit(q.v = 0)
           /\ q.f.v = Bit(signed \notin (-Half[z])..(Half[z] - 1))
<1>1. PICK h \in Nat \ {0} : h = Half[z] /\ Mod(z) = 2 * h
  BY SignedValue
<1>2. s \in Int /\ d \in Int /\ 0 <= s /\ s < 2 * h /\ 0 <= d /\ d < 2 * h
  BY <1>1, SignedValue
<1>3. PICK r \in Int : r = d + s + x
  BY <1>2
<1>4. 0 <= r /\ r < 4 * h
  BY <1>2, <1>3
<1>5. -Mod(z) <= r /\ r < 2 * Mod(z)
  BY <1>1, <1>4
<1>6. PICK v \in Int : v = IF r < 2 * h THEN r ELSE r - 2 * h
  BY <1>3
<1>7. Masked(z, r) = v /\ NextBit(z, r) = (IF r < 2 * h THEN 0 ELSE 1)
      /\ Msb(z, r) = (IF v < h THEN 0 ELSE 1)
  BY <1>1, <1>4, <1>5, <1>6, Bits2
<1>8. v \in Range0(z)
  BY <1>1, <1>4, <1>6 DEF Range0
<1>9. MakeInt(z, v) = IF v < h THEN v ELSE v - 2 * h
  BY <1>1, <1>8, SignedValue
<1>10. Msb(z, s) = (IF s < h THEN 0 ELSE 1) /\ MakeInt(z, s) = IF s < h THEN s ELSE s - 2 * h
  BY <1>1, SignedValue
<1>11. Msb(z, d) = (IF d < h THEN 0 ELSE 1) /\ MakeInt(z, d) = IF d < h THEN d ELSE d - 2 * h
  BY <1>1, SignedValue
<1>12. CarryAdd(z, s, d, r) = Bit(r >= 2 * h)
  BY <1>2, <1>3, <1>4, <1>6, <1>7, <1>10, <1>11 DEF CarryAdd, Bit
<1>13. OverflowAdd(z, s, d, r) = Bit(MakeInt(z, s) + MakeInt(z, d) + x \notin (-h)..(h - 1))
  BY <1>2, <1>3, <1>4, <1>6, <1>7, <1>10, <1>11 DEF OverflowAdd, Bit
<1>14. Msb(z, r) = Bit(MakeInt(z, v) < 0)
  BY <1>4, <1>6, <1>7, <1>9 DEF Bit
<1>15. Sum(z, s, d, r) = [v |-> v, f |-> [x |-> CarryAdd(z, s, d, r), n |-> Msb(z, r),
          z |-> Bit(v = 0),
                                       v |-> OverflowAdd(z, s, d, r), c |-> CarryAdd(z, s, d,
                                           r)]]
  BY <1>7 DEF Sum, Result
<1> QED BY <1>1, <1>2, <1>3, <1>6, <1>12, <1>13, <1>14, <1>15

\* SUB, SUBX, NEG, NEGX and the comparisons: the same of differences, where
\* C and X are the borrow.
THEOREM DifferenceExact ==
  ASSUME NEW z \in Sizes, NEW s \in Range0(z), NEW d \in Range0(z), NEW x \in {0, 1}
  PROVE LET q == Difference(z, s, d, d - s - x)
            signed == MakeInt(z, d) - MakeInt(z, s) - x
        IN /\ q.v = IF d - s - x < 0 THEN d - s - x + Mod(z) ELSE d - s - x
           /\ q.f.c = Bit(d - s - x < 0)
           /\ q.f.x = q.f.c
           /\ q.f.n = Bit(MakeInt(z, q.v) < 0)
           /\ q.f.z = Bit(q.v = 0)
           /\ q.f.v = Bit(signed \notin (-Half[z])..(Half[z] - 1))
<1>1. PICK h \in Nat \ {0} : h = Half[z] /\ Mod(z) = 2 * h
  BY SignedValue
<1>2. s \in Int /\ d \in Int /\ 0 <= s /\ s < 2 * h /\ 0 <= d /\ d < 2 * h
  BY <1>1, SignedValue
<1>3. PICK r \in Int : r = d - s - x
  BY <1>2
<1>4. -2 * h <= r /\ r < 2 * h
  BY <1>2, <1>3
<1>5. -Mod(z) <= r /\ r < 2 * Mod(z)
  BY <1>1, <1>4
<1>6. PICK v \in Int : v = IF r < 0 THEN r + 2 * h ELSE r
  BY <1>3
<1>7. Masked(z, r) = v /\ NextBit(z, r) = (IF r < 0 THEN 1 ELSE 0)
      /\ Msb(z, r) = (IF v < h THEN 0 ELSE 1)
  BY <1>1, <1>4, <1>5, <1>6, Bits2
<1>8. v \in Range0(z)
  BY <1>1, <1>4, <1>6 DEF Range0
<1>9. MakeInt(z, v) = IF v < h THEN v ELSE v - 2 * h
  BY <1>1, <1>8, SignedValue
<1>10. Msb(z, s) = (IF s < h THEN 0 ELSE 1) /\ MakeInt(z, s) = IF s < h THEN s ELSE s - 2 * h
  BY <1>1, SignedValue
<1>11. Msb(z, d) = (IF d < h THEN 0 ELSE 1) /\ MakeInt(z, d) = IF d < h THEN d ELSE d - 2 * h
  BY <1>1, SignedValue
<1>12. CarrySub(z, s, d, r) = Bit(r < 0)
  BY <1>2, <1>3, <1>4, <1>6, <1>7, <1>10, <1>11 DEF CarrySub, Bit
<1>13. OverflowSub(z, s, d, r) = Bit(MakeInt(z, d) - MakeInt(z, s) - x \notin (-h)..(h - 1))
  BY <1>2, <1>3, <1>4, <1>6, <1>7, <1>10, <1>11 DEF OverflowSub, Bit
<1>14. Msb(z, r) = Bit(MakeInt(z, v) < 0)
  BY <1>4, <1>6, <1>7, <1>9 DEF Bit
<1>15. Difference(z, s, d, r) = [v |-> v, f |-> [x |-> CarrySub(z, s, d, r), n |-> Msb(z, r),
          z |-> Bit(v = 0),
                                       v |-> OverflowSub(z, s, d, r), c |-> CarrySub(z, s, d,
                                           r)]]
  BY <1>7 DEF Difference, Result
<1> QED BY <1>1, <1>3, <1>6, <1>12, <1>13, <1>14, <1>15
-----------------------------------------------------------------------------
\* After CMP, CMPI, CMPA or CMPM the conditions of Bcc, DBcc and Scc say what
\* their names say of the operands, hi and cc of the unsigned values and ge
\* and gt of the signed ones, even where the difference overflows; the
\* operand and X are kept.
THEOREM ComparisonDecides ==
  ASSUME NEW z \in Sizes, NEW s \in Range0(z), NEW d \in Range0(z), NEW f \in Flags
  PROVE LET q == Cmp(z, f, s, d)
        IN /\ q.v = d /\ q.f.x = f.x
           /\ Condition("eq", q.f) <=> d = s
           /\ Condition("hi", q.f) <=> d > s
           /\ Condition("cc", q.f) <=> d >= s
           /\ Condition("ge", q.f) <=> MakeInt(z, d) >= MakeInt(z, s)
           /\ Condition("gt", q.f) <=> MakeInt(z, d) > MakeInt(z, s)
<1>1. PICK h \in Nat \ {0} : h = Half[z] /\ Mod(z) = 2 * h
  BY SignedValue
<1>2. s \in Int /\ d \in Int /\ 0 <= s /\ s < 2 * h /\ 0 <= d /\ d < 2 * h
  BY <1>1, SignedValue
<1>3. PICK a \in Int : a = MakeInt(z, d) /\ a = IF d < h THEN d ELSE d - 2 * h
  BY <1>1, <1>2, SignedValue
<1>4. PICK b \in Int : b = MakeInt(z, s) /\ b = IF s < h THEN s ELSE s - 2 * h
  BY <1>1, <1>2, SignedValue
<1>5. PICK q : q = Difference(z, s, d, d - s - 0)
  OBVIOUS
<1>6. d - s = d - s - 0
  BY <1>2
<1>7. /\ q.v = (IF d - s - 0 < 0 THEN d - s - 0 + Mod(z) ELSE d - s - 0)
      /\ q.f.c = Bit(d - s - 0 < 0)
      /\ q.f.n = Bit(MakeInt(z, q.v) < 0)
      /\ q.f.z = Bit(q.v = 0)
      /\ q.f.v = Bit(MakeInt(z, d) - MakeInt(z, s) - 0 \notin -Half[z]..(Half[z] - 1))
  <2>1. 0 \in {0, 1}
    OBVIOUS
  <2> QED BY <1>5, <2>1, DifferenceExact, Zenon
<1>8. PICK v : v = q.v
  OBVIOUS
<1>9. v = (IF d < s THEN d - s + 2 * h ELSE d - s) /\ q.f.c = Bit(d < s)
  BY <1>1, <1>2, <1>7, <1>8 DEF Bit
<1>10. q.f.v = Bit(a - b \notin -h..(h - 1))
  <2>1. MakeInt(z, d) - MakeInt(z, s) - 0 = a - b
    BY <1>3, <1>4
  <2>2. -Half[z]..(Half[z] - 1) = -h..(h - 1)
    BY <1>1
  <2> QED BY <1>7, <2>1, <2>2, Zenon
<1>11. v \in Range0(z)
  BY <1>1, <1>2, <1>9 DEF Range0
<1>12. MakeInt(z, v) = IF v < h THEN v ELSE v - 2 * h
  BY <1>1, <1>11, SignedValue
<1>13. Cmp(z, f, s, d) = [v |-> d, f |-> [q.f EXCEPT !.x = f.x]]
  BY <1>5, <1>6 DEF Cmp, Result
<1>14. q.f = [x |-> q.f.x, n |-> q.f.n, z |-> q.f.z, v |-> q.f.v, c |-> q.f.c]
  BY <1>5 DEF Difference, Result
<1>15. PICK g : g = Cmp(z, f, s, d).f
  OBVIOUS
<1>16. g.x = f.x /\ g.n = q.f.n /\ g.z = q.f.z /\ g.v = q.f.v /\ g.c = q.f.c
  BY <1>13, <1>14, <1>15
<1>17. (g.z = 1 <=> d = s) /\ (g.z = 0 <=> d # s)
  BY <1>1, <1>2, <1>7, <1>8, <1>9, <1>16 DEF Bit
<1>18. g.c = 0 <=> d >= s
  BY <1>2, <1>9, <1>16 DEF Bit
<1>19. g.n = g.v <=> a >= b
  BY <1>1, <1>2, <1>3, <1>4, <1>7, <1>8, <1>9, <1>10, <1>11, <1>12, <1>16 DEF Bit
<1>20. a = b <=> d = s
  BY <1>2, <1>3, <1>4
<1>21. /\ Condition("eq", g) <=> g.z = 1
       /\ Condition("hi", g) <=> g.c = 0 /\ g.z = 0
       /\ Condition("cc", g) <=> g.c = 0
       /\ Condition("ge", g) <=> g.n = g.v
       /\ Condition("gt", g) <=> g.n = g.v /\ g.z = 0
  BY DEF Condition
<1> QED BY <1>2, <1>3, <1>4, <1>13, <1>15, <1>16, <1>17, <1>18, <1>19, <1>20, <1>21

\* A number of any length is added part by part with ADDX.  When the parts so
\* far, worth base, hold their sum with X as the carry, so they do with one
\* part more, and Z stays set only while every part is zero.
THEOREM ChainCarries ==
  ASSUME NEW z \in Sizes, NEW s \in Range0(z), NEW d \in Range0(z), NEW f \in Flags,
         NEW base \in Nat, NEW low \in Int, NEW sl \in Int, NEW dl \in Int, NEW x \in Int,
         low + f.x * base = dl + sl + x
  PROVE LET q == AddX(z, f, s, d)
        IN /\ low + q.v * base + q.f.x * (Mod(z) * base) = (dl + d * base) + (sl + s * base) + x
           /\ q.f.z = 1 <=> f.z = 1 /\ q.v = 0
<1>1. PICK m \in Nat : m = Mod(z)
  BY SignedValue
<1>2. s \in Int /\ d \in Int /\ f.x \in {0, 1}
  BY SignedValue DEF Flags
<1>3. PICK p : p = Sum(z, s, d, d + s + f.x)
  OBVIOUS
<1>4. p.v = (IF d + s + f.x < m THEN d + s + f.x ELSE d + s + f.x - m)
      /\ p.f.x = Bit(d + s + f.x >= m) /\ p.f.z = Bit(p.v = 0)
  BY <1>1, <1>2, <1>3, SumExact
<1>5. p = [v |-> p.v, f |-> [x |-> p.f.x, n |-> p.f.n, z |-> p.f.z, v |-> p.f.v, c |-> p.f.c]]
  BY <1>3 DEF Sum, Result
<1>6. PICK q : q = AddX(z, f, s, d)
  OBVIOUS
<1>7. q = [p EXCEPT !.f.z = Bit(f.z = 1 /\ p.f.z = 1)]
  BY <1>3, <1>6 DEF AddX, Chained
<1>8. q.v = p.v /\ q.f.x = p.f.x /\ q.f.z = Bit(f.z = 1 /\ p.f.z = 1)
  BY <1>5, <1>7
<1>9. PICK c \in {0, 1} : c = q.f.x
  BY <1>4, <1>8 DEF Bit
<1>10. PICK v \in Int : v = q.v
  BY <1>1, <1>2, <1>4, <1>8
<1>11. v + c * m = d + s + f.x
  BY <1>1, <1>2, <1>4, <1>8, <1>9, <1>10 DEF Bit
<1>12. v * base + c * (m * base) = d * base + s * base + f.x * base
  <2>1. PICK x1 \in {0, 1}, e \in Int : x1 = f.x /\ e = c * m
    BY <1>1, <1>2, <1>9
  <2>2. v + e = d + s + x1
    BY <1>11, <2>1
  <2>3. (v + e) * base = (d + s + x1) * base
    BY <2>2
  <2>4. (v + e) * base = v * base + e * base
    BY <1>10, <2>1, Distribute
  <2>5. (d + s + x1) * base = (d + s) * base + x1 * base
    BY <1>2, <2>1, Distribute
  <2>6. (d + s) * base = d * base + s * base
    BY <1>2, Distribute
  <2>7. e * base = c * (m * base)
    BY <1>1, <1>9, <2>1
  <2> QED BY <2>1, <2>3, <2>4, <2>5, <2>6, <2>7
<1>13. q.f.z = 1 <=> f.z = 1 /\ q.v = 0
  BY <1>4, <1>8 DEF Bit
<1>14. low + v * base + c * (m * base) = (dl + d * base) + (sl + s * base) + x
  <2>1. /\ v * base \in Int /\ c * (m * base) \in Int
        /\ d * base \in Int /\ s * base \in Int /\ f.x * base \in Int
    BY <1>2
  <2> QED BY <1>12, <2>1
<1> QED BY <1>1, <1>6, <1>9, <1>10, <1>13, <1>14

\* The same of SUBX and the borrow.
THEOREM ChainBorrows ==
  ASSUME NEW z \in Sizes, NEW s \in Range0(z), NEW d \in Range0(z), NEW f \in Flags,
         NEW base \in Nat, NEW low \in Int, NEW sl \in Int, NEW dl \in Int, NEW x \in Int,
         low - f.x * base = dl - sl - x
  PROVE LET q == SubX(z, f, s, d)
        IN /\ low + q.v * base - q.f.x * (Mod(z) * base) = (dl + d * base) - (sl + s * base) - x
           /\ q.f.z = 1 <=> f.z = 1 /\ q.v = 0
<1>1. PICK m \in Nat : m = Mod(z)
  BY SignedValue
<1>2. s \in Int /\ d \in Int /\ f.x \in {0, 1}
  BY SignedValue DEF Flags
<1>3. PICK p : p = Difference(z, s, d, d - s - f.x)
  OBVIOUS
<1>4. p.v = (IF d - s - f.x < 0 THEN d - s - f.x + m ELSE d - s - f.x)
      /\ p.f.x = Bit(d - s - f.x < 0) /\ p.f.z = Bit(p.v = 0)
  <2>1. /\ p.v = IF d - s - f.x < 0 THEN d - s - f.x + Mod(z) ELSE d - s - f.x
        /\ p.f.x = p.f.c /\ p.f.c = Bit(d - s - f.x < 0) /\ p.f.z = Bit(p.v = 0)
    BY <1>2, <1>3, DifferenceExact, Zenon
  <2> QED BY <1>1, <2>1
<1>5. p = [v |-> p.v, f |-> [x |-> p.f.x, n |-> p.f.n, z |-> p.f.z, v |-> p.f.v, c |-> p.f.c]]
  BY <1>3 DEF Difference, Result
<1>6. PICK q : q = SubX(z, f, s, d)
  OBVIOUS
<1>7. q = [p EXCEPT !.f.z = Bit(f.z = 1 /\ p.f.z = 1)]
  BY <1>3, <1>6 DEF SubX, Chained
<1>8. q.v = p.v /\ q.f.x = p.f.x /\ q.f.z = Bit(f.z = 1 /\ p.f.z = 1)
  BY <1>5, <1>7
<1>9. PICK c \in {0, 1} : c = q.f.x
  BY <1>4, <1>8 DEF Bit
<1>10. PICK v \in Int : v = q.v
  BY <1>1, <1>2, <1>4, <1>8
<1>11. v - c * m = d - s - f.x
  BY <1>1, <1>2, <1>4, <1>8, <1>9, <1>10 DEF Bit
<1>12. v * base - c * (m * base) = d * base - s * base - f.x * base
  <2>1. PICK x1 \in {0, 1}, e \in Int : x1 = f.x /\ e = c * m
    BY <1>1, <1>2, <1>9
  <2>2. v - e = d - s - x1
    BY <1>11, <2>1
  <2>3. (v - e) * base = (d - s - x1) * base
    BY <2>2
  <2>4. (v - e) * base = v * base - e * base
    BY <1>10, <2>1, Distribute
  <2>5. (d - s - x1) * base = (d - s) * base - x1 * base
    BY <1>2, <2>1, Distribute
  <2>6. (d - s) * base = d * base - s * base
    BY <1>2, Distribute
  <2>7. e * base = c * (m * base)
    BY <1>1, <1>9, <2>1
  <2> QED BY <2>1, <2>3, <2>4, <2>5, <2>6, <2>7
<1>13. q.f.z = 1 <=> f.z = 1 /\ q.v = 0
  BY <1>4, <1>8 DEF Bit
<1>14. low + v * base - c * (m * base) = (dl + d * base) - (sl + s * base) - x
  <2>1. /\ v * base \in Int /\ c * (m * base) \in Int
        /\ d * base \in Int /\ s * base \in Int /\ f.x * base \in Int
    BY <1>2
  <2> QED BY <1>12, <2>1
<1> QED BY <1>1, <1>6, <1>9, <1>10, <1>13, <1>14

-----------------------------------------------------------------------------
(* Induction, the powers of two and the sizes.                               *)

\* A set of numbers that is not empty has a least one, and what follows.
LEMMA Least == ASSUME NEW T \in SUBSET Nat, T # {}
  PROVE \E x \in T : \A y \in T : x <= y
<1>1. PICK x \in T : \A y \in T : ~ (<<y, x>> \in OpToRel(<, Nat))
  BY NatLessThanWellFounded, WFMin
<1>2. \A y \in T : ~(y < x)
  BY <1>1 DEF OpToRel
<1> QED BY <1>2

\* What holds at 0 and, with a number, at the next one, holds at every number.  The set stands
\* for the predicate.
LEMMA Induction ==
  ASSUME NEW T, 0 \in T, \A n \in Nat : n \in T => n + 1 \in T
  PROVE  Nat \subseteq T
<1> SUFFICES ASSUME Nat \ T # {} PROVE FALSE
  OBVIOUS
<1>1. PICK x \in Nat \ T : \A y \in Nat \ T : x <= y
  BY Least
<1>2. x # 0 /\ x - 1 \in Nat
  BY <1>1
<1>3. x - 1 \in T
  BY <1>1, <1>2
<1>4. x - 1 + 1 \in T
  BY <1>2, <1>3
<1> QED BY <1>1, <1>4

\* The powers of two: their recursion has a solution, so Pow2 is one.
IsPow2(g, n) == g = [k \in 0..n |-> IF k = 0 THEN 1 ELSE 2 * g[k - 1]]

\* The recursion of Pow2 has a solution up to every bound.
LEMMA Pow2Below == \A n \in Nat : \E g : IsPow2(g, n)
<1> DEFINE T == {n \in Nat : \E g : IsPow2(g, n)}
<1>1. 0 \in T
  <2>1. IsPow2([k \in 0..0 |-> 1], 0)
    BY DEF IsPow2
  <2> QED BY <2>1
<1>2. ASSUME NEW n \in Nat, n \in T PROVE n + 1 \in T
  <2>1. PICK g : IsPow2(g, n)
    BY <1>2
  <2>2. PICK h : h = [k \in 0..(n + 1) |-> IF k = n + 1 THEN 2 * g[n] ELSE g[k]]
    OBVIOUS
  <2>3. ASSUME NEW k \in 0..(n + 1) PROVE h[k] = IF k = 0 THEN 1 ELSE 2 * h[k - 1]
    BY <2>1, <2>2 DEF IsPow2
  <2>4. IsPow2(h, n + 1)
    BY <2>2, <2>3 DEF IsPow2
  <2> QED BY <2>4
<1> HIDE DEF T
<1>3. Nat \subseteq T
  BY <1>1, <1>2, Induction
<1> QED BY <1>3 DEF T

\* Two solutions agree as far as the shorter one goes.
LEMMA Pow2Unique ==
  ASSUME NEW m \in Nat, NEW n \in Nat, m <= n, NEW g, NEW h, IsPow2(g, m), IsPow2(h, n)
  PROVE  \A k \in 0..m : g[k] = h[k]
<1> DEFINE T == {k \in Nat : k <= m => g[k] = h[k]}
<1>1. 0 \in T
  BY DEF IsPow2
<1>2. ASSUME NEW k \in Nat, k \in T PROVE k + 1 \in T
  BY <1>2 DEF IsPow2
<1> HIDE DEF T
<1>3. Nat \subseteq T
  BY <1>1, <1>2, Induction
<1> QED BY <1>3 DEF T

\* So Pow2 is what its recursion says.
LEMMA Pow2Def == \A n \in Nat : Pow2[n] = IF n = 0 THEN 1 ELSE 2 * Pow2[n - 1]
<1> DEFINE G(n) == CHOOSE g : IsPow2(g, n)
<1>1. \A n \in Nat : IsPow2(G(n), n)
  BY Pow2Below
<1>2. PICK f : f = [n \in Nat |-> G(n)[n]]
  OBVIOUS
<1> HIDE DEF G
<1>3. ASSUME NEW n \in Nat PROVE f[n] = IF n = 0 THEN 1 ELSE 2 * f[n - 1]
  <2>1. CASE n = 0
    <3>1. G(0)[0] = 1
      BY <1>1 DEF IsPow2
    <3> QED BY <1>2, <2>1, <3>1
  <2>2. CASE n # 0
    <3>1. n - 1 \in Nat
      BY <2>2
    <3>2. G(n)[n] = 2 * G(n)[n - 1]
      BY <1>1, <2>2 DEF IsPow2
    <3>3. G(n - 1)[n - 1] = G(n)[n - 1]
      BY <1>1, <3>1, Pow2Unique
    <3> QED BY <1>2, <2>2, <3>1, <3>2, <3>3
  <2> QED BY <2>1, <2>2
<1>4. f = [n \in Nat |-> IF n = 0 THEN 1 ELSE 2 * f[n - 1]]
  BY <1>2, <1>3, Zenon
<1>5. Pow2 = [n \in Nat |-> IF n = 0 THEN 1 ELSE 2 * Pow2[n - 1]]
  BY <1>4, Zenon DEF Pow2
<1> QED BY <1>5, Zenon

\* A power of two is a positive number.
LEMMA Pow2Type == \A n \in Nat : Pow2[n] \in Nat \ {0}
<1> DEFINE T == {n \in Nat : Pow2[n] \in Nat \ {0}}
<1>1. 0 \in T
  BY Pow2Def
<1>2. ASSUME NEW n \in Nat, n \in T PROVE n + 1 \in T
  BY <1>2, Pow2Def
<1> HIDE DEF T
<1>3. Nat \subseteq T
  BY <1>1, <1>2, Induction
<1> QED BY <1>3 DEF T

\* The recursion from below.
LEMMA Pow2Step == ASSUME NEW n \in Nat
  PROVE  Pow2[0] = 1 /\ Pow2[n + 1] = 2 * Pow2[n] /\ Pow2[n] \in Nat \ {0}
         /\ Pow2[n + 1] \in Nat \ {0}
BY Pow2Def, Pow2Type

\* The power of a sum is the product of the powers.
LEMMA Pow2Sum == ASSUME NEW m \in Nat, NEW n \in Nat
  PROVE  Pow2[m + n] = Pow2[m] * Pow2[n]
<1> DEFINE T == {k \in Nat : Pow2[m + k] = Pow2[m] * Pow2[k]}
<1>1. 0 \in T
  BY Pow2Step
<1>2. ASSUME NEW k \in Nat, k \in T PROVE k + 1 \in T
  <2>1. Pow2[m + (k + 1)] = 2 * Pow2[m + k]
    <3>1. m + (k + 1) = (m + k) + 1 /\ m + k \in Nat
      OBVIOUS
    <3> QED BY <3>1, Pow2Step
  <2>2. Pow2[k + 1] = 2 * Pow2[k] /\ Pow2[k] \in Int /\ Pow2[m] \in Int
    BY Pow2Step
  <2>3. Pow2[m] * (2 * Pow2[k]) = 2 * (Pow2[m] * Pow2[k])
    BY <2>2
  <2> QED BY <1>2, <2>1, <2>2, <2>3
<1> HIDE DEF T
<1>3. Nat \subseteq T
  BY <1>1, <1>2, Induction
<1> QED BY <1>3 DEF T

\* The sizes in numbers: Half is half the values, Bits the width, and a word is two bytes, a
\* long two words wide.
LEMMA Widths ==
  /\ ByteBits \in Nat \ {0}
  /\ \A z \in Sizes : /\ Half[z] \in Nat \ {0} /\ Mod(z) = 2 * Half[z] /\ Mod(z) \in Nat \ {0}
                      /\ Bits(z) \in Nat \ {0} /\ Mod(z) = Pow2[Bits(z)]
                      /\ Half[z] = Pow2[Bits(z) - 1]
  /\ Mod(2) = Mod(1) * Mod(1) /\ Mod(4) = Mod(2) * Mod(2)
<1>1. ByteBits \in Nat \ {0}
  BY WidthAssumption
<1>2. ASSUME NEW z \in Sizes
      PROVE  /\ Half[z] \in Nat \ {0} /\ Mod(z) = 2 * Half[z] /\ Mod(z) \in Nat \ {0}
             /\ Bits(z) \in Nat \ {0} /\ Mod(z) = Pow2[Bits(z)]
             /\ Half[z] = Pow2[Bits(z) - 1]
  <2>1. PICK h \in Nat \ {0} : h = Half[z]
    BY HalfAssumption
  <2>2. PICK b \in Nat \ {0} : b = Bits(z)
    BY <1>1 DEF Bits, Sizes
  <2>3. Mod(z) = 2 * h /\ Mod(z) = Pow2[b]
    BY <2>1, <2>2, WidthAssumption DEF Mod
  <2>4. Pow2[b] = 2 * Pow2[b - 1] /\ Pow2[b - 1] \in Nat \ {0}
    BY Pow2Def, Pow2Type
  <2> QED BY <2>1, <2>2, <2>3, <2>4
<1>3. Mod(1) = Pow2[ByteBits] /\ Mod(2) = Pow2[2 * ByteBits] /\ Mod(4) = Pow2[4 * ByteBits]
  BY WidthAssumption, <1>1 DEF Sizes, Bits
<1>4. 2 * ByteBits = ByteBits + ByteBits /\ 4 * ByteBits = 2 * ByteBits + 2 * ByteBits
      /\ 2 * ByteBits \in Nat
  BY <1>1
<1>5. Mod(2) = Mod(1) * Mod(1) /\ Mod(4) = Mod(2) * Mod(2)
  BY <1>1, <1>3, <1>4, Pow2Sum
<1> QED BY <1>1, <1>2, <1>5

-----------------------------------------------------------------------------
(* What an operation leaves behind fits its size: the arithmetic.            *)

\* The number with given bits is below the power of their number.
IsNumber(low, n, bit) ==
  low = [k \in 0..n |-> IF k = 0 THEN 0 ELSE low[k - 1] + bit[k - 1] * Pow2[k - 1]]

\* A number put together from n bits is below the n-th power of two.
LEMMA NumberBelowPower ==
  ASSUME NEW n \in Nat, NEW bit \in [0..(n - 1) -> {0, 1}]
  PROVE  Number2(n, bit) \in 0..(Pow2[n] - 1)
<1> DEFINE T == {m \in Nat : m <= n => \E low : IsNumber(low, m, bit)}
<1>1. 0 \in T
  <2>1. IsNumber([k \in 0..0 |-> 0], 0, bit)
    BY DEF IsNumber
  <2> QED BY <2>1
<1>2. ASSUME NEW m \in Nat, m \in T PROVE m + 1 \in T
  <2> SUFFICES ASSUME m + 1 <= n PROVE \E low : IsNumber(low, m + 1, bit)
    OBVIOUS
  <2>1. PICK g : IsNumber(g, m, bit)
    BY <1>2
  <2>2. PICK h : h = [k \in 0..(m + 1) |-> IF k = m + 1 THEN g[m] + bit[m] * Pow2[m] ELSE g[k]]
    OBVIOUS
  <2>3. ASSUME NEW k \in 0..(m + 1)
        PROVE  h[k] = IF k = 0 THEN 0 ELSE h[k - 1] + bit[k - 1] * Pow2[k - 1]
    BY <2>1, <2>2 DEF IsNumber
  <2>4. IsNumber(h, m + 1, bit)
    BY <2>2, <2>3 DEF IsNumber
  <2> QED BY <2>4
<1> HIDE DEF T
<1>3. Nat \subseteq T
  BY <1>1, <1>2, Induction
<1>4. \E low : IsNumber(low, n, bit)
  BY <1>3 DEF T
<1>5. PICK low : IsNumber(low, n, bit) /\ Number2(n, bit) = low[n]
  <2>1. PICK c : c = CHOOSE low : IsNumber(low, n, bit)
    OBVIOUS
  <2>2. IsNumber(c, n, bit)
    BY <1>4, <2>1
  <2>3. Number2(n, bit) = c[n]
    BY <2>1, Zenon DEF Number2, IsNumber
  <2> QED BY <2>2, <2>3
<1> DEFINE U == {m \in Nat : m <= n => low[m] \in 0..(Pow2[m] - 1)}
<1>6. 0 \in U
  BY <1>5, Pow2Step DEF IsNumber
<1>7. ASSUME NEW m \in Nat, m \in U PROVE m + 1 \in U
  <2> SUFFICES ASSUME m + 1 <= n PROVE low[m + 1] \in 0..(Pow2[m + 1] - 1)
    OBVIOUS
  <2>1. low[m + 1] = low[m] + bit[m] * Pow2[m]
    BY <1>5 DEF IsNumber
  <2>2. low[m] \in 0..(Pow2[m] - 1) /\ bit[m] \in {0, 1}
    BY <1>7
  <2>3. Pow2[m] \in Nat /\ Pow2[m + 1] = 2 * Pow2[m]
    BY Pow2Step
  <2>4. bit[m] * Pow2[m] \in {0, Pow2[m]}
    BY <2>2, <2>3
  <2> QED BY <2>1, <2>2, <2>3, <2>4
<1> HIDE DEF U
<1>8. Nat \subseteq U
  BY <1>6, <1>7, Induction
<1> QED BY <1>5, <1>8 DEF U

-----------------------------------------------------------------------------
\* Types.  What an operation leaves behind fits its size.
Typed(z, q) == q.v \in Range0(z) /\ q.f \in Flags

\* A remainder is below what it is a remainder of.
LEMMA Remainder == ASSUME NEW v \in Int, NEW h \in Nat \ {0}
  PROVE  v % h \in 0..(h - 1)
OBVIOUS

\* A quotient is no greater than what is divided.
LEMMA Part == ASSUME NEW v \in Nat, NEW h \in Nat \ {0}
  PROVE  v \div h \in 0..v
<1>1. PICK q \in Int : q = v \div h
  BY DivBounds
<1>2. q * h <= v /\ v < q * h + h
  BY <1>1, DivBounds
<1>3. 0 <= q
  <2>1. ~(q <= -1)
    <3>1. q <= -1 => q * h <= (-1) * h
      BY Times
    <3> QED BY <1>2, <3>1
  <2> QED BY <2>1
<1>4. q <= q * h
  BY <1>3, Times
<1> QED BY <1>1, <1>2, <1>3, <1>4

\* MASK_OUT_ABOVE leaves a value of the size, whatever int it is given.
LEMMA MaskedRange == ASSUME NEW z \in Sizes, NEW v \in Int PROVE Masked(z, v) \in Range0(z)
BY Widths, Remainder DEF Masked, Range0

\* and leaves a value of the size alone.
LEMMA MaskedSame == ASSUME NEW z \in Sizes, NEW v \in Range0(z)
  PROVE Masked(z, v) = v /\ v \in Nat
BY SignedValue

\* The highest bit is a bit.
LEMMA MsbBit == ASSUME NEW z \in Sizes, NEW v \in Int PROVE Msb(z, v) \in {0, 1}
<1>1. PICK h \in Nat \ {0} : h = Half[z]
  BY Widths
<1>2. v \div h \in Int
  BY DivBounds
<1> QED BY <1>1, <1>2 DEF Msb

\* Any bit is a bit.
LEMMA BitOfBit == ASSUME NEW v \in Int, NEW b \in Nat PROVE BitOf(v, b) \in {0, 1}
<1>1. PICK h \in Nat \ {0} : h = Pow2[b]
  BY Pow2Type
<1>2. v \div h \in Int
  BY DivBounds
<1> QED BY <1>1, <1>2 DEF BitOf

\* MAKE_INT_8 and MAKE_INT_16 give a signed value of the size.
LEMMA MakeIntType == ASSUME NEW z \in Sizes, NEW v \in Int
  PROVE MakeInt(z, v) \in Int /\ -Half[z] <= MakeInt(z, v) /\ MakeInt(z, v) < Half[z]
<1>1. PICK u \in Range0(z) : u = Masked(z, v)
  BY MaskedRange
<1> QED BY <1>1, Widths DEF MakeInt, Range0

\* The sign extension gives a long.
LEMMA ExtendedType == ASSUME NEW z \in Sizes, NEW v \in Int PROVE Extended(z, v) \in Range0(4)
BY MakeIntType, MaskedRange DEF Extended, Sizes

\* A truth as a bit.
LEMMA BitType == ASSUME NEW c PROVE Bit(c) \in {0, 1}
BY DEF Bit

\* The flags of a logical result: the result is the value itself, X stays.
LEMMA LogicalTyped ==
  ASSUME NEW z \in Sizes, NEW f \in Flags, NEW v \in Range0(z)
  PROVE  Typed(z, Logical(z, f, v)) /\ Logical(z, f, v).v = v /\ Logical(z, f, v).f.x = f.x
<1>1. v \in Int
  BY MaskedSame
<1> QED BY <1>1, MsbBit DEF Typed, Logical, Result, Bit, Flags

\* The flags and the result of an addition and a subtraction are some, whatever is added.
LEMMA SumTyped ==
  ASSUME NEW z \in Sizes, NEW s \in Int, NEW d \in Int, NEW r \in Int
  PROVE  Typed(z, Sum(z, s, d, r)) /\ Typed(z, Difference(z, s, d, r))
<1>1. CarryAdd(z, s, d, r) \in {0, 1} /\ CarrySub(z, s, d, r) \in {0, 1}
  <2>1. NextBit(z, r) \in {0, 1}
    <3>1. PICK m \in Nat \ {0} : m = Mod(z)
      BY Widths
    <3>2. r \div m \in Int
      BY DivBounds
    <3> QED BY <3>1, <3>2 DEF NextBit
  <2> QED BY <2>1 DEF CarryAdd, CarrySub, Bit
<1>2. OverflowAdd(z, s, d, r) \in {0, 1} /\ OverflowSub(z, s, d, r) \in {0, 1}
  BY DEF OverflowAdd, OverflowSub, Bit
<1>3. Masked(z, r) \in Range0(z) /\ Msb(z, r) \in {0, 1}
  BY MaskedRange, MsbBit
<1> QED BY <1>1, <1>2, <1>3 DEF Typed, Sum, Difference, Result, Flags, Bit

\* The zero flag of addx, subx and negx is a flag.
LEMMA ChainedTyped == ASSUME NEW z \in Sizes, NEW f, NEW q, Typed(z, q),
                             q = [v |-> q.v, f |-> q.f]
  PROVE  Typed(z, Chained(f, q))
BY DEF Typed, Chained, Flags, Bit

\* Additions, subtractions and comparisons leave a value of the size and flags; cmp keeps X.
LEMMA BinaryTyped ==
  ASSUME NEW z \in Sizes, NEW f \in Flags, NEW s \in Range0(z), NEW d \in Range0(z)
  PROVE  /\ Typed(z, Add(z, f, s, d)) /\ Typed(z, Sub(z, f, s, d))
         /\ Typed(z, AddX(z, f, s, d)) /\ Typed(z, SubX(z, f, s, d))
         /\ Typed(z, Cmp(z, f, s, d)) /\ Cmp(z, f, s, d).f.x = f.x
         /\ Typed(z, Neg(z, f, d)) /\ Typed(z, NegX(z, f, d))
<1>1. s \in Int /\ d \in Int /\ f.x \in Int
  BY MaskedSame DEF Flags
<1>2. /\ d + s \in Int /\ d - s \in Int /\ d + s + f.x \in Int /\ d - s - f.x \in Int
      /\ 0 - d \in Int /\ 0 - d - f.x \in Int
  BY <1>1
<1>3. /\ Typed(z, Add(z, f, s, d)) /\ Typed(z, Sub(z, f, s, d)) /\ Typed(z, Neg(z, f, d))
  BY <1>1, <1>2, SumTyped DEF Add, Sub, Neg
<1>4. Typed(z, AddX(z, f, s, d))
  <2>1. PICK q : q = Sum(z, s, d, d + s + f.x)
    OBVIOUS
  <2>2. Typed(z, q) /\ q = [v |-> q.v, f |-> q.f]
    BY <1>1, <1>2, <2>1, SumTyped DEF Sum, Result
  <2> QED BY <2>1, <2>2, ChainedTyped DEF AddX
<1>5. Typed(z, SubX(z, f, s, d))
  <2>1. PICK q : q = Difference(z, s, d, d - s - f.x)
    OBVIOUS
  <2>2. Typed(z, q) /\ q = [v |-> q.v, f |-> q.f]
    BY <1>1, <1>2, <2>1, SumTyped DEF Difference, Result
  <2> QED BY <2>1, <2>2, ChainedTyped DEF SubX
<1>6. Typed(z, NegX(z, f, d))
  <2>1. PICK q : q = Difference(z, d, 0, 0 - d - f.x)
    OBVIOUS
  <2>2. Typed(z, q) /\ q = [v |-> q.v, f |-> q.f]
    BY <1>1, <1>2, <2>1, SumTyped DEF Difference, Result
  <2> QED BY <2>1, <2>2, ChainedTyped DEF NegX
<1>7. Typed(z, Cmp(z, f, s, d)) /\ Cmp(z, f, s, d).f.x = f.x
  <2>1. PICK q : q = Difference(z, s, d, d - s)
    OBVIOUS
  <2>2. Typed(z, q)
    BY <1>1, <1>2, <2>1, SumTyped
  <2> QED BY <2>1, <2>2 DEF Cmp, Typed, Result, Flags
<1> QED BY <1>3, <1>4, <1>5, <1>6, <1>7

-----------------------------------------------------------------------------
(* Longs put together from words, and decimal digits.                        *)

\* Two digits make a number of two digits.
LEMMA TwoDigits == ASSUME NEW m \in Nat \ {0}, NEW n \in Nat \ {0},
                          NEW a \in 0..(m - 1), NEW b \in 0..(n - 1)
  PROVE  a * n + b \in 0..(m * n - 1)
<1>1. a * n <= (m - 1) * n /\ 0 * n <= a * n
  BY Times
<1>2. (m - 1) * n = m * n - n /\ a * n \in Int /\ m * n \in Int
  OBVIOUS
<1> QED BY <1>1, <1>2

\* A number of two digits has a high and a low one.
LEMMA HighDigit == ASSUME NEW m \in Nat \ {0}, NEW n \in Nat \ {0}, NEW v \in 0..(m * n - 1)
  PROVE  v \div n \in 0..(m - 1) /\ v = (v \div n) * n + (v % n)
<1>1. v \in Int /\ m * n \in Int
  OBVIOUS
<1>2. PICK q \in Int : q = v \div n
  BY <1>1, DivBounds
<1>3. q * n <= v /\ v < q * n + n /\ v % n = v - q * n
  BY <1>1, <1>2, DivBounds
<1>4. ~(q <= -1)
  <2>1. q <= -1 => q * n <= (-1) * n
    BY Times
  <2> QED BY <1>3, <2>1
<1>5. ~(m <= q)
  <2>1. m <= q => m * n <= q * n
    BY Times
  <2> QED BY <1>1, <1>3, <2>1
<1> QED BY <1>2, <1>3, <1>4, <1>5

\* ext leaves a value of its size and keeps X.
LEMMA ExtTyped ==
  ASSUME NEW z \in {2, 4}, NEW f \in Flags, NEW d \in Range0(z)
  PROVE  Typed(z, Ext(z, f, d)) /\ Ext(z, f, d).f.x = f.x
<1>1. z \div 2 \in Sizes /\ z \in Sizes
  BY DEF Sizes
<1>2. d \in Int
  BY <1>1, MaskedSame
<1>3. Masked(z, MakeInt(z \div 2, d)) \in Range0(z)
  BY <1>1, <1>2, MakeIntType, MaskedRange
<1> QED BY <1>1, <1>3, LogicalTyped DEF Ext

\* swap leaves a long and keeps X.
LEMMA SwapTyped ==
  ASSUME NEW f \in Flags, NEW d \in Range0(4)
  PROVE  Typed(4, Swap(4, f, d)) /\ Swap(4, f, d).f.x = f.x
<1>1. PICK m \in Nat \ {0} : m = Mod(2) /\ Mod(4) = m * m
  BY Widths DEF Sizes
<1>2. d \in 0..(m * m - 1) /\ d \in Int
  BY <1>1, MaskedSame DEF Range0, Sizes
<1>3. d \div m \in 0..(m - 1)
  BY <1>2, HighDigit
<1>4. d % m \in 0..(m - 1)
  BY <1>2, Remainder
<1>5. (d % m) * m + d \div m \in 0..(m * m - 1)
  BY <1>3, <1>4, TwoDigits
<1>6. (d % Mod(2)) * Mod(2) + d \div Mod(2) \in Range0(4)
  BY <1>1, <1>5 DEF Range0
<1>7. 4 \in Sizes
  BY DEF Sizes
<1> QED BY <1>6, <1>7, LogicalTyped DEF Swap

\* The long a division composes is one, whatever its quotient and remainder.
LEMMA QuotientTyped ==
  ASSUME NEW f \in Flags, NEW q \in Int, NEW r \in Int
  PROVE  Typed(4, Quotient(f, q, r)) /\ Quotient(f, q, r).f.x = f.x
<1>1. PICK m \in Nat \ {0} : m = Mod(2) /\ Mod(4) = m * m
  BY Widths DEF Sizes
<1>2. Masked(2, q) \in 0..(m - 1) /\ Masked(2, r) \in 0..(m - 1)
  BY <1>1, MaskedRange DEF Range0, Sizes
<1>3. Masked(2, r) * m + Masked(2, q) \in 0..(m * m - 1)
  BY <1>2, TwoDigits
<1>4. Masked(2, q) + Masked(2, r) * m \in 0..(m * m - 1)
  BY <1>2, <1>3
<1>5. Masked(2, q) + Masked(2, r) * Mod(2) \in Range0(4)
  BY <1>1, <1>4 DEF Range0
<1>6. PICK w : w = Masked(2, q)
  OBVIOUS
<1>7. Typed(2, Logical(2, f, w)) /\ Logical(2, f, w).f.x = f.x
  BY <1>6, MaskedRange, LogicalTyped DEF Sizes
<1>8. [Logical(2, f, w).f EXCEPT !.z = Bit(q = 0)] \in Flags
      /\ [Logical(2, f, w).f EXCEPT !.z = Bit(q = 0)].x = f.x
  BY <1>7 DEF Typed, Flags, Bit
<1> QED BY <1>5, <1>6, <1>8 DEF Quotient, Typed, Result

\* An overflowing division leaves its long and X alone.
LEMMA TooBigTyped ==
  ASSUME NEW f \in Flags, NEW d \in Range0(4)
  PROVE  Typed(4, TooBig(f, d)) /\ TooBig(f, d).f.x = f.x
BY DEF TooBig, Typed, Flags, Result

\* mulu, muls, divu and divs leave a long and keep X; a division by zero is a trap before it.
LEMMA LongTyped ==
  ASSUME NEW f \in Flags, NEW s \in Range0(2), NEW d \in Range0(4)
  PROVE  /\ Typed(4, Mulu(f, s, d)) /\ Mulu(f, s, d).f.x = f.x
         /\ Typed(4, Muls(f, s, d)) /\ Muls(f, s, d).f.x = f.x
         /\ s # 0 => /\ Typed(4, Divu(f, s, d)) /\ Divu(f, s, d).f.x = f.x
                     /\ Typed(4, Divs(f, s, d)) /\ Divs(f, s, d).f.x = f.x
<1>1. PICK m \in Nat \ {0} : m = Mod(2) /\ Mod(4) = m * m
  BY Widths DEF Sizes
<1>2. 2 \in Sizes /\ 4 \in Sizes
  BY DEF Sizes
<1>3. d \in Int /\ d >= 0 /\ s \in 0..(m - 1)
  BY <1>1, <1>2, MaskedSame DEF Range0
<1>4. Masked(2, d) \in 0..(m - 1)
  BY <1>1, <1>2, <1>3, MaskedRange DEF Range0
<1>5. Typed(4, Mulu(f, s, d)) /\ Mulu(f, s, d).f.x = f.x
  <2>1. PICK w \in 0..(m - 1) : w = Masked(2, d)
    BY <1>4
  <2>2. s * w <= (m - 1) * w /\ 0 * w <= s * w
    BY <1>3, Times
  <2>3. w * (m - 1) <= (m - 1) * (m - 1)
    BY Times
  <2>4. (m - 1) * (m - 1) = m * m - 2 * m + 1 /\ m * m \in Int
    OBVIOUS
  <2>5. (m - 1) * w = w * (m - 1) /\ s * w \in Int
    BY <1>3
  <2>6. s * w \in 0..(m * m - 1)
    BY <2>2, <2>3, <2>4, <2>5
  <2> QED BY <1>1, <1>2, <2>1, <2>6, LogicalTyped DEF Mulu, Range0
<1>6. Typed(4, Muls(f, s, d)) /\ Muls(f, s, d).f.x = f.x
  <2>1. MakeInt(2, s) \in Int /\ MakeInt(2, d) \in Int
    BY <1>2, <1>3, MakeIntType
  <2>2. Masked(4, MakeInt(2, s) * MakeInt(2, d)) \in Range0(4)
    BY <1>2, <2>1, MaskedRange
  <2> QED BY <1>2, <2>2, LogicalTyped DEF Muls
<1>7. ASSUME s # 0 PROVE Typed(4, Divu(f, s, d)) /\ Divu(f, s, d).f.x = f.x
  <2>1. d \div s \in Int /\ d % s \in Int
    BY <1>3, <1>7, DivBounds
  <2> QED BY <1>3, <2>1, QuotientTyped, TooBigTyped DEF Divu
<1>8. ASSUME s # 0 PROVE Typed(4, Divs(f, s, d)) /\ Divs(f, s, d).f.x = f.x
  <2>1. PICK a \in Int : a = MakeInt(4, d)
    BY <1>2, <1>3, MakeIntType
  <2>2. PICK b \in Int : b = MakeInt(2, s) /\ b # 0
    <3>1. MakeInt(2, s) = IF s < Half[2] THEN s ELSE s - m
      BY <1>1, <1>2, SignedValue
    <3> QED BY <1>3, <1>8, <3>1
  <2>3. PICK p \in Nat : p = IF a < 0 THEN -a ELSE a
    BY <2>1
  <2>4. PICK h \in Nat \ {0} : h = IF b < 0 THEN -b ELSE b
    BY <2>2
  <2>5. PICK q \in Int : q = IF (a < 0) = (b < 0) THEN p \div h ELSE -(p \div h)
    <3>1. p \div h \in Int
      BY <2>3, <2>4, DivBounds
    <3> QED BY <3>1
  <2>6. q * b \in Int /\ a - q * b \in Int
    BY <2>1, <2>2, <2>5
  <2>7. Divs(f, s, d) = IF d = Half[4] /\ b = -1 THEN Logical(4, f, 0)
                        ELSE IF q \in -Half[2]..(Half[2] - 1) THEN Quotient(f, q, a - q * b)
                        ELSE TooBig(f, d)
    BY <2>1, <2>2, <2>3, <2>4, <2>5 DEF Divs
  <2>8. 0 \in Range0(4)
    BY <1>2, Widths DEF Range0
  <2> QED BY <1>2, <2>5, <2>6, <2>7, <2>8, QuotientTyped, TooBigTyped, LogicalTyped
<1> QED BY <1>5, <1>6, <1>7, <1>8

\* A byte is two nibbles, and a decimal digit fits a nibble.
LEMMA DecimalConstants ==
  /\ Nibble \in Nat \ {0} /\ Digits \in Nat \ {0} /\ 1 < Digits /\ Digits < Nibble
  /\ Mod(1) = Nibble * Nibble /\ Nines \in Nat /\ 1 \in Sizes
BY DecimalAssumption DEF Nines, Sizes

\* The flags and the corrected byte of the decimal instructions fit, whatever was corrected.
LEMMA DecimalTyped ==
  ASSUME NEW f, NEW before \in Int, NEW corrected \in Int, NEW carry \in {0, 1}
  PROVE  Typed(1, Decimal(f, before, corrected, carry))
<1>1. 1 \in Sizes
  BY DEF Sizes
<1>2. Masked(1, corrected) \in Range0(1) /\ Msb(1, corrected) \in {0, 1}
  BY <1>1, MaskedRange, MsbBit
<1> QED BY <1>2 DEF Decimal, Typed, Result, Flags, Bit

\* The nibbles of a byte.
LEMMA LowHigh == ASSUME NEW v \in Int PROVE Low(v) \in 0..(Nibble - 1) /\ High(v) \in Int
BY DecimalConstants, Remainder DEF Low, High

\* abcd, sbcd and nbcd leave a byte and flags.
LEMMA DecimalsTyped ==
  ASSUME NEW f \in Flags, NEW s \in Range0(1), NEW d \in Range0(1)
  PROVE  Typed(1, Abcd(f, s, d)) /\ Typed(1, Sbcd(f, s, d)) /\ Typed(1, Nbcd(f, d))
<1>1. s \in Int /\ d \in Int /\ f.x \in Int
  BY DecimalConstants, MaskedSame DEF Flags
<1>2. /\ Low(s) \in Int /\ Low(d) \in Int /\ High(s) \in Int /\ High(d) \in Int
  BY <1>1, LowHigh
<1>3. PICK g \in Nat, n \in Nat : g = Digits /\ n = Nibble
  BY DecimalConstants
<1>4. g * n \in Int
  OBVIOUS
<1>5. Typed(1, Abcd(f, s, d))
  <2>1. PICK low \in Int : low = Low(s) + Low(d) + f.x
    BY <1>1, <1>2
  <2>2. PICK sum \in Int :
          sum = (IF low > g - 1 THEN low + n - g ELSE low) + High(s) + High(d)
    BY <1>2
  <2>3. PICK c \in {0, 1} : c = Bit(sum > Nines)
    BY BitType
  <2>4. sum - c * g * n \in Int
    BY <1>4
  <2>5. Abcd(f, s, d) = Decimal(f, low, sum - c * g * n, c)
    BY <1>3, <2>1, <2>2, <2>3 DEF Abcd
  <2> QED BY <2>4, <2>5, DecimalTyped
<1>6. Typed(1, Sbcd(f, s, d))
  <2>1. PICK low \in Int : low = Low(d) - Low(s) - f.x
    BY <1>1, <1>2
  <2>2. PICK rest \in Int :
          rest = (IF Exceeds(low, g - 1) THEN low - (n - g) ELSE low) + High(d) - High(s)
    BY <1>2
  <2>3. PICK c \in {0, 1} : c = Bit(Exceeds(rest, Nines))
    BY BitType
  <2>4. rest + c * g * n \in Int
    BY <1>4
  <2>5. Sbcd(f, s, d) = Decimal(f, low, rest + c * g * n, c)
    BY <1>3, <2>1, <2>2, <2>3 DEF Sbcd
  <2> QED BY <2>4, <2>5, DecimalTyped
<1>7. Typed(1, Nbcd(f, d))
  <2>1. PICK r \in Int : r = Masked(1, Nines + 1 - d - f.x)
    <3>1. Nines + 1 - d - f.x \in Int
      BY <1>1, DecimalConstants
    <3>2. Masked(1, Nines + 1 - d - f.x) \in Range0(1)
      BY <3>1, DecimalConstants, MaskedRange
    <3> QED BY <3>2, DecimalConstants, MaskedSame
  <2>2. PICK c \in Int : c = Masked(1, IF Low(r) = Digits THEN High(r) + Nibble ELSE r)
    <3>1. PICK w \in Int : w = IF Low(r) = Digits THEN High(r) + Nibble ELSE r
      BY <2>1, LowHigh, <1>3
    <3>2. Masked(1, w) \in Range0(1)
      BY DecimalConstants, MaskedRange
    <3> QED BY <3>1, <3>2, DecimalConstants, MaskedSame
  <2>3. Typed(1, Result(d, [f EXCEPT !.v = 0, !.c = 0, !.x = 0, !.n = Msb(1, r)]))
    <3>1. Msb(1, r) \in {0, 1}
      BY MsbBit, DecimalConstants
    <3> QED BY <3>1 DEF Typed, Result, Flags
  <2>4. Typed(1, Decimal(f, r, c, 1))
    BY DecimalTyped
  <2> QED BY <2>1, <2>2, <2>3, <2>4 DEF Nbcd
<1> QED BY <1>5, <1>6, <1>7

-----------------------------------------------------------------------------
(* Logic, single bits, shifts and rotations.                                 *)

\* Bits of the logical operations.
LEMMA BitwiseTyped ==
  ASSUME NEW z \in Sizes, NEW s \in Int, NEW d \in Int
  PROVE  /\ And(z, s, d) \in Range0(z) /\ Or(z, s, d) \in Range0(z)
         /\ Xor(z, s, d) \in Range0(z)
<1>1. PICK n \in Nat : n = Bits(z) /\ Mod(z) = Pow2[n]
  BY Widths
<1>2. \A b \in 0..(n - 1) : BitOf(s, b) \in {0, 1} /\ BitOf(d, b) \in {0, 1}
  BY BitOfBit
<1>3. [b \in 0..(n - 1) |-> BitOf(s, b) * BitOf(d, b)] \in [0..(n - 1) -> {0, 1}]
  BY <1>2
<1>4. [b \in 0..(n - 1) |-> 1 - (1 - BitOf(s, b)) * (1 - BitOf(d, b))] \in [0..(n - 1) -> {0, 1}]
  BY <1>2
<1>5. [b \in 0..(n - 1) |-> (BitOf(s, b) + BitOf(d, b)) % 2] \in [0..(n - 1) -> {0, 1}]
  BY <1>2
<1>6. And(z, s, d) \in 0..(Pow2[n] - 1)
  BY <1>1, <1>3, NumberBelowPower DEF And
<1>7. Or(z, s, d) \in 0..(Pow2[n] - 1)
  BY <1>1, <1>4, NumberBelowPower DEF Or
<1>8. Xor(z, s, d) \in 0..(Pow2[n] - 1)
  BY <1>1, <1>5, NumberBelowPower DEF Xor
<1> QED BY <1>1, <1>6, <1>7, <1>8 DEF Range0

\* and, or, eor and not leave a value of the size and keep X.
LEMMA LogicTyped ==
  ASSUME NEW z \in Sizes, NEW f \in Flags, NEW s \in Range0(z), NEW d \in Range0(z)
  PROVE  /\ Typed(z, Both(z, f, s, d)) /\ Both(z, f, s, d).f.x = f.x
         /\ Typed(z, Either(z, f, s, d)) /\ Either(z, f, s, d).f.x = f.x
         /\ Typed(z, OneOf(z, f, s, d)) /\ OneOf(z, f, s, d).f.x = f.x
         /\ Typed(z, Invert(z, f, d)) /\ Invert(z, f, d).f.x = f.x
<1>1. s \in Int /\ d \in Int
  BY MaskedSame
<1>2. /\ And(z, s, d) \in Range0(z) /\ Or(z, s, d) \in Range0(z) /\ Xor(z, s, d) \in Range0(z)
  BY <1>1, BitwiseTyped
<1>3. Mod(z) - 1 - d \in Range0(z)
  BY Widths DEF Range0
<1> QED BY <1>2, <1>3, LogicalTyped DEF Both, Either, OneOf, Invert

\* tas leaves a byte and keeps X.
LEMMA TasTyped ==
  ASSUME NEW f \in Flags, NEW d \in Range0(1)
  PROVE  Typed(1, Tas(f, d)) /\ Tas(f, d).f.x = f.x
<1>1. 1 \in Sizes /\ d \in Int
  BY DecimalConstants, MaskedSame
<1>2. Or(1, d, Half[1]) \in Range0(1)
  BY <1>1, Widths, BitwiseTyped
<1> QED BY <1>1, <1>2, LogicalTyped DEF Tas, Typed, Result

\* m68ki_set_ccr gives flags for any int.
LEMMA SetCcrTyped == ASSUME NEW v \in Int PROVE SetCcr(v) \in Flags
BY BitOfBit DEF SetCcr, Flags

\* andi, ori and eori to the CCR give flags.
LEMMA CcrTyped == ASSUME NEW f \in Flags, NEW v \in Int
  PROVE CcrAnd(f, v) \in Flags /\ CcrOr(f, v) \in Flags /\ CcrEor(f, v) \in Flags
<1>1. GetCcr(f) \in Int /\ 2 \in Sizes
  BY DEF GetCcr, Flags, Sizes
<1>2. \A w \in Range0(2) : w \in Int
  BY <1>1, MaskedSame
<1> QED BY <1>1, <1>2, BitwiseTyped, SetCcrTyped DEF CcrAnd, CcrOr, CcrEor

\* A bit of a number can be replaced.
LEMMA ReplacedRange ==
  ASSUME NEW z \in Sizes, NEW d \in Range0(z), NEW b \in 0..(Bits(z) - 1), NEW new \in {0, 1}
  PROVE  Replaced(d, b, new) \in Range0(z)
<1>1. PICK n \in Nat : n = Bits(z) /\ Mod(z) = Pow2[n] /\ b < n
  BY Widths
<1>2. PICK k \in Nat : n = b + (k + 1)
  <2>1. n - b - 1 \in Nat /\ n = b + ((n - b - 1) + 1)
    BY <1>1
  <2> QED BY <2>1
<1>3. PICK p \in Nat \ {0}, e \in Nat \ {0} : p = Pow2[b] /\ e = Pow2[k]
  BY Pow2Type
<1>4. Mod(z) = (2 * e) * p
  <2>1. Mod(z) = Pow2[b] * Pow2[k + 1]
    BY <1>1, <1>2, Pow2Sum
  <2>2. Pow2[k + 1] = 2 * e
    BY <1>3, Pow2Step
  <2> QED BY <1>3, <2>1, <2>2
<1>5. d \in 0..((2 * e) * p - 1) /\ 2 * e \in Nat \ {0}
  BY <1>3, <1>4 DEF Range0
<1>6. PICK q \in 0..(2 * e - 1) : q = d \div p /\ d = q * p + (d % p)
  BY <1>3, <1>5, HighDigit
<1>7. PICK r \in 0..(p - 1) : r = d % p
  <2>1. d \in Int
    BY <1>5
  <2> QED BY <1>3, <2>1, Remainder
<1>8. BitOf(d, b) = q % 2
  BY <1>3, <1>6 DEF BitOf
<1>9. q + (new - (q % 2)) \in 0..(2 * e - 1)
  BY <1>3
<1>10. PICK t \in 0..(2 * e - 1) : t = q + (new - (q % 2))
  BY <1>9
<1>11. t * p + r \in 0..((2 * e) * p - 1)
  BY <1>3, <1>5, TwoDigits
<1>12. Replaced(d, b, new) = t * p + r
  <2>1. PICK u \in Int : u = new - (q % 2)
    BY <1>3
  <2>2. t * p = q * p + u * p
    BY <1>3, <1>10, <2>1
  <2>3. Replaced(d, b, new) = d + u * p
    BY <1>3, <1>8, <2>1 DEF Replaced
  <2>4. q * p \in Int /\ u * p \in Int
    BY <1>3
  <2> QED BY <1>6, <1>7, <2>2, <2>3, <2>4
<1> QED BY <1>4, <1>11, <1>12 DEF Range0

\* btst, bchg, bclr and bset leave a value of the size and keep X.
LEMMA BitsTyped ==
  ASSUME NEW z \in Sizes, NEW f \in Flags, NEW d \in Range0(z), NEW b \in 0..(Bits(z) - 1)
  PROVE  /\ Typed(z, Btst(f, b, d)) /\ Btst(f, b, d).f.x = f.x
         /\ Typed(z, Bchg(f, b, d)) /\ Bchg(f, b, d).f.x = f.x
         /\ Typed(z, Bclr(f, b, d)) /\ Bclr(f, b, d).f.x = f.x
         /\ Typed(z, Bset(f, b, d)) /\ Bset(f, b, d).f.x = f.x
<1>1. b \in Nat /\ d \in Int
  BY Widths, MaskedSame
<1>2. BitOf(d, b) \in {0, 1} /\ 1 - BitOf(d, b) \in {0, 1}
  BY <1>1, BitOfBit
<1>3. Tested(f, d, b) \in Flags /\ Tested(f, d, b).x = f.x
  BY <1>2 DEF Tested, Flags
<1>4. \A new \in {0, 1} : Replaced(d, b, new) \in Range0(z)
  BY ReplacedRange
<1> QED BY <1>2, <1>3, <1>4 DEF Btst, Bchg, Bclr, Bset, Typed, Result

-----------------------------------------------------------------------------
\* Shifts.
LEMMA UnshiftedTyped ==
  ASSUME NEW z \in Sizes, NEW f \in Flags, NEW d \in Range0(z)
  PROVE  Typed(z, Unshifted(z, f, d)) /\ Unshifted(z, f, d).f.x = f.x
BY LogicalTyped DEF Unshifted

\* One step of a shift leaves a value of the size and a flag.
LEMMA ShiftedTyped ==
  ASSUME NEW z \in Sizes, NEW v \in Range0(z), NEW c \in {0, 1}
  PROVE  Typed(z, Shifted(z, v, c))
BY MsbBit, MaskedSame DEF Shifted, Typed, Result, Flags, Bit

\* A shift to the left is masked to its size.
LEMMA LeftRange ==
  ASSUME NEW z \in Sizes, NEW d \in Int, NEW n \in 0..Bits(z)
  PROVE  Left(z, n, d) \in Range0(z)
<1>1. PICK w \in Nat : w = Bits(z) /\ Mod(z) = Pow2[w] /\ n <= w
  BY Widths
<1>2. PICK p \in Nat \ {0}, e \in Nat \ {0} : p = Pow2[n] /\ e = Pow2[w - n]
  <2>1. w - n \in Nat /\ n \in Nat
    BY <1>1
  <2> QED BY <2>1, Pow2Type
<1>3. Mod(z) = e * p
  <2>1. w - n \in Nat /\ n \in Nat /\ w = (w - n) + n
    BY <1>1
  <2>2. Pow2[(w - n) + n] = Pow2[w - n] * Pow2[n]
    BY <2>1, Pow2Sum
  <2> QED BY <1>1, <1>2, <2>1, <2>2
<1>4. d % e \in 0..(e - 1)
  BY <1>2, Remainder
<1>5. (d % e) * p + 0 \in 0..(e * p - 1)
  BY <1>2, <1>4, TwoDigits
<1>6. Left(z, n, d) = (d % e) * p /\ (d % e) * p \in Int
  BY <1>1, <1>2, <1>4 DEF Left
<1> QED BY <1>3, <1>5, <1>6 DEF Range0

\* A rotation of w bits leaves w bits.
LEMMA TurnedRange ==
  ASSUME NEW w \in Nat, NEW v \in 0..(Pow2[w] - 1), NEW k \in 0..w
  PROVE  Turned(w, v, k) \in 0..(Pow2[w] - 1)
<1>1. PICK p \in Nat \ {0}, e \in Nat \ {0} : p = Pow2[k] /\ e = Pow2[w - k]
  <2>1. w - k \in Nat /\ k \in Nat
    OBVIOUS
  <2> QED BY <2>1, Pow2Type
<1>2. Pow2[w] = e * p /\ e * p = p * e
  <2>1. w - k \in Nat /\ k \in Nat /\ w = (w - k) + k
    OBVIOUS
  <2> QED BY <1>1, <2>1, Pow2Sum
<1>3. v \in 0..(e * p - 1) /\ v \in Int
  BY <1>1, <1>2
<1>4. v \div p \in 0..(e - 1)
  BY <1>1, <1>3, HighDigit
<1>5. v % p \in 0..(p - 1)
  BY <1>1, <1>3, Remainder
<1>6. (v % p) * e + v \div p \in 0..(p * e - 1)
  BY <1>1, <1>4, <1>5, TwoDigits
<1>7. (v % p) * e \in Int /\ v \div p \in Int
  BY <1>1, <1>4, <1>5
<1> QED BY <1>1, <1>2, <1>6, <1>7 DEF Turned

\* asr, lsr, lsl and asl leave a value of the size and flags for every count.
LEMMA ShiftsTyped ==
  ASSUME NEW z \in Sizes, NEW f \in Flags, NEW n \in Nat, NEW d \in Range0(z)
  PROVE  /\ Typed(z, Asr(z, f, n, d)) /\ Typed(z, Lsr(z, f, n, d))
         /\ Typed(z, Lsl(z, f, n, d)) /\ Typed(z, Asl(z, f, n, d))
<1>1. PICK w \in Nat \ {0} : w = Bits(z) /\ Mod(z) = Pow2[w]
  BY Widths
<1>2. d \in Int /\ d >= 0 /\ Msb(z, d) \in {0, 1}
  BY MaskedSame, MsbBit
<1>3. n > 0 => Pow2[n] \in Nat \ {0} /\ BitOf(d, n - 1) \in {0, 1}
  BY <1>2, Pow2Type, BitOfBit
<1>4. n <= w => BitOf(d, w - n) \in {0, 1} /\ Left(z, n, d) \in Range0(z)
  BY <1>1, <1>2, BitOfBit, LeftRange
<1>5. Typed(z, Unshifted(z, f, d)) /\ Typed(z, Shifted(z, 0, 0))
  <2>1. 0 \in Range0(z)
    BY Widths DEF Range0
  <2> QED BY <2>1, UnshiftedTyped, ShiftedTyped
<1>6. Typed(z, Asr(z, f, n, d))
  <2>1. CASE n = 0
    BY <1>1, <1>5, <2>1 DEF Asr
  <2>2. CASE n \in 1..(Bits(z) - 1)
    <3>1. PICK q \in Int : q = MakeInt(z, d) \div Pow2[n]
      <4>1. PICK p \in Nat \ {0} : p = Pow2[n]
        BY <1>3, <2>2
      <4>2. PICK i \in Int : i = MakeInt(z, d)
        BY <1>2, MakeIntType
      <4>3. i \div p \in Int
        BY DivBounds
      <4> QED BY <4>1, <4>2, <4>3
    <3>2. Typed(z, Shifted(z, Masked(z, q), BitOf(d, n - 1)))
      BY <1>1, <1>3, <2>2, MaskedRange, ShiftedTyped
    <3>3. n # 0 /\ ~(n >= Bits(z))
      BY <1>1, <2>2
    <3>4. PICK r : r = Shifted(z, Masked(z, MakeInt(z, d) \div Pow2[n]), BitOf(d, n - 1))
      OBVIOUS
    <3>5. Asr(z, f, n, d) = CASE n = 0 -> Unshifted(z, f, d)
                            [] n \in 1..(Bits(z) - 1) -> r
                            [] n >= Bits(z) -> Shifted(z, Msb(z, d) * (Mod(z) - 1), Msb(z, d))
      BY <3>4, Zenon DEF Asr
    <3>6. Asr(z, f, n, d) = r
      BY <2>2, <3>3, <3>5
    <3> QED BY <3>1, <3>2, <3>4, <3>6, Zenon
  <2>3. CASE n >= Bits(z)
    <3>1. Msb(z, d) * (Mod(z) - 1) \in Range0(z)
      <4>1. PICK m \in Nat \ {0} : m = Mod(z)
        BY Widths
      <4>2. Msb(z, d) * (m - 1) \in 0..(m - 1)
        BY <1>2
      <4> QED BY <4>1, <4>2 DEF Range0
    <3>2. Typed(z, Shifted(z, Msb(z, d) * (Mod(z) - 1), Msb(z, d)))
      BY <1>2, <3>1, ShiftedTyped
    <3>3. Asr(z, f, n, d) = Shifted(z, Msb(z, d) * (Mod(z) - 1), Msb(z, d))
      BY <1>1, <2>3 DEF Asr
    <3> QED BY <3>2, <3>3
  <2> QED BY <1>1, <2>1, <2>2, <2>3
<1>7. Typed(z, Lsr(z, f, n, d))
  <2>1. CASE n \in 1..Bits(z)
    <3>1. d \div Pow2[n] \in Range0(z)
      <4>1. d \div Pow2[n] \in 0..d
        BY <1>2, <1>3, <2>1, Part
      <4> QED BY <1>2, <4>1, Widths DEF Range0
    <3>2. Typed(z, Shifted(z, d \div Pow2[n], BitOf(d, n - 1)))
      BY <1>3, <2>1, <3>1, ShiftedTyped
    <3>3. Lsr(z, f, n, d) = Shifted(z, d \div Pow2[n], BitOf(d, n - 1))
      BY <1>1, <2>1 DEF Lsr
    <3> QED BY <3>2, <3>3
  <2> QED BY <1>1, <1>5, <2>1 DEF Lsr
<1>8. Typed(z, Lsl(z, f, n, d))
  <2>1. CASE n \in 1..Bits(z)
    <3>1. Typed(z, Shifted(z, Left(z, n, d), BitOf(d, Bits(z) - n)))
      BY <1>1, <1>4, <2>1, ShiftedTyped
    <3> QED BY <1>1, <2>1, <3>1 DEF Lsl
  <2> QED BY <1>1, <1>5, <2>1 DEF Lsl
<1>9. ASSUME NEW v \in Range0(z), NEW c \in {0, 1}, NEW p
      PROVE  Typed(z, Overflowed(Shifted(z, v, c), p))
  <2>1. Typed(z, Shifted(z, v, c))
    BY ShiftedTyped
  <2> QED BY <2>1 DEF Typed, Overflowed, Shifted, Result, Flags, Bit
<1>10. Typed(z, Asl(z, f, n, d))
  <2>1. CASE n = 0
    BY <1>1, <1>5, <2>1 DEF Asl
  <2>2. CASE n \in 1..(Bits(z) - 1)
    <3>1. n # 0 /\ ~(n >= Bits(z)) /\ n <= w
      BY <1>1, <2>2
    <3>2. PICK p : p = (d \div Pow2[Bits(z) - n - 1] \notin {0, Pow2[n + 1] - 1})
      OBVIOUS
    <3>3. PICK r : r = Overflowed(Shifted(z, Left(z, n, d), BitOf(d, Bits(z) - n)), p)
      OBVIOUS
    <3>4. PICK o : o = Overflowed(Shifted(z, 0, IF n = Bits(z) THEN d % 2 ELSE 0), d # 0)
      OBVIOUS
    <3>5. Asl(z, f, n, d) = CASE n = 0 -> Unshifted(z, f, d)
                            [] n \in 1..(Bits(z) - 1) -> r
                            [] n >= Bits(z) -> o
      BY <3>2, <3>3, <3>4, Zenon DEF Asl
    <3>6. Asl(z, f, n, d) = r
      BY <2>2, <3>1, <3>5
    <3> QED BY <1>1, <1>4, <1>9, <3>1, <3>3, <3>6
  <2>3. CASE n >= Bits(z)
    <3>1. PICK c \in {0, 1} : c = IF n = Bits(z) THEN d % 2 ELSE 0
      BY <1>2
    <3>2. 0 \in Range0(z)
      BY Widths DEF Range0
    <3>3. Typed(z, Overflowed(Shifted(z, 0, c), d # 0))
      BY <1>9, <3>2
    <3> QED BY <1>1, <2>3, <3>1, <3>3 DEF Asl
  <2> QED BY <1>1, <2>1, <2>2, <2>3
<1> QED BY <1>6, <1>7, <1>8, <1>10

\* ror and rol leave a value of the size and keep X, for every count.
LEMMA RotatesTyped ==
  ASSUME NEW z \in Sizes, NEW f \in Flags, NEW n \in Nat, NEW d \in Range0(z)
  PROVE  /\ Typed(z, Ror(z, f, n, d)) /\ Ror(z, f, n, d).f.x = f.x
         /\ Typed(z, Rol(z, f, n, d)) /\ Rol(z, f, n, d).f.x = f.x
<1>1. PICK w \in Nat \ {0} : w = Bits(z) /\ Mod(z) = Pow2[w]
  BY Widths
<1>2. d \in Int /\ d \in 0..(Pow2[w] - 1)
  BY <1>1, MaskedSame DEF Range0
<1>3. n % w \in 0..(w - 1) /\ (w - (n % w)) % w \in 0..(w - 1)
  <2>1. n % w \in 0..(w - 1)
    BY Remainder
  <2> QED BY <2>1, Remainder
<1>4. \A k \in 0..w : Turned(w, d, k) \in Range0(z)
  BY <1>1, <1>2, TurnedRange DEF Range0
<1>5. Typed(z, Unshifted(z, f, d)) /\ Unshifted(z, f, d).f.x = f.x
  BY UnshiftedTyped
<1>6. ASSUME NEW v \in Range0(z), NEW c \in {0, 1}
      PROVE  /\ Typed(z, Result(v, [Logical(z, f, v).f EXCEPT !.c = c]))
             /\ Result(v, [Logical(z, f, v).f EXCEPT !.c = c]).f.x = f.x
  BY LogicalTyped DEF Typed, Result, Flags
<1>7. Typed(z, Ror(z, f, n, d)) /\ Ror(z, f, n, d).f.x = f.x
  <2>1. PICK v \in Range0(z) : v = Turned(w, d, n % w)
    BY <1>3, <1>4
  <2>2. CASE n = 0
    BY <1>5, <2>2 DEF Ror
  <2>3. CASE n # 0
    <3>1. (n - 1) % w \in Nat
      <4>1. n - 1 \in Int
        OBVIOUS
      <4> QED BY <4>1, Remainder
    <3>2. PICK c \in {0, 1} : c = BitOf(d, (n - 1) % w)
      BY <1>2, <3>1, BitOfBit
    <3>3. Ror(z, f, n, d) = Result(v, [Logical(z, f, v).f EXCEPT !.c = c])
      BY <1>1, <2>1, <2>3, <3>2 DEF Ror
    <3> QED BY <1>6, <3>3
  <2> QED BY <2>2, <2>3
<1>8. Typed(z, Rol(z, f, n, d)) /\ Rol(z, f, n, d).f.x = f.x
  <2>1. PICK v \in Range0(z) : v = Turned(w, d, (w - (n % w)) % w)
    BY <1>3, <1>4
  <2>2. v % 2 \in {0, 1}
    BY MaskedSame
  <2>3. CASE n = 0
    BY <1>5, <2>3 DEF Rol
  <2>4. CASE n # 0
    <3>1. Rol(z, f, n, d) = Result(v, [Logical(z, f, v).f EXCEPT !.c = v % 2])
      BY <1>1, <2>1, <2>4 DEF Rol
    <3> QED BY <1>6, <2>2, <3>1
  <2> QED BY <2>3, <2>4
<1> QED BY <1>7, <1>8

\* A rotation through X, X put in front as a bit more, leaves a value of the size and flags.
LEMMA ThroughTyped ==
  ASSUME NEW z \in Sizes, NEW f \in Flags, NEW d \in Range0(z), NEW k \in 0..(Bits(z) + 1)
  PROVE  Typed(z, Through(z, f, d, k))
<1>1. PICK w \in Nat \ {0} : w = Bits(z) /\ Mod(z) = Pow2[w]
  BY Widths
<1>2. PICK m \in Nat \ {0} : m = Mod(z) /\ Pow2[w + 1] = 2 * m
  BY <1>1, Pow2Step
<1>3. d \in 0..(m - 1) /\ f.x \in {0, 1}
  BY <1>2 DEF Range0, Flags
<1>4. d + f.x * m \in 0..(2 * m - 1)
  BY <1>3
<1>5. PICK r \in 0..(2 * m - 1) : r = Turned(w + 1, d + f.x * m, k)
  BY <1>1, <1>2, <1>4, TurnedRange
<1>6. r \div m \in 0..1
  BY HighDigit
<1>7. Masked(z, r) \in Range0(z)
  BY MaskedRange
<1>8. Through(z, f, d, k) = Shifted(z, Masked(z, r), r \div m)
  BY <1>1, <1>2, <1>5 DEF Through
<1> QED BY <1>6, <1>7, <1>8, ShiftedTyped

\* So do roxr and roxl, for every count.
LEMMA ThroughsTyped ==
  ASSUME NEW z \in Sizes, NEW f \in Flags, NEW n \in Nat, NEW d \in Range0(z)
  PROVE  Typed(z, Roxr(z, f, n, d)) /\ Typed(z, Roxl(z, f, n, d))
<1>1. PICK w \in Nat \ {0} : w = Bits(z) + 1 /\ Bits(z) \in Nat
  BY Widths
<1>2. n % w \in 0..(w - 1) /\ (w - (n % w)) % w \in 0..(w - 1)
  <2>1. n % w \in 0..(w - 1)
    BY Remainder
  <2> QED BY <2>1, Remainder
<1>3. n % w \in 0..(Bits(z) + 1) /\ (w - (n % w)) % w \in 0..(Bits(z) + 1)
  BY <1>1, <1>2
<1> QED BY <1>1, <1>3, ThroughTyped DEF Roxr, Roxl

-----------------------------------------------------------------------------
(* Shifts by one bit: lsr, asr and the powers of two.                        *)

\* A quotient by twice as much, and one more bit of the remainder.
LEMMA Halves == ASSUME NEW v \in Int, NEW p \in Nat \ {0}
  PROVE  /\ v \div (2 * p) = (v \div p) \div 2
         /\ v % (2 * p) = (v % p) + (IF (v \div p) % 2 = 1 THEN p ELSE 0)
<1>1. PICK q \in Int : q = v \div p /\ q * p <= v /\ v < q * p + p /\ v % p = v - q * p
  BY DivBounds
<1>2. PICK k \in Int, b \in {0, 1} : k = q \div 2 /\ b = q % 2 /\ q = k + k + b
  OBVIOUS
<1>3. PICK u \in Int : u = k * p /\ q * p = u + u + (IF b = 1 THEN p ELSE 0)
  <2>1. (k + k) * p = k * p + k * p /\ (k + k + b) * p = (k + k) * p + b * p
    BY Distribute
  <2>2. b * p = IF b = 1 THEN p ELSE 0
    OBVIOUS
  <2>3. k * p \in Int
    OBVIOUS
  <2> QED BY <1>2, <2>1, <2>2, <2>3
<1>4. PICK h \in Nat \ {0} : h = 2 * p
  OBVIOUS
<1>5. k * h = u + u
  <2>1. k * (2 * p) = k * p + k * p
    BY <1>2
  <2> QED BY <1>3, <1>4, <2>1
<1>6. k * h <= v /\ v < k * h + h /\ v - k * h = v - (u + u)
  BY <1>1, <1>3, <1>4, <1>5
<1>7. v \div h = k /\ v % h = v - k * h
  BY <1>6, DivIs
<1>8. v \div h = (v \div p) \div 2
  BY <1>1, <1>2, <1>7
<1>9. v % h = (v % p) + (IF (v \div p) % 2 = 1 THEN p ELSE 0)
  <2>1. v % h = v - (u + u) /\ v % p = v - (u + u + (IF b = 1 THEN p ELSE 0))
    BY <1>1, <1>3, <1>6, <1>7
  <2>2. v - (u + u) = (v - (u + u + (IF b = 1 THEN p ELSE 0))) + (IF b = 1 THEN p ELSE 0)
    BY <1>2, <1>3
  <2>3. b = (v \div p) % 2
    BY <1>1, <1>2
  <2> QED BY <2>1, <2>2, <2>3
<1> QED BY <1>4, <1>8, <1>9

\* Greater powers are greater.
LEMMA Pow2Grows == ASSUME NEW m \in Nat, NEW n \in Nat, m <= n
  PROVE  Pow2[m] <= Pow2[n]
<1>1. PICK k \in Nat : k = n - m /\ n = m + k
  OBVIOUS
<1>2. PICK p \in Nat \ {0}, e \in Nat \ {0} : p = Pow2[m] /\ e = Pow2[k]
  BY Pow2Type
<1>3. Pow2[n] = e * p
  <2>1. Pow2[k + m] = Pow2[k] * Pow2[m]
    BY Pow2Sum
  <2> QED BY <1>1, <1>2, <2>1
<1>4. 1 * p <= e * p
  BY Times
<1> QED BY <1>2, <1>3, <1>4

\* One place further down.
LEMMA BitDown == ASSUME NEW v \in Int, NEW n \in Nat
  PROVE  /\ v \div Pow2[n] \in Int
         /\ v \div Pow2[n + 1] = (v \div Pow2[n]) \div 2
         /\ v % Pow2[n + 1] = (v % Pow2[n]) + (IF BitOf(v, n) = 1 THEN Pow2[n] ELSE 0)
         /\ BitOf(v, n) = (v \div Pow2[n]) % 2
<1>1. PICK p \in Nat \ {0} : p = Pow2[n] /\ Pow2[n + 1] = 2 * p
  BY Pow2Step
<1>2. v \div p \in Int
  BY DivBounds
<1> QED BY <1>1, <1>2, Halves DEF BitOf

\* All places passed: the sign is left.
LEMMA PastAll == ASSUME NEW v \in Int, NEW n \in Nat, -Pow2[n] <= v, v < Pow2[n]
  PROVE  v \div Pow2[n] = IF v < 0 THEN -1 ELSE 0
<1>1. PICK p \in Nat \ {0} : p = Pow2[n] /\ -p <= v /\ v < p
  BY Pow2Type
<1>2. PICK k \in Int : k = IF v < 0 THEN -1 ELSE 0
  OBVIOUS
<1>3. k * p = IF v < 0 THEN -p ELSE 0
  BY <1>2
<1>4. k * p <= v /\ v < k * p + p
  BY <1>1, <1>3
<1>5. v \div p = k
  BY <1>4, DivIs
<1> QED BY <1>1, <1>2, <1>5

\* The sizes of one operand, with names.
Sized(z, w, h, m, d) ==
  /\ w \in Nat \ {0} /\ h \in Nat \ {0} /\ m \in Nat \ {0} /\ d \in Nat /\ d < m
  /\ w = Bits(z) /\ h = Half[z] /\ m = Mod(z) /\ m = 2 * h
  /\ m = Pow2[w] /\ h = Pow2[w - 1]

\* Every operand has such sizes.
LEMMA Sizing == ASSUME NEW z \in Sizes, NEW d \in Range0(z)
  PROVE  \E w, h, m : Sized(z, w, h, m, d)
<1>1. PICK w \in Nat \ {0}, h \in Nat \ {0}, m \in Nat \ {0} :
        w = Bits(z) /\ h = Half[z] /\ m = Mod(z) /\ m = 2 * h /\ m = Pow2[w] /\ h = Pow2[w - 1]
  BY Widths
<1>2. d \in Nat /\ d < m
  BY <1>1 DEF Range0
<1> QED BY <1>1, <1>2 DEF Sized

\* What a step of one bit looks at: the value, C, X and V.
State(q) == [v |-> q.v, c |-> q.f.c, x |-> q.f.x, o |-> q.f.v]

\* The states of the results a shift ends in.
LEMMA States == ASSUME NEW z, NEW f, NEW v, NEW c, NEW k
  PROVE  /\ State(Shifted(z, v, c)) = [v |-> v, c |-> c, x |-> c, o |-> 0]
         /\ State(Unshifted(z, f, v)) = [v |-> v, c |-> 0, x |-> f.x, o |-> 0]
         /\ State(Overflowed(Shifted(z, v, c), k)) = [v |-> v, c |-> c, x |-> c, o |-> Bit(k)]
BY DEF State, Shifted, Unshifted, Logical, Result, Overflowed

\* The cases of lsr are one: past the size, the quotient and the bit are zero.
LEMMA LsrIs ==
  ASSUME NEW z \in Sizes, NEW f, NEW d \in Range0(z), NEW n \in Nat \ {0}
  PROVE  Lsr(z, f, n, d) = Shifted(z, d \div Pow2[n], BitOf(d, n - 1))
<1>1. PICK w, h, m : Sized(z, w, h, m, d)
  BY Sizing
<1>2. CASE n <= w
  <2>1. n # 0 /\ n \in 1..Bits(z) /\ ~(n > Bits(z))
    BY <1>1, <1>2 DEF Sized
  <2>2. PICK r : r = Shifted(z, d \div Pow2[n], BitOf(d, n - 1))
    OBVIOUS
  <2>3. Lsr(z, f, n, d) = r
    BY <2>1, <2>2 DEF Lsr
  <2> QED BY <2>2, <2>3
<1>3. CASE n > w
  <2>1. n # 0 /\ ~(n \in 1..Bits(z)) /\ n > Bits(z)
    BY <1>1, <1>3 DEF Sized
  <2>2. d \div Pow2[n] = 0 /\ d \div Pow2[n - 1] = 0
    <3>1. n - 1 \in Nat /\ w \in Nat /\ w <= n - 1 /\ w <= n
      BY <1>1, <1>3 DEF Sized
    <3>2. PICK p \in Nat, e \in Nat, g \in Nat :
            p = Pow2[n] /\ e = Pow2[n - 1] /\ g = Pow2[w] /\ g <= p /\ g <= e
      BY <3>1, Pow2Grows, Pow2Type
    <3>3. d \in Int /\ -p <= d /\ d < p /\ -e <= d /\ d < e /\ ~(d < 0)
      BY <1>1, <3>2 DEF Sized
    <3> QED BY <3>1, <3>2, <3>3, PastAll
  <2>3. BitOf(d, n - 1) = 0
    BY <2>2 DEF BitOf
  <2> QED BY <2>1, <2>2, <2>3 DEF Lsr
<1> QED BY <1>1, <1>2, <1>3 DEF Sized

\* A bit is the same with a greater power added.
LEMMA BitAbove == ASSUME NEW v \in Int, NEW w \in Nat, NEW b \in Nat, b < w
  PROVE  BitOf(v + Pow2[w], b) = BitOf(v, b)
<1>1. PICK k \in Nat : k = w - b - 1 /\ w = k + (b + 1)
  OBVIOUS
<1>2. PICK p \in Nat \ {0}, e \in Nat \ {0} : p = Pow2[b] /\ e = Pow2[k] /\ Pow2[b + 1] = 2 * p
  <2>1. Pow2[b] \in Nat \ {0} /\ Pow2[k] \in Nat \ {0} /\ Pow2[b + 1] = 2 * Pow2[b]
    BY Pow2Type, Pow2Step
  <2> QED BY <2>1
<1>3. PICK u \in Nat : u = Pow2[w] /\ u = (e + e) * p
  <2>1. Pow2[k + (b + 1)] = Pow2[k] * Pow2[b + 1] /\ Pow2[w] \in Nat
    BY Pow2Sum, Pow2Type
  <2>2. e * (2 * p) = (e + e) * p
    OBVIOUS
  <2> QED BY <1>1, <1>2, <2>1, <2>2
<1>4. PICK q \in Int : q = v \div p /\ q * p <= v /\ v < q * p + p
  BY DivBounds
<1>5. PICK g \in Int, j \in Int : g = q * p /\ j = q + (e + e)
  OBVIOUS
<1>6. j * p = g + u
  <2>1. (q + (e + e)) * p = q * p + (e + e) * p
    BY Distribute
  <2> QED BY <1>3, <1>5, <2>1
<1>7. v + u \in Int /\ j * p <= v + u /\ v + u < j * p + p
  BY <1>4, <1>5, <1>6
<1>8. (v + u) \div p = j
  BY <1>5, <1>7, DivIs
<1>9. j % 2 = q % 2
  BY <1>5
<1> QED BY <1>2, <1>3, <1>4, <1>8, <1>9 DEF BitOf

\* The signed value of an operand.
LEMMA SignOf ==
  ASSUME NEW z \in Sizes, NEW d \in Range0(z), NEW w, NEW h, NEW m, Sized(z, w, h, m, d)
  PROVE  /\ MakeInt(z, d) = IF d < h THEN d ELSE d - m
         /\ MakeInt(z, d) \in Int /\ -h <= MakeInt(z, d) /\ MakeInt(z, d) < h
         /\ Msb(z, d) = IF d < h THEN 0 ELSE 1
         /\ d \div h = Msb(z, d)
<1>1. h \in Nat \ {0} /\ m = 2 * h /\ d \in Nat /\ d < m /\ h = Half[z] /\ m = Mod(z)
  BY DEF Sized
<1>2. MakeInt(z, d) = IF d < h THEN d ELSE d - m
  BY <1>1, MaskedSame DEF MakeInt
<1>3. PICK k \in Int : k = IF d < h THEN 0 ELSE 1
  OBVIOUS
<1>4. k * h = IF d < h THEN 0 ELSE h
  BY <1>1, <1>3
<1>5. d \in Int /\ h \in Nat \ {0} /\ k \in Int /\ k * h <= d /\ d < k * h + h
  BY <1>1, <1>3, <1>4
<1>6. d \div h = k
  BY <1>5, DivIs
<1>7. d \div h % 2 = k
  BY <1>3, <1>6
<1> QED BY <1>1, <1>2, <1>3, <1>6, <1>7 DEF Msb

\* The cases of asr are one as well: past the size only the sign is left.
LEMMA AsrIs ==
  ASSUME NEW z \in Sizes, NEW f, NEW d \in Range0(z), NEW n \in Nat \ {0}
  PROVE  Asr(z, f, n, d)
           = Shifted(z, Masked(z, MakeInt(z, d) \div Pow2[n]), BitOf(MakeInt(z, d), n - 1))
<1>1. PICK w, h, m : Sized(z, w, h, m, d)
  BY Sizing
<1>2. PICK a \in Int : /\ a = MakeInt(z, d) /\ a = IF d < h THEN d ELSE d - m
                       /\ -h <= a /\ a < h /\ Msb(z, d) = IF d < h THEN 0 ELSE 1
  BY <1>1, SignOf
<1>3. n - 1 \in Nat /\ n \in Nat /\ w \in Nat \ {0} /\ w = Bits(z) /\ w - 1 \in Nat
  BY <1>1 DEF Sized
<1>4. CASE n < w
  <2>1. n # 0 /\ n \in 1..(Bits(z) - 1) /\ ~(n >= Bits(z))
    BY <1>3, <1>4
  <2>2. BitOf(d, n - 1) = BitOf(a, n - 1)
    <3>1. BitOf(a + Pow2[w], n - 1) = BitOf(a, n - 1)
      BY <1>3, <1>4, BitAbove
    <3>2. a = d \/ a + Pow2[w] = d
      BY <1>1, <1>2 DEF Sized
    <3> QED BY <3>1, <3>2
  <2>3. PICK r : r = Shifted(z, Masked(z, MakeInt(z, d) \div Pow2[n]), BitOf(d, n - 1))
    OBVIOUS
  <2>4. Asr(z, f, n, d) = r
    BY <2>1, <2>3 DEF Asr
  <2> QED BY <1>2, <2>2, <2>3, <2>4
<1>5. CASE n >= w
  <2>1. n # 0 /\ ~(n \in 1..(Bits(z) - 1)) /\ n >= Bits(z)
    BY <1>3, <1>5
  <2>2. PICK b \in {0, 1}, s \in Int : /\ b = Msb(z, d) /\ b = (IF a < 0 THEN 1 ELSE 0)
                                       /\ s = IF a < 0 THEN -1 ELSE 0
    BY <1>1, <1>2 DEF Sized
  <2>3. a \div Pow2[n] = s /\ a \div Pow2[n - 1] = s
    <3>1. PICK p \in Nat, e \in Nat : p = Pow2[n] /\ e = Pow2[n - 1] /\ h <= p /\ h <= e
      <4>1. w - 1 <= n /\ w - 1 <= n - 1
        BY <1>3, <1>5
      <4> QED BY <1>1, <1>3, <4>1, Pow2Grows, Pow2Type DEF Sized
    <3>2. -p <= a /\ a < p /\ -e <= a /\ a < e
      BY <1>1, <1>2, <3>1 DEF Sized
    <3> QED BY <1>2, <1>3, <2>2, <3>1, <3>2, PastAll
  <2>4. BitOf(a, n - 1) = b
    <3>1. s % 2 = b
      BY <2>2
    <3> QED BY <2>3, <3>1 DEF BitOf
  <2>5. Masked(z, s) = b * (Mod(z) - 1)
    <3>1. m \in Nat \ {0} /\ m = Mod(z) /\ 0 < m
      BY <1>1 DEF Sized
    <3>2. s * m = IF a < 0 THEN -m ELSE 0
      BY <2>2, <3>1
    <3>3. s * m <= s /\ s < s * m + m
      BY <2>2, <3>1, <3>2
    <3>4. s % m = s - s * m
      BY <3>1, <3>3, DivIs
    <3>5. b * (m - 1) = IF b = 1 THEN m - 1 ELSE 0
      BY <2>2, <3>1
    <3> QED BY <2>2, <3>1, <3>2, <3>4, <3>5 DEF Masked
  <2> QED BY <1>2, <2>1, <2>2, <2>3, <2>4, <2>5 DEF Asr
<1> QED BY <1>3, <1>4, <1>5

\* To the left: what stays and the bit that comes to the top.
LEMMA LeftStep ==
  ASSUME NEW z \in Sizes, NEW d \in Range0(z), NEW w, NEW h, NEW m, Sized(z, w, h, m, d),
         NEW k \in Nat, k < w
  PROVE  \E u \in Nat : /\ u < h
                        /\ Left(z, k, d) = u + (IF BitOf(d, w - k - 1) = 1 THEN h ELSE 0)
                        /\ Left(z, k + 1, d) = u + u
<1>1. w \in Nat \ {0} /\ h \in Nat \ {0} /\ d \in Nat /\ w = Bits(z) /\ h = Pow2[w - 1]
  BY DEF Sized
<1>2. PICK j \in Nat : /\ j = w - k - 1 /\ Bits(z) - k = j + 1 /\ Bits(z) - (k + 1) = j
                       /\ w - 1 = j + k
  BY <1>1
<1>3. PICK p \in Nat \ {0}, e \in Nat \ {0} : /\ p = Pow2[k] /\ e = Pow2[j]
                                                 /\ Pow2[k + 1] = 2 * p
  <2>1. Pow2[k] \in Nat \ {0} /\ Pow2[j] \in Nat \ {0} /\ Pow2[k + 1] = 2 * Pow2[k]
    BY Pow2Type, Pow2Step
  <2> QED BY <2>1
<1>4. h = e * p
  BY <1>1, <1>2, <1>3, Pow2Sum
<1>5. PICK r \in 0..(e - 1) : r = d % e
  <2>1. d \in Int /\ e \in Nat \ {0}
    BY <1>1, <1>3
  <2>2. d % e \in 0..(e - 1)
    BY <2>1, Remainder
  <2> QED BY <2>2
<1>6. PICK u \in Nat : u = r * p /\ u < h
  <2>1. r * p + 0 \in 0..(e * p - 1)
    BY <1>5, TwoDigits
  <2>2. r * p \in Int
    BY <1>5
  <2> QED BY <1>1, <1>4, <2>1, <2>2
<1>7. Left(z, k + 1, d) = u + u
  <2>1. r * (2 * p) = r * p + r * p
    BY <1>5
  <2> QED BY <1>2, <1>3, <1>5, <1>6, <2>1 DEF Left
<1>8. PICK t \in Int : t = IF BitOf(d, j) = 1 THEN e ELSE 0
  OBVIOUS
<1>9. d % Pow2[j + 1] = r + t
  BY <1>1, <1>3, <1>5, <1>8, BitDown
<1>10. (r + t) * p = u + (IF BitOf(d, j) = 1 THEN h ELSE 0)
  <2>1. (r + t) * p = r * p + t * p
    BY <1>5, Distribute
  <2>2. t * p = IF BitOf(d, j) = 1 THEN h ELSE 0
    BY <1>4, <1>8
  <2> QED BY <1>6, <2>1, <2>2
<1>11. Left(z, k, d) = (r + t) * p
  BY <1>2, <1>3, <1>9 DEF Left
<1> QED BY <1>2, <1>6, <1>7, <1>10, <1>11

-----------------------------------------------------------------------------
(* Shifts to the left.                                                       *)

\* To the left, by 0 places nothing moves and by the size nothing is left.
LEMMA LeftEnds ==
  ASSUME NEW z \in Sizes, NEW d \in Range0(z)
  PROVE  Left(z, 0, d) = d /\ Left(z, Bits(z), d) = 0
<1>1. PICK w, h, m : Sized(z, w, h, m, d)
  BY Sizing
<1>2. PICK e \in Nat \ {0} : e = m /\ Pow2[0] = 1 /\ Pow2[w] = e /\ d \in Nat /\ d < e
      /\ w \in Nat
  BY <1>1, Pow2Step DEF Sized
<1>3. w - 0 = w /\ w - w = 0
  BY <1>2
<1>4. d % e = d /\ d % 1 = 0
  BY <1>2
<1>5. (d % Pow2[w - 0]) * Pow2[0] = d
  BY <1>2, <1>3, <1>4
<1>6. (d % Pow2[w - w]) * Pow2[w] = 0
  <2>1. 0 * e = 0
    BY <1>2
  <2> QED BY <1>2, <1>3, <1>4, <2>1
<1> QED BY <1>1, <1>5, <1>6 DEF Left, Sized

\* A step to the left: the rest of the bits move up, the highest one goes to
\* C and X.
Leftwards(h, p, q) ==
  \E u \in 0..(h - 1), b \in {0, 1} :
    /\ p.v = u + (IF b = 1 THEN h ELSE 0)
    /\ q.v = u + u /\ q.f.c = b /\ q.f.x = b

\* One place more to the left is one step to the left.
LEMMA LslStep ==
  ASSUME NEW z \in Sizes, NEW f, NEW d \in Range0(z), NEW k \in Nat,
         NEW p, p = Lsl(z, f, k, d), NEW q, q = Lsl(z, f, k + 1, d)
  PROVE  Leftwards(Half[z], p, q) /\ p.f.v = 0 /\ q.f.v = 0
<1>1. PICK w, h, m : Sized(z, w, h, m, d)
  BY Sizing
<1>2. w \in Nat \ {0} /\ h \in Nat \ {0} /\ w = Bits(z) /\ h = Half[z]
  BY <1>1 DEF Sized
<1>3. /\ k = 0 => p.v = d /\ p.f.v = 0
      /\ k \in 1..w => p.v = Left(z, k, d) /\ p.f.v = 0
      /\ k > w => p.v = 0 /\ p.f.v = 0
  BY <1>2 DEF Lsl, Shifted, Unshifted, Logical, Result
<1>4. q.f.v = 0
  BY <1>2 DEF Lsl, Shifted, Result
<1>5. CASE k < w
  <2>1. PICK u \in Nat : /\ u < h
                         /\ Left(z, k, d) = u + (IF BitOf(d, w - k - 1) = 1 THEN h ELSE 0)
                         /\ Left(z, k + 1, d) = u + u
    BY <1>1, <1>5, LeftStep
  <2>2. PICK b \in {0, 1} : b = BitOf(d, w - k - 1)
    <3>1. w - k - 1 \in Nat /\ d \in Int
      BY <1>1, <1>2, <1>5 DEF Sized
    <3> QED BY <3>1, BitOfBit
  <2>3. p.v = Left(z, k, d) /\ p.f.v = 0
    <3>1. k = 0 \/ k \in 1..w
      BY <1>2, <1>5
    <3> QED BY <1>3, <3>1, LeftEnds
  <2>4. q.v = u + u /\ q.f.c = b /\ q.f.x = b
    <3>1. k + 1 # 0 /\ k + 1 \in 1..Bits(z) /\ Bits(z) - (k + 1) = w - k - 1
          /\ ~(k + 1 > Bits(z))
      BY <1>2, <1>5
    <3>2. PICK l \in Nat : l = k + 1
      OBVIOUS
    <3>3. PICK c : c = BitOf(d, Bits(z) - l) /\ c = b
      BY <2>2, <3>1, <3>2
    <3>4. PICK r : r = Shifted(z, Left(z, l, d), BitOf(d, Bits(z) - l))
      OBVIOUS
    <3>5. q = r
      BY <3>1, <3>2, <3>4 DEF Lsl
    <3>6. r = Shifted(z, u + u, b)
      BY <2>1, <3>2, <3>3, <3>4
    <3> QED BY <3>5, <3>6 DEF Shifted, Result
  <2>5. u \in 0..(h - 1) /\ p.v = u + (IF b = 1 THEN h ELSE 0)
    BY <1>2, <2>1, <2>2, <2>3
  <2> QED BY <1>2, <1>4, <2>3, <2>4, <2>5 DEF Leftwards
<1>6. CASE k >= w
  <2>1. p.v = 0 /\ p.f.v = 0
    <3>1. k \in 1..w => k = w /\ Left(z, w, d) = 0
      BY <1>2, <1>6, LeftEnds
    <3>2. k \in 1..w \/ k > w
      BY <1>2, <1>6
    <3> QED BY <1>3, <3>1, <3>2
  <2>2. q.v = 0 /\ q.f.c = 0 /\ q.f.x = 0
    <3>1. k + 1 # 0 /\ ~(k + 1 \in 1..Bits(z)) /\ k + 1 > Bits(z)
      BY <1>2, <1>6
    <3> QED BY <3>1 DEF Lsl, Shifted, Result
  <2>3. PICK u \in 0..(h - 1), b \in {0, 1} : u = 0 /\ b = 0
    BY <1>2
  <2>4. p.v = u + (IF b = 1 THEN h ELSE 0) /\ q.v = u + u /\ q.f.c = b /\ q.f.x = b
    BY <2>1, <2>2, <2>3
  <2> QED BY <1>2, <1>4, <2>1, <2>4 DEF Leftwards
<1> QED BY <1>2, <1>5, <1>6

\* ASL is LSL but for V, and V tells of the bits that passed the sign.
LEMMA AslIs ==
  ASSUME NEW z \in Sizes, NEW f, NEW d \in Range0(z), NEW n \in Nat,
         NEW p, p = Asl(z, f, n, d), NEW q, q = Lsl(z, f, n, d)
  PROVE  /\ p.v = q.v /\ p.f.c = q.f.c /\ p.f.x = q.f.x
         /\ p.f.v = IF n < Bits(z)
                    THEN Bit(d \div Pow2[Bits(z) - n - 1] \notin {0, Pow2[n + 1] - 1})
                    ELSE Bit(d # 0)
<1>1. PICK w, h, m : Sized(z, w, h, m, d)
  BY Sizing
<1>2. w \in Nat \ {0} /\ h \in Nat \ {0} /\ w = Bits(z) /\ h = Half[z] /\ d \in Nat
      /\ m = 2 * h /\ d < m
      /\ h = Pow2[w - 1]
  BY <1>1 DEF Sized
<1>3. CASE n = 0
  <2>0. ~(n \in 1..(Bits(z) - 1)) /\ ~(n >= Bits(z)) /\ ~(n \in 1..Bits(z)) /\ ~(n > Bits(z))
    BY <1>2, <1>3
  <2>1. p = q /\ p.f.v = 0
    BY <1>3, <2>0 DEF Asl, Lsl, Unshifted, Logical, Result
  <2>2. d \div h = 0 \/ d \div h = 1
    BY <1>1, SignOf
  <2>3. n < w /\ w - n - 1 = w - 1 /\ Pow2[n + 1] = 2
    <3>1. Pow2[0 + 1] = 2 * Pow2[0] /\ Pow2[0] = 1
      BY Pow2Step
    <3>2. n < w /\ w - n - 1 = w - 1
      BY <1>2, <1>3
    <3> QED BY <1>3, <3>1, <3>2
  <2>4. Bit(d \div Pow2[w - n - 1] \notin {0, Pow2[n + 1] - 1}) = 0
    BY <1>2, <2>2, <2>3 DEF Bit
  <2> QED BY <1>2, <2>1, <2>3, <2>4
<1>4. CASE n \in 1..(w - 1)
  <2>1. PICK c : c = (d \div Pow2[Bits(z) - n - 1] \notin {0, Pow2[n + 1] - 1})
    OBVIOUS
  <2>2. PICK r : r = Shifted(z, Left(z, n, d), BitOf(d, Bits(z) - n))
    OBVIOUS
  <2>3. n # 0 /\ n \in 1..Bits(z) /\ n \in 1..(Bits(z) - 1) /\ ~(n >= Bits(z)) /\ n < Bits(z)
        /\ ~(n > Bits(z))
    BY <1>2, <1>4
  <2>4. q = r
    BY <2>2, <2>3 DEF Lsl
  <2>5. p = Overflowed(r, c)
    BY <2>1, <2>2, <2>3 DEF Asl
  <2>6. p.v = r.v /\ p.f.c = r.f.c /\ p.f.x = r.f.x /\ p.f.v = Bit(c)
    BY <2>2, <2>5 DEF Overflowed, Shifted, Result
  <2> QED BY <2>1, <2>3, <2>4, <2>6
<1>5. CASE n >= w
  <2>1. n # 0 /\ ~(n \in 1..(Bits(z) - 1)) /\ n >= Bits(z) /\ ~(n < Bits(z))
    BY <1>2, <1>5
  <2>2. PICK c : c = IF n = Bits(z) THEN d % 2 ELSE 0
    OBVIOUS
  <2>3. p.v = 0 /\ p.f.c = c /\ p.f.x = c /\ p.f.v = Bit(d # 0)
    BY <2>1, <2>2 DEF Asl, Overflowed, Shifted, Result
  <2>4. CASE n = w
    <3>1. BitOf(d, Bits(z) - n) = d % 2
      <4>1. Bits(z) - n = 0 /\ Pow2[0] = 1
        BY <1>2, <2>4, Pow2Step
      <4>2. d \div 1 = d
        BY <1>2
      <4> QED BY <4>1, <4>2 DEF BitOf
    <3>2. n \in 1..Bits(z) /\ n = Bits(z) /\ ~(n > Bits(z))
      BY <1>2, <2>4
    <3>3. PICK r : r = Shifted(z, Left(z, n, d), BitOf(d, Bits(z) - n))
      OBVIOUS
    <3>4. q = r
      BY <2>1, <3>2, <3>3 DEF Lsl
    <3>5. r = Shifted(z, 0, d % 2)
      BY <3>1, <3>2, <3>3, LeftEnds
    <3>6. q.v = 0 /\ q.f.c = d % 2 /\ q.f.x = d % 2
      BY <3>4, <3>5 DEF Shifted, Result
    <3> QED BY <2>1, <2>2, <2>3, <3>2, <3>6
  <2>5. CASE n # w
    <3>1. ~(n \in 1..Bits(z)) /\ n > Bits(z) /\ n # Bits(z)
      BY <1>2, <1>5, <2>5
    <3>2. q.v = 0 /\ q.f.c = 0 /\ q.f.x = 0
      BY <2>1, <3>1 DEF Lsl, Shifted, Result
    <3> QED BY <2>1, <2>2, <2>3, <3>1, <3>2
  <2> QED BY <2>4, <2>5
<1>6. n = 0 \/ n \in 1..(w - 1) \/ n >= w
  BY <1>2
<1> QED BY <1>3, <1>4, <1>5, <1>6

\* Whether the bits that passed are not all the same, when one more did.
LEMMA SignsPassed ==
  ASSUME NEW s \in Int, NEW c \in {0, 1}, NEW t \in Int, t = s + s + c,
         NEW g \in Nat \ {0}, NEW e \in Nat \ {0}, e = 2 * g
  PROVE  (IF t = 0 \/ t = 2 * e - 1 THEN 0 ELSE 1)
           = IF c # s % 2 THEN 1 ELSE IF s = 0 \/ s = e - 1 THEN 0 ELSE 1
<1>1. CASE s = 0
  <2>1. s % 2 = 0 /\ t = c /\ 2 * e - 1 > 1
    BY <1>1
  <2> QED BY <1>1, <2>1
<1>2. CASE s = e - 1
  <2>1. (e - 1) % 2 = 1
    OBVIOUS
  <2>2. s % 2 = 1 /\ t = 2 * e - 2 + c /\ t # 0 /\ (t = 2 * e - 1 <=> c = 1) /\ (c # 1 <=> c = 0)
    BY <1>2, <2>1
  <2>3. CASE c = 1
    BY <1>2, <2>2, <2>3
  <2>4. CASE c = 0
    BY <1>2, <2>2, <2>4
  <2> QED BY <2>3, <2>4
<1>3. CASE s # 0 /\ s # e - 1
  <2>1. t # 0 /\ t # 2 * e - 1
    BY <1>3
  <2> QED BY <1>3, <2>1
<1> QED BY <1>1, <1>2, <1>3

\* It is for asl too, and V says that the sign changed at one of the steps.
LEMMA AslStep ==
  ASSUME NEW z \in Sizes, NEW f, NEW d \in Range0(z), NEW k \in Nat,
         NEW p, p = Asl(z, f, k, d), NEW q, q = Asl(z, f, k + 1, d)
  PROVE  /\ Leftwards(Half[z], p, q)
         /\ q.f.v = IF q.v \div Half[z] # q.f.c THEN 1 ELSE p.f.v
<1>1. PICK w, h, m : Sized(z, w, h, m, d)
  BY Sizing
<1>2. w \in Nat \ {0} /\ h \in Nat \ {0} /\ w = Bits(z) /\ h = Half[z] /\ d \in Nat
      /\ h = Pow2[w - 1]
  BY <1>1 DEF Sized
<1>3. PICK l \in Nat : l = k + 1
  OBVIOUS
<1>4. PICK a, b : a = Lsl(z, f, k, d) /\ b = Lsl(z, f, l, d)
  OBVIOUS
<1>5. Leftwards(h, a, b)
  BY <1>2, <1>3, <1>4, LslStep
<1>6. /\ p.v = a.v /\ p.f.c = a.f.c /\ p.f.x = a.f.x
      /\ p.f.v = IF k < w THEN Bit(d \div Pow2[w - k - 1] \notin {0,
             Pow2[k + 1] - 1}) ELSE Bit(d # 0)
  BY <1>2, <1>4, AslIs
<1>7. /\ q.v = b.v /\ q.f.c = b.f.c /\ q.f.x = b.f.x
      /\ q.f.v = IF l < w THEN Bit(d \div Pow2[w - l - 1] \notin {0,
             Pow2[l + 1] - 1}) ELSE Bit(d # 0)
  <2>1. q = Asl(z, f, l, d)
    BY <1>3
  <2> QED BY <1>2, <1>4, <2>1, AslIs
<1>8. Leftwards(h, p, q)
  BY <1>5, <1>6, <1>7 DEF Leftwards
<1>9. CASE k < w
  <2>1. PICK s \in Int : s = d \div Pow2[w - k - 1] /\ q.f.c = s % 2 /\ w - k - 1 \in Nat
    <3>1. w - k - 1 \in Nat /\ k \in 0..w /\ d \in Int
      BY <1>2, <1>9
    <3>2. /\ d \div Pow2[w - k - 1] \in Int
          /\ BitOf(d, w - k - 1) = (d \div Pow2[w - k - 1]) % 2
      BY <3>1, BitDown
    <3>3. b.f.c = BitOf(d, w - k - 1)
      <4>1. l # 0 /\ l \in 1..Bits(z) /\ Bits(z) - l = w - k - 1 /\ ~(l > Bits(z))
        BY <1>2, <1>3, <1>9
      <4>2. PICK r : r = Shifted(z, Left(z, l, d), BitOf(d, Bits(z) - l))
        OBVIOUS
      <4>3. b = r
        BY <1>4, <4>1, <4>2 DEF Lsl
      <4> QED BY <4>1, <4>2, <4>3 DEF Shifted, Result
    <3> QED BY <1>7, <3>1, <3>2, <3>3
  <2>2. PICK e \in Nat \ {0}, g \in Nat \ {0} : e = Pow2[k + 1] /\ e = 2 * g
        /\ Pow2[l + 1] = 2 * e
    <3>1. Pow2[k] \in Nat \ {0} /\ Pow2[k + 1] = 2 * Pow2[k] /\ Pow2[k + 1] \in Nat \ {0}
          /\ Pow2[l + 1] = 2 * Pow2[l]
      BY Pow2Step
    <3> QED BY <1>3, <3>1
  <2>3. p.f.v = IF s = 0 \/ s = e - 1 THEN 0 ELSE 1
    BY <1>6, <1>9, <2>1, <2>2 DEF Bit
  <2>4. CASE l < w
    <3>1. PICK t \in Int, c \in {0, 1} :
            t = d \div Pow2[w - l - 1] /\ c = BitOf(d, w - l - 1) /\ c = t % 2 /\ s = t \div 2
      <4>0. w - l - 1 \in Nat /\ (w - l - 1) + 1 = w - k - 1
        BY <1>2, <1>3, <2>4
      <4>1. PICK j \in Nat : j = w - l - 1 /\ j + 1 = w - k - 1 /\ d \in Int
        BY <1>2, <4>0
      <4>2. /\ d \div Pow2[j] \in Int
            /\ d \div Pow2[j + 1] = (d \div Pow2[j]) \div 2 /\ BitOf(d, j) = (d \div Pow2[j]) % 2
        BY <4>1, BitDown
      <4>3. BitOf(d, j) \in {0, 1}
        BY <1>2, <4>1, BitOfBit
      <4> QED BY <2>1, <4>1, <4>2, <4>3
    <3>2. q.f.v = IF t = 0 \/ t = 2 * e - 1 THEN 0 ELSE 1
      BY <1>7, <2>2, <2>4, <3>1 DEF Bit
    <3>3. q.v \div h = c
      <4>1. PICK u \in Nat : u < h
            /\ Left(z, l, d) = u + (IF BitOf(d, w - l - 1) = 1 THEN h ELSE 0)
        BY <1>1, <2>4, LeftStep
      <4>2. b.v = Left(z, l, d)
        <5>1. l # 0 /\ l \in 1..Bits(z) /\ ~(l > Bits(z))
          BY <1>2, <1>3, <2>4
        <5> QED BY <1>4, <5>1 DEF Lsl, Shifted, Result
      <4>3. PICK v \in Int : v = q.v /\ v = u + (IF c = 1 THEN h ELSE 0)
        BY <1>2, <1>7, <3>1, <4>1, <4>2
      <4>4. c * h = IF c = 1 THEN h ELSE 0
        BY <1>2, <3>1
      <4>5. c \in Int /\ h \in Nat \ {0} /\ v \in Int /\ c * h <= v /\ v < c * h + h
        BY <1>2, <4>1, <4>3, <4>4
      <4>6. v \div h = c
        BY <4>5, DivIs
      <4> QED BY <4>3, <4>6
    <3>4. t = s + s + c
      BY <3>1
    <3>6. (IF t = 0 \/ t = 2 * e - 1 THEN 0 ELSE 1)
            = IF c # s % 2 THEN 1 ELSE IF s = 0 \/ s = e - 1 THEN 0 ELSE 1
      <4>1. /\ s \in Int /\ c \in {0, 1} /\ t \in Int /\ t = s + s + c
            /\ g \in Nat \ {0} /\ e \in Nat \ {0} /\ e = 2 * g
        BY <2>1, <2>2, <3>1, <3>4
      <4> QED BY <4>1, SignsPassed
    <3> QED BY <1>2, <1>8, <2>1, <2>3, <3>2, <3>3, <3>6
  <2>5. CASE l >= w
    <3>1. l = w /\ w - k - 1 = 0 /\ ~(l < w)
      BY <1>2, <1>3, <1>9, <2>5
    <3>2. s = d
      <4>1. Pow2[0] = 1 /\ d \div 1 = d
        BY <1>2, Pow2Step
      <4> QED BY <2>1, <3>1, <4>1
    <3>3. q.v = 0
      <4>1. l # 0 /\ l \in 1..Bits(z) /\ ~(l > Bits(z)) /\ Left(z, l, d) = 0
        BY <1>2, <1>3, <3>1, LeftEnds
      <4> QED BY <1>4, <1>7, <4>1 DEF Lsl, Shifted, Result
    <3>4. 0 \div h = 0
      BY <1>2
    <3>5. q.f.v = IF s = 0 THEN 0 ELSE 1
      BY <1>7, <3>1, <3>2 DEF Bit
    <3>6. (IF s = 0 THEN 0 ELSE 1)
            = IF 0 # s % 2 THEN 1 ELSE IF s = 0 \/ s = e - 1 THEN 0 ELSE 1
      BY <2>2
    <3> QED BY <1>2, <1>8, <2>1, <2>3, <3>3, <3>4, <3>5, <3>6
  <2> QED BY <1>2, <2>4, <2>5
<1>10. CASE k >= w
  <2>1. ~(k < w) /\ ~(l < w) /\ l # 0 /\ ~(l \in 1..Bits(z)) /\ l > Bits(z)
    BY <1>2, <1>3, <1>10
  <2>2. b.v = 0 /\ b.f.c = 0
    BY <1>4, <2>1 DEF Lsl, Shifted, Result
  <2>3. 0 \div h = 0
    BY <1>2
  <2> QED BY <1>2, <1>6, <1>7, <1>8, <2>1, <2>2, <2>3
<1> QED BY <1>2, <1>9, <1>10

\* A turn by one more place, by none and all the way round.
LEMMA TurnStep ==
  ASSUME NEW w \in Nat, NEW v \in 0..(Pow2[w] - 1), NEW k \in 0..(w - 1),
         NEW t \in Int, t = Turned(w, v, k)
  PROVE  /\ t % 2 = BitOf(v, k)
         /\ Turned(w, v, k + 1) = t \div 2 + (IF t % 2 = 1 THEN Pow2[w - 1] ELSE 0)
<1>1. PICK j \in Nat : j = w - k - 1 /\ w - k = j + 1 /\ w - (k + 1) = j /\ w - 1 = j + k
      /\ k \in Nat
  OBVIOUS
<1>2. PICK p \in Nat \ {0}, e \in Nat \ {0} :
        p = Pow2[k] /\ Pow2[k + 1] = 2 * p /\ e = Pow2[j] /\ Pow2[j + 1] = 2 * e
  <2>1. /\ Pow2[k] \in Nat \ {0} /\ Pow2[j] \in Nat \ {0}
        /\ Pow2[k + 1] = 2 * Pow2[k] /\ Pow2[j + 1] = 2 * Pow2[j]
    BY <1>1, Pow2Step
  <2> QED BY <2>1
<1>3. Pow2[w - 1] = e * p /\ p * e = e * p
  BY <1>1, <1>2, Pow2Sum
<1>4. PICK q \in Int, r \in Int, b \in {0, 1} :
        /\ q = v \div p /\ r = v % p /\ b = BitOf(v, k) /\ b = q % 2
        /\ v \div (2 * p) = q \div 2 /\ v % (2 * p) = r + (IF b = 1 THEN p ELSE 0)
  <2>1. v \in Int /\ k \in Nat
    BY <1>1
  <2>2. /\ v \div p \in Int /\ BitOf(v, k) = (v \div p) % 2
        /\ v \div (2 * p) = (v \div p) \div 2
        /\ v % (2 * p) = (v % p) + (IF BitOf(v, k) = 1 THEN p ELSE 0)
    BY <1>2, <2>1, BitDown
  <2>3. BitOf(v, k) \in {0, 1}
    BY <2>1, BitOfBit
  <2>4. v % p \in 0..(p - 1)
    BY <1>2, <2>1, Remainder
  <2>5. PICK q \in Int, b \in {0, 1}, r \in Int : q = v \div p /\ b = BitOf(v, k) /\ r = v % p
    BY <2>2, <2>3, <2>4
  <2>6. b = q % 2 /\ v \div (2 * p) = q \div 2
    BY <2>2, <2>5
  <2>7. v % (2 * p) = r + (IF b = 1 THEN p ELSE 0)
    BY <2>2, <2>5
  <2> QED BY <2>5, <2>6, <2>7
<1>5. PICK g \in Int : g = r * e
  BY <1>4
<1>6. t = q + (g + g)
  <2>1. r * (2 * e) = r * e + r * e
    BY <1>4
  <2> QED BY <1>1, <1>2, <1>4, <1>5, <2>1 DEF Turned
<1>7. t % 2 = b /\ t \div 2 = q \div 2 + g
  BY <1>4, <1>5, <1>6
<1>8. (r + (IF b = 1 THEN p ELSE 0)) * e = g + (IF b = 1 THEN p * e ELSE 0)
  <2>1. PICK c \in Int : c = IF b = 1 THEN p ELSE 0
    OBVIOUS
  <2>2. (r + c) * e = r * e + c * e
    BY <1>4, Distribute
  <2>3. c * e = IF b = 1 THEN p * e ELSE 0
    BY <2>1
  <2> QED BY <1>5, <2>1, <2>2, <2>3
<1>9. Turned(w, v, k + 1) = q \div 2 + (g + (IF b = 1 THEN p * e ELSE 0))
  BY <1>1, <1>2, <1>4, <1>8 DEF Turned
<1>10. PICK y \in Int, x \in Int : y = q \div 2 /\ x = p * e
  BY <1>4
<1>11. y + (g + (IF b = 1 THEN x ELSE 0)) = (y + g) + (IF b = 1 THEN x ELSE 0)
  BY <1>4, <1>5, <1>10
<1> QED BY <1>3, <1>4, <1>7, <1>9, <1>10, <1>11

\* Turned not at all or all the way round, a number is itself.
LEMMA TurnWhole ==
  ASSUME NEW w \in Nat, NEW v \in 0..(Pow2[w] - 1)
  PROVE  Turned(w, v, 0) = v /\ Turned(w, v, w) = v
<1>1. PICK p \in Nat \ {0} : p = Pow2[w] /\ Pow2[0] = 1 /\ v \in 0..(p - 1)
  BY Pow2Step
<1>2. w - 0 = w /\ w - w = 0 /\ v % 1 = 0 /\ v \div 1 = v /\ v \div p = 0 /\ v % p = v
      /\ 0 * p = 0
  BY <1>1
<1>3. Turned(w, v, 0) = v
  BY <1>1, <1>2 DEF Turned
<1>4. Turned(w, v, w) = v
  BY <1>1, <1>2 DEF Turned
<1> QED BY <1>3, <1>4

-----------------------------------------------------------------------------
(* Rotations, and rotations through X.                                       *)

\* Counting modulo a number.
LEMMA NextMod == ASSUME NEW w \in Nat \ {0}, NEW k \in Nat
  PROVE  /\ k % w \in 0..(w - 1)
         /\ (k + 1) % w = IF k % w = w - 1 THEN 0 ELSE (k % w) + 1
<1>1. PICK q \in Int, r \in 0..(w - 1) : r = k % w /\ k = q * w + r /\ q * w \in Int
  <2>1. PICK q \in Int : q = k \div w /\ q * w <= k /\ k < q * w + w /\ k % w = k - q * w
    BY DivBounds
  <2>2. PICK g \in Int : g = q * w
    BY <2>1
  <2>3. k - g \in 0..(w - 1) /\ k = g + (k - g)
    BY <2>1, <2>2
  <2> QED BY <2>1, <2>2, <2>3
<1>2. PICK i \in Int : i = IF r = w - 1 THEN q + 1 ELSE q
  BY <1>1
<1>3. PICK g \in Int : g = q * w
  BY <1>1
<1>4. i * w = IF r = w - 1 THEN g + w ELSE g
  <2>1. (q + 1) * w = q * w + 1 * w
    BY Distribute
  <2> QED BY <1>2, <1>3, <2>1
<1>5. /\ k + 1 \in Int /\ i * w <= k + 1 /\ k + 1 < i * w + w
      /\ (k + 1) - i * w = IF r = w - 1 THEN 0 ELSE r + 1
  BY <1>1, <1>3, <1>4
<1>6. (k + 1) % w = (k + 1) - i * w
  BY <1>5, DivIs
<1> QED BY <1>1, <1>5, <1>6

\* Turning once more to the right, and to the left, which undoes it.
LEMMA TurnNext ==
  ASSUME NEW w \in Nat \ {0}, NEW v \in 0..(Pow2[w] - 1), NEW k \in Nat,
         NEW t \in Int, t = Turned(w, v, k % w)
  PROVE  /\ t % 2 = BitOf(v, k % w)
         /\ Turned(w, v, (k + 1) % w) = t \div 2 + (IF t % 2 = 1 THEN Pow2[w - 1] ELSE 0)
<1>1. PICK j \in 0..(w - 1) : j = k % w /\ (k + 1) % w = IF j = w - 1 THEN 0 ELSE j + 1
  BY NextMod
<1>2. /\ t % 2 = BitOf(v, j)
      /\ Turned(w, v, j + 1) = t \div 2 + (IF t % 2 = 1 THEN Pow2[w - 1] ELSE 0)
  BY <1>1, TurnStep
<1>3. Turned(w, v, (k + 1) % w) = Turned(w, v, j + 1)
  <2>1. CASE j = w - 1
    <3>1. j + 1 = w /\ (k + 1) % w = 0
      BY <1>1, <2>1
    <3> QED BY <3>1, TurnWhole
  <2>2. CASE j # w - 1
    BY <1>1, <2>2
  <2> QED BY <2>1, <2>2
<1> QED BY <1>1, <1>2, <1>3

Back(w, n) == (w - (n % w)) % w

\* rol counts backwards: one place more undoes a step to the right.
LEMMA TurnBack ==
  ASSUME NEW w \in Nat \ {0}, NEW v \in 0..(Pow2[w] - 1), NEW k \in Nat,
         NEW u \in Int, u = Turned(w, v, Back(w, k + 1))
  PROVE  Turned(w, v, Back(w, k)) = u \div 2 + (IF u % 2 = 1 THEN Pow2[w - 1] ELSE 0)
<1>1. PICK j \in 0..(w - 1) : j = k % w /\ (k + 1) % w = IF j = w - 1 THEN 0 ELSE j + 1
  BY NextMod
<1>2. PICK i \in 0..(w - 1) : i = w - j - 1
  BY <1>1
<1>3. Back(w, k + 1) = i
  <2>1. CASE j = w - 1
    <3>1. (k + 1) % w = 0 /\ w - 0 = w /\ w % w = 0 /\ i = 0
      <4>1. 1 * w = w /\ w <= w /\ w < w + w /\ w - w = 0
        OBVIOUS
      <4>2. w % w = 0
        BY <4>1, DivIs
      <4> QED BY <1>1, <1>2, <2>1, <4>2
    <3> QED BY <3>1 DEF Back
  <2>2. CASE j # w - 1
    <3>1. (k + 1) % w = j + 1 /\ w - (j + 1) = i
      BY <1>1, <1>2, <2>2
    <3>2. i % w = i
      OBVIOUS
    <3> QED BY <3>1, <3>2 DEF Back
  <2> QED BY <2>1, <2>2
<1>4. Turned(w, v, Back(w, k)) = Turned(w, v, i + 1)
  <2>1. CASE j = 0
    <3>1. i + 1 = w /\ w - j = w
      BY <1>2, <2>1
    <3>2. w % w = 0
      <4>1. 1 * w = w /\ w <= w /\ w < w + w /\ w - w = 0
        OBVIOUS
      <4> QED BY <4>1, DivIs
    <3>3. Back(w, k) = 0
      BY <1>1, <3>1, <3>2 DEF Back
    <3> QED BY <3>1, <3>3, TurnWhole
  <2>2. CASE j # 0
    <3>1. PICK l \in 0..(w - 1) : l = i + 1 /\ l = w - j
      BY <1>2, <2>2
    <3>2. l % w = l
      OBVIOUS
    <3>3. Back(w, k) = l
      BY <1>1, <3>1, <3>2 DEF Back
    <3> QED BY <3>1, <3>3
  <2> QED BY <2>1, <2>2
<1>5. Turned(w, v, i + 1) = u \div 2 + (IF u % 2 = 1 THEN Pow2[w - 1] ELSE 0)
  BY <1>2, <1>3, TurnStep
<1> QED BY <1>4, <1>5

\* A step of ROR: the lowest bit goes to the top and to C.
LEMMA RorStep ==
  ASSUME NEW z \in Sizes, NEW f, NEW d \in Range0(z), NEW k \in Nat,
         NEW p, p = Ror(z, f, k, d), NEW q, q = Ror(z, f, k + 1, d)
  PROVE  /\ p.v \in Int /\ q.v = p.v \div 2 + (IF p.v % 2 = 1 THEN Half[z] ELSE 0)
         /\ q.f.c = p.v % 2 /\ q.f.x = p.f.x /\ q.f.v = p.f.v
<1>1. PICK w, h, m : Sized(z, w, h, m, d)
  BY Sizing
<1>2. w \in Nat \ {0} /\ w = Bits(z) /\ h = Half[z] /\ h = Pow2[w - 1] /\ d \in 0..(Pow2[w] - 1)
  BY <1>1 DEF Sized
<1>3. PICK t \in Int : t = Turned(w, d, k % w)
  <2>0. PICK j : j = k % w /\ j \in 0..(w - 1)
    BY <1>2, NextMod
  <2>1. k % w \in 0..w
    BY <1>2, <2>0
  <2>2. Turned(w, d, k % w) \in 0..(Pow2[w] - 1)
    BY <1>2, <2>1, TurnedRange
  <2>3. Pow2[w] \in Nat
    BY <1>2, Pow2Type
  <2> QED BY <2>2, <2>3
<1>4. p.v = t /\ p.f.x = f.x /\ p.f.v = 0
  <2>1. CASE k = 0
    <3>1. t = d
      <4>1. k % w = 0
        BY <1>2, <2>1
      <4> QED BY <1>2, <1>3, <4>1, TurnWhole
    <3> QED BY <2>1, <3>1 DEF Ror, Unshifted, Logical, Result
  <2>2. CASE k # 0
    BY <1>2, <1>3, <2>2 DEF Ror, Logical, Result
  <2> QED BY <2>1, <2>2
<1>5. PICK l \in Nat : l = k + 1 /\ l # 0 /\ l - 1 = k
  OBVIOUS
<1>6. q.v = Turned(w, d, l % w) /\ q.f.c = BitOf(d, k % w) /\ q.f.x = f.x /\ q.f.v = 0
  BY <1>2, <1>5 DEF Ror, Logical, Result
<1>7. /\ t % 2 = BitOf(d, k % w)
      /\ Turned(w, d, (k + 1) % w) = t \div 2 + (IF t % 2 = 1 THEN Pow2[w - 1] ELSE 0)
  BY <1>2, <1>3, TurnNext
<1> QED BY <1>2, <1>3, <1>4, <1>5, <1>6, <1>7

\* A step of ROL: the highest bit comes in at the bottom and goes to C.
LEMMA RolStep ==
  ASSUME NEW z \in Sizes, NEW f, NEW d \in Range0(z), NEW k \in Nat,
         NEW p, p = Rol(z, f, k, d), NEW q, q = Rol(z, f, k + 1, d)
  PROVE  /\ \E u \in 0..(Half[z] - 1), b \in {0, 1} :
              /\ p.v = u + (IF b = 1 THEN Half[z] ELSE 0)
              /\ q.v = u + u + b /\ q.f.c = b
         /\ q.f.x = p.f.x /\ q.f.v = p.f.v
<1>1. PICK w, h, m : Sized(z, w, h, m, d)
  BY Sizing
<1>2. w \in Nat \ {0} /\ w = Bits(z) /\ h = Half[z] /\ h = Pow2[w - 1] /\ d \in 0..(Pow2[w] - 1)
      /\ h \in Nat /\ Pow2[w] = 2 * h
  BY <1>1 DEF Sized
<1>3. PICK l \in Nat : l = k + 1 /\ l # 0
  OBVIOUS
<1>4. PICK t \in 0..(2 * h - 1) : t = Turned(w, d, Back(w, l))
  <2>0. PICK j : j = l % w /\ j \in 0..(w - 1)
    BY <1>2, <1>3, NextMod
  <2>1. PICK i \in Nat : i = w - j
    BY <1>2, <2>0
  <2>4. PICK o : o = i % w /\ o \in 0..(w - 1)
    BY <1>2, <2>1, NextMod
  <2>5. Back(w, l) = o
    BY <2>0, <2>1, <2>4 DEF Back
  <2>2. Back(w, l) \in 0..w
    BY <1>2, <2>4, <2>5
  <2>3. Turned(w, d, Back(w, l)) \in 0..(Pow2[w] - 1)
    BY <1>2, <2>2, TurnedRange
  <2> QED BY <1>2, <2>3
<1>5. Turned(w, d, Back(w, k)) = t \div 2 + (IF t % 2 = 1 THEN Pow2[w - 1] ELSE 0)
  <2>1. t \in Int /\ t = Turned(w, d, Back(w, k + 1))
    BY <1>2, <1>3, <1>4
  <2> QED BY <1>2, <2>1, TurnBack
<1>6. p.v = Turned(w, d, Back(w, k)) /\ p.f.x = f.x /\ p.f.v = 0
  <2>1. CASE k = 0
    <3>1. Back(w, k) = 0
      <4>1. 1 * w = w /\ w <= w /\ w < w + w /\ w - w = 0 /\ k % w = 0 /\ w - 0 = w
        BY <1>2, <2>1
      <4>2. w % w = 0
        BY <1>2, <4>1, DivIs
      <4> QED BY <4>1, <4>2 DEF Back
    <3>2. Turned(w, d, 0) = d
      BY <1>2, TurnWhole
    <3> QED BY <2>1, <3>1, <3>2 DEF Rol, Unshifted, Logical, Result
  <2>2. CASE k # 0
    BY <1>2, <2>2 DEF Rol, Logical, Result, Back
  <2> QED BY <2>1, <2>2
<1>7. q.v = t /\ q.f.c = t % 2 /\ q.f.x = f.x /\ q.f.v = 0
  BY <1>2, <1>3, <1>4 DEF Rol, Logical, Result, Back
<1>8. PICK u \in 0..(h - 1), b \in {0, 1} : u = t \div 2 /\ b = t % 2 /\ t = u + u + b
  BY <1>2, <1>4
<1> QED BY <1>2, <1>5, <1>6, <1>7, <1>8

\* X above the operand.
LEMMA Widened1 ==
  ASSUME NEW z \in Sizes, NEW f \in Flags, NEW d \in Range0(z)
  PROVE  \E w \in Nat \ {0}, h \in Nat \ {0}, m \in Nat \ {0}, v \in Nat :
           /\ w = Bits(z) + 1 /\ h = Half[z] /\ m = Mod(z) /\ m = 2 * h /\ m = Pow2[w - 1]
           /\ v = d + f.x * Mod(z) /\ v \in 0..(Pow2[w] - 1) /\ Pow2[w] = 2 * m
<1>1. PICK b, h, m : Sized(z, b, h, m, d)
  BY Sizing
<1>2. /\ b \in Nat /\ h \in Nat \ {0} /\ m \in Nat \ {0} /\ d \in Nat /\ d < m
      /\ b = Bits(z) /\ h = Half[z] /\ m = Mod(z) /\ m = 2 * h /\ m = Pow2[b]
  BY <1>1 DEF Sized
<1>3. PICK x \in {0, 1} : x = f.x
  BY DEF Flags
<1>4. x * m = IF x = 1 THEN m ELSE 0
  BY <1>2, <1>3
<1>5. PICK w \in Nat \ {0} : w = b + 1 /\ w - 1 = b
  BY <1>2
<1>6. Pow2[w] = 2 * m
  BY <1>2, <1>5, Pow2Step
<1>7. PICK v \in Nat : v = d + x * m /\ v \in 0..(2 * m - 1)
  BY <1>2, <1>3, <1>4
<1>8. m = Pow2[w - 1] /\ w = Bits(z) + 1 /\ v = d + f.x * Mod(z) /\ v \in 0..(Pow2[w] - 1)
  BY <1>2, <1>3, <1>5, <1>6, <1>7
<1> QED BY <1>2, <1>5, <1>6, <1>8

\* The parts of a turned operand with X.
Parted(m, r, q) == q.v = r % m /\ q.f.x = r \div m /\ q.f.c = r \div m /\ q.f.v = 0

\* The circle with X in it is X and an operand.
LEMMA PartsOf ==
  ASSUME NEW h \in Nat \ {0}, NEW m \in Nat \ {0}, m = 2 * h, NEW r \in 0..(2 * m - 1)
  PROVE  \E v \in 0..(m - 1), x \in {0, 1} :
           v = r % m /\ x = r \div m /\ r = v + (IF x = 1 THEN m ELSE 0)
<1>1. PICK k \in {0, 1} : k = IF r < m THEN 0 ELSE 1
  OBVIOUS
<1>2. k * m = IF k = 1 THEN m ELSE 0
  OBVIOUS
<1>3. k \in Int /\ r \in Int /\ k * m <= r /\ r < k * m + m
  BY <1>1, <1>2
<1>4. r \div m = k /\ r % m = r - k * m
  BY <1>3, DivIs
<1>5. PICK v \in 0..(m - 1) : v = r - k * m /\ r = v + (IF k = 1 THEN m ELSE 0)
  BY <1>1, <1>2
<1> QED BY <1>4, <1>5

\* What a turn by one does to the parts, both ways.
LEMMA RightParts ==
  ASSUME NEW h \in Nat \ {0}, NEW m \in Nat \ {0}, m = 2 * h,
         NEW a \in 0..(m - 1), NEW x \in {0, 1}, NEW b \in 0..(m - 1), NEW y \in {0, 1},
         NEW r \in Int, r = a + (IF x = 1 THEN m ELSE 0),
         NEW t \in Int, t = b + (IF y = 1 THEN m ELSE 0),
         t = r \div 2 + (IF r % 2 = 1 THEN m ELSE 0)
  PROVE  b = a \div 2 + (IF x = 1 THEN h ELSE 0) /\ y = a % 2
<1>1. PICK c \in Int, e \in {0, 1} : c = a \div 2 /\ e = a % 2 /\ a = c + c + e
  OBVIOUS
<1>2. PICK g \in Int : g = c + (IF x = 1 THEN h ELSE 0) /\ 0 <= g /\ g < m
  BY <1>1
<1>3. r = g + g + e
  BY <1>1, <1>2
<1>4. r \div 2 = g /\ r % 2 = e
  BY <1>1, <1>2, <1>3
<1>5. t = g + (IF e = 1 THEN m ELSE 0)
  BY <1>4
<1>6. b + (IF y = 1 THEN m ELSE 0) = g + (IF e = 1 THEN m ELSE 0)
  BY <1>5
<1>7. b = g /\ y = e
  BY <1>1, <1>2, <1>6
<1> QED BY <1>1, <1>2, <1>7

LeftParted(h, a, b, x, y) ==
  \E s \in 0..(h - 1) : a = s + (IF y = 1 THEN h ELSE 0) /\ b = s + s + x

\* A step to the left takes the highest bit to X, and X comes in below.
LEMMA LeftParts ==
  ASSUME NEW h \in Nat \ {0}, NEW m \in Nat \ {0}, m = 2 * h,
         NEW a \in 0..(m - 1), NEW x \in {0, 1}, NEW b \in 0..(m - 1), NEW y \in {0, 1},
         NEW r \in Int, r = a + (IF x = 1 THEN m ELSE 0),
         NEW t \in Int, t = b + (IF y = 1 THEN m ELSE 0),
         r = t \div 2 + (IF t % 2 = 1 THEN m ELSE 0)
  PROVE  LeftParted(h, a, b, x, y)
<1>1. PICK s \in Int, e \in {0, 1} : s = b \div 2 /\ e = b % 2 /\ b = s + s + e
  OBVIOUS
<1>2. s \in 0..(h - 1)
  BY <1>1
<1>3. PICK g \in Int : g = s + (IF y = 1 THEN h ELSE 0) /\ 0 <= g /\ g < m
  BY <1>2
<1>4. t = g + g + e
  BY <1>1, <1>3
<1>5. t \div 2 = g /\ t % 2 = e
  BY <1>1, <1>3, <1>4
<1>6. a + (IF x = 1 THEN m ELSE 0) = g + (IF e = 1 THEN m ELSE 0)
  BY <1>5
<1>7. a = g /\ x = e
  BY <1>1, <1>3, <1>6
<1> QED BY <1>1, <1>2, <1>3, <1>7 DEF LeftParted

\* A rotation through X leaves the parts of the turned circle.
LEMMA ThroughIs ==
  ASSUME NEW z, NEW f, NEW d, NEW n, NEW m, m = Mod(z), NEW v, v = d + f.x * Mod(z),
         NEW w, w = Bits(z) + 1, NEW r, r = Turned(w, v, n), NEW q, q = Through(z, f, d, n)
  PROVE  Parted(m, r, q)
<1>1. q = Shifted(z, r % m, r \div m)
  BY DEF Through, Masked
<1> QED BY <1>1 DEF Shifted, Result, Parted

\* How far the circle is turned, to the right and to the left.
LEMMA RoxIs ==
  ASSUME NEW z, Bits(z) \in Nat, NEW f, NEW d, NEW n \in Nat, NEW w, w = Bits(z) + 1
  PROVE  Roxr(z, f, n, d) = Through(z, f, d, n % w)
        /\ Roxl(z, f, n, d) = Through(z, f, d, Back(w, n))
<1>1. PICK j \in Int : j = n % w
  <2>1. n % w \in 0..(w - 1)
    BY NextMod
  <2> QED BY <2>1
<1>2. Bits(z) + 1 - (n % w) = w - (n % w)
  BY <1>1
<1>3. Roxr(z, f, n, d) = Through(z, f, d, n % w)
  BY DEF Roxr
<1>4. Roxl(z, f, n, d) = Through(z, f, d, Back(w, n))
  BY <1>2 DEF Roxl, Back
<1> QED BY <1>3, <1>4

\* One place more of roxr moves X in at the top and the lowest bit to X.
LEMMA RoxrStep ==
  ASSUME NEW z \in Sizes, NEW f \in Flags, NEW d \in Range0(z), NEW k \in Nat,
         NEW p, p = Roxr(z, f, k, d), NEW q, q = Roxr(z, f, k + 1, d)
  PROVE  /\ p.v \in Int /\ q.v = p.v \div 2 + (IF p.f.x = 1 THEN Half[z] ELSE 0)
         /\ p.f.x \in {0, 1} /\ q.f.c = p.v % 2 /\ q.f.x = p.v % 2 /\ q.f.v = p.f.v
<1>1. PICK w \in Nat \ {0}, h \in Nat \ {0}, m \in Nat \ {0}, v \in Nat :
        /\ w = Bits(z) + 1 /\ h = Half[z] /\ m = Mod(z) /\ m = 2 * h /\ m = Pow2[w - 1]
        /\ v = d + f.x * Mod(z) /\ v \in 0..(Pow2[w] - 1) /\ Pow2[w] = 2 * m
  BY Widened1
<1>2. \A i \in Nat : Turned(w, v, i % w) \in 0..(2 * m - 1)
  <2>1. SUFFICES ASSUME NEW i \in Nat PROVE Turned(w, v, i % w) \in 0..(2 * m - 1)
    OBVIOUS
  <2>2. PICK j : j = i % w /\ j \in 0..(w - 1)
    BY <1>1, NextMod
  <2>3. j \in 0..w
    BY <2>2
  <2>4. Turned(w, v, j) \in 0..(Pow2[w] - 1)
    BY <1>1, <2>3, TurnedRange
  <2> QED BY <1>1, <2>2, <2>4
<1>3. PICK l \in Nat : l = k + 1
  OBVIOUS
<1>4. PICK r \in 0..(2 * m - 1), t \in 0..(2 * m - 1) :
        r = Turned(w, v, k % w) /\ t = Turned(w, v, l % w)
  BY <1>2
<1>5. t = r \div 2 + (IF r % 2 = 1 THEN m ELSE 0)
  <2>1. r \in Int /\ r = Turned(w, v, k % w)
    BY <1>4
  <2>2. Turned(w, v, (k + 1) % w) = r \div 2 + (IF r % 2 = 1 THEN Pow2[w - 1] ELSE 0)
    BY <1>1, <2>1, TurnNext
  <2> QED BY <1>1, <1>3, <1>4, <2>2
<1>6. Parted(m, r, p) /\ Parted(m, t, q)
  BY <1>1, <1>3, <1>4 DEF Roxr, Through, Shifted, Result, Masked, Parted
<1>7. PICK a \in 0..(m - 1), x \in {0, 1} : a = r % m /\ x = r \div m
      /\ r = a + (IF x = 1 THEN m ELSE 0)
  BY <1>1, <1>4, PartsOf
<1>8. PICK b \in 0..(m - 1), y \in {0, 1} : b = t % m /\ y = t \div m
      /\ t = b + (IF y = 1 THEN m ELSE 0)
  BY <1>1, <1>4, PartsOf
<1>9. r \in Int /\ t \in Int
  BY <1>4
<1>10. b = a \div 2 + (IF x = 1 THEN h ELSE 0) /\ y = a % 2
  <2>1. /\ h \in Nat \ {0} /\ m \in Nat \ {0} /\ m = 2 * h
        /\ a \in 0..(m - 1) /\ x \in {0, 1} /\ b \in 0..(m - 1) /\ y \in {0, 1}
        /\ r \in Int /\ r = a + (IF x = 1 THEN m ELSE 0)
        /\ t \in Int /\ t = b + (IF y = 1 THEN m ELSE 0)
        /\ t = r \div 2 + (IF r % 2 = 1 THEN m ELSE 0)
    BY <1>1, <1>5, <1>7, <1>8, <1>9
  <2> QED BY <2>1, RightParts
<1>11. p.v = a /\ p.f.x = x /\ p.f.v = 0 /\ q.v = b /\ q.f.x = y /\ q.f.c = y /\ q.f.v = 0
  BY <1>6, <1>7, <1>8 DEF Parted
<1>12. a \in Int
  BY <1>7
<1> QED BY <1>1, <1>7, <1>10, <1>11, <1>12

\* One place more of roxl moves X in below and the highest bit to X.
LEMMA RoxlStep ==
  ASSUME NEW z \in Sizes, NEW f \in Flags, NEW d \in Range0(z), NEW k \in Nat,
         NEW p, p = Roxl(z, f, k, d), NEW q, q = Roxl(z, f, k + 1, d)
  PROVE  /\ LeftParted(Half[z], p.v, q.v, p.f.x, q.f.c) /\ q.f.c \in {0, 1} /\ q.f.x = q.f.c
         /\ p.f.x \in {0, 1} /\ q.f.v = p.f.v
<1>1. PICK w \in Nat \ {0}, h \in Nat \ {0}, m \in Nat \ {0}, v \in Nat :
        /\ w = Bits(z) + 1 /\ h = Half[z] /\ m = Mod(z) /\ m = 2 * h /\ m = Pow2[w - 1]
        /\ v = d + f.x * Mod(z) /\ v \in 0..(Pow2[w] - 1) /\ Pow2[w] = 2 * m
  BY Widened1
<1>2. \A i \in Nat : Turned(w, v, Back(w, i)) \in 0..(2 * m - 1)
  <2>1. SUFFICES ASSUME NEW i \in Nat PROVE Turned(w, v, Back(w, i)) \in 0..(2 * m - 1)
    OBVIOUS
  <2>2. PICK j : j = i % w /\ j \in 0..(w - 1)
    BY <1>1, NextMod
  <2>3. PICK n \in Nat : n = w - j
    BY <1>1, <2>2
  <2>4. PICK o : o = n % w /\ o \in 0..(w - 1)
    BY <1>1, <2>3, NextMod
  <2>5. Back(w, i) = o /\ o \in 0..w
    BY <2>2, <2>3, <2>4 DEF Back
  <2>6. Turned(w, v, o) \in 0..(Pow2[w] - 1)
    BY <1>1, <2>5, TurnedRange
  <2> QED BY <1>1, <2>5, <2>6
<1>3. PICK l \in Nat : l = k + 1
  OBVIOUS
<1>4. PICK r \in 0..(2 * m - 1), t \in 0..(2 * m - 1) :
        r = Turned(w, v, Back(w, k)) /\ t = Turned(w, v, Back(w, l))
  BY <1>2
<1>5. r = t \div 2 + (IF t % 2 = 1 THEN m ELSE 0)
  <2>1. t \in Int
    BY <1>4
  <2> QED BY <1>1, <1>3, <1>4, <2>1, TurnBack
<1>6. Parted(m, r, p) /\ Parted(m, t, q)
  <2>1. p = Through(z, f, d, Back(w, k)) /\ q = Through(z, f, d, Back(w, l))
    <3>1. Bits(z) \in Nat /\ w = Bits(z) + 1
      BY <1>1, Widths
    <3> QED BY <1>3, <3>1, RoxIs
  <2>2. PICK i, j : i = Back(w, k) /\ j = Back(w, l)
    OBVIOUS
  <2>3. m = Mod(z) /\ v = d + f.x * Mod(z) /\ w = Bits(z) + 1
    BY <1>1
  <2>4. p = Through(z, f, d, i) /\ r = Turned(w, v, i) /\ q = Through(z, f, d, j)
        /\ t = Turned(w, v, j)
    BY <1>4, <2>1, <2>2
  <2>5. Parted(m, r, p)
    BY <2>3, <2>4, ThroughIs
  <2>6. Parted(m, t, q)
    BY <2>3, <2>4, ThroughIs
  <2> QED BY <2>5, <2>6
<1>7. PICK a \in 0..(m - 1), x \in {0, 1} : a = r % m /\ x = r \div m
      /\ r = a + (IF x = 1 THEN m ELSE 0)
  BY <1>1, <1>4, PartsOf
<1>8. PICK b \in 0..(m - 1), y \in {0, 1} : b = t % m /\ y = t \div m
      /\ t = b + (IF y = 1 THEN m ELSE 0)
  BY <1>1, <1>4, PartsOf
<1>9. r \in Int /\ t \in Int
  BY <1>4
<1>10. LeftParted(h, a, b, x, y)
  <2>1. /\ h \in Nat \ {0} /\ m \in Nat \ {0} /\ m = 2 * h
        /\ a \in 0..(m - 1) /\ x \in {0, 1} /\ b \in 0..(m - 1) /\ y \in {0, 1}
        /\ r \in Int /\ r = a + (IF x = 1 THEN m ELSE 0)
        /\ t \in Int /\ t = b + (IF y = 1 THEN m ELSE 0)
        /\ r = t \div 2 + (IF t % 2 = 1 THEN m ELSE 0)
    BY <1>1, <1>5, <1>7, <1>8, <1>9
  <2> QED BY <2>1, LeftParts
<1>11. p.v = a /\ p.f.x = x /\ p.f.v = 0 /\ q.v = b /\ q.f.x = y /\ q.f.c = y /\ q.f.v = 0
  BY <1>6, <1>7, <1>8 DEF Parted
<1> QED BY <1>1, <1>7, <1>8, <1>10, <1>11

-----------------------------------------------------------------------------
(* Sums and addresses.                                                     *)

\* Every number is a multiple and a remainder.
LEMMA DivMod == ASSUME NEW v \in Int, NEW h \in Nat \ {0}
  PROVE  \E q \in Int : \E r \in 0..(h - 1) :
           q = v \div h /\ r = v % h /\ v = q * h + r /\ q * h \in Int
<1>1. PICK q \in Int : q = v \div h /\ q * h <= v /\ v < q * h + h /\ v % h = v - q * h
  BY DivBounds
<1>2. q * h \in Int
  OBVIOUS
<1>3. PICK r \in Int : r = v - q * h
  BY <1>2
<1>4. r \in 0..(h - 1) /\ v = q * h + r /\ r = v % h
  BY <1>1, <1>2, <1>3
<1> QED BY <1>1, <1>2, <1>4

\* A sum is cut once or twice, and what a cut number is of.
LEMMA ModSum == ASSUME NEW a \in Int, NEW b \in Int, NEW h \in Nat \ {0}
  PROVE  ((a % h) + b) % h = (a + b) % h
<1>1. PICK q \in Int, r \in 0..(h - 1) : r = a % h /\ a = q * h + r
  BY DivMod
<1>2. PICK c \in Int : c = r + b
  OBVIOUS
<1>3. PICK k \in Int, t \in 0..(h - 1) : t = c % h /\ c = k * h + t
  BY DivMod
<1>4. PICK s \in Int, j \in Int : s = a + b /\ j = q + k
  OBVIOUS
<1>5. j * h = q * h + k * h /\ q * h \in Int /\ k * h \in Int
  BY <1>4
<1>6. j * h <= s /\ s < j * h + h /\ t = s - j * h
  BY <1>1, <1>2, <1>3, <1>4, <1>5
<1>7. s % h = t
  BY <1>6, DivIs
<1> QED BY <1>1, <1>2, <1>3, <1>4, <1>7

\* Addresses with the same distance from one address are the same.
LEMMA ModInjective ==
  ASSUME NEW h \in Nat \ {0}, NEW b \in 0..(h - 1), NEW c \in 0..(h - 1), NEW at \in Int,
         (b - at) % h = (c - at) % h
  PROVE  b = c
<1>1. b - at \in Int /\ c - at \in Int
  OBVIOUS
<1>2. PICK p \in Int : (b - at) % h = (b - at) - p * h
  BY <1>1, DivBounds
<1>3. PICK q \in Int : (c - at) % h = (c - at) - q * h
  BY <1>1, DivBounds
<1>4. p * h \in Int /\ q * h \in Int /\ b - c = p * h - q * h
  BY <1>2, <1>3
<1>5. ~(p + 1 <= q)
  <2>1. p + 1 <= q => (p + 1) * h <= q * h
    BY Times
  <2>2. (p + 1) * h = p * h + h
    OBVIOUS
  <2> QED BY <1>4, <2>1, <2>2
<1>6. ~(q + 1 <= p)
  <2>1. q + 1 <= p => (q + 1) * h <= p * h
    BY Times
  <2>2. (q + 1) * h = q * h + h
    OBVIOUS
  <2> QED BY <1>4, <2>1, <2>2
<1> QED BY <1>4, <1>5, <1>6

\* A sum masked twice is masked once.
LEMMA MaskedSum == ASSUME NEW z \in Sizes, NEW a \in Int, NEW b \in Int
  PROVE  Masked(z, Masked(z, a) + b) = Masked(z, a + b)
<1>1. PICK m \in Nat \ {0} : m = Mod(z)
  BY Widths
<1> QED BY <1>1, ModSum DEF Masked

-----------------------------------------------------------------------------
\* The bytes of a run of addresses, and of several of them.
Space == 0..(AddressSpace - 1)

\* There is room for the stacks and vectors in the address space, and it ends.
LEMMA SpaceIs == AddressSpace \in Nat \ {0} /\ AddressSpace >= 64 /\ IsFiniteSet(Space)
<1>1. AddressSpace \in Nat \ {0} /\ AddressSpace >= 64
  BY AddressAssumption, Widths DEF Sizes
<1> QED BY <1>1, FS_Interval DEF Space

\* No more than n addresses are less than n behind one.
LEMMA RunBytes ==
  ASSUME NEW T \in SUBSET Space, NEW at \in Int, NEW n \in Nat,
         \A b \in T : (b - at) % AddressSpace < n
  PROVE  Cardinality(T) <= n
<1> DEFINE f == [b \in T |-> (b - at) % AddressSpace]
<1>1. \A b \in T : (b - at) % AddressSpace \in 0..(n - 1)
  BY SpaceIs, Remainder DEF Space
<1>2. \A b \in T : \A c \in T : f[b] = f[c] => b = c
  BY SpaceIs, ModInjective DEF Space
<1>3. f \in Injection(T, 0..(n - 1))
  BY <1>1, <1>2, Fun_IsInj
<1>4. IsFiniteSet(0..(n - 1)) /\ Cardinality(0..(n - 1)) = n
  BY FS_Interval
<1> HIDE DEF f
<1> QED BY <1>3, <1>4, FS_Injection

\* So the addresses in several runs are no more than the runs together have.
LEMMA RunsBytes ==
  ASSUME NEW T \in SUBSET Space, NEW R, IsFiniteSet(R), NEW place \in [R -> Int], NEW n \in Nat,
         \A b \in T : \E r \in R : (b - place[r]) % AddressSpace < n
  PROVE  Cardinality(T) <= Cardinality(R) * n
<1>1. PICK g \in [T -> R] : \A b \in T : (b - place[g[b]]) % AddressSpace < n
  <2> DEFINE h == [b \in T |-> CHOOSE r \in R : (b - place[r]) % AddressSpace < n]
  <2>1. \A b \in T : h[b] \in R /\ (b - place[h[b]]) % AddressSpace < n
    OBVIOUS
  <2> QED BY <2>1
<1> DEFINE f == [b \in T |-> <<g[b], (b - place[g[b]]) % AddressSpace>>]
<1>2. ASSUME NEW b \in T PROVE (b - place[g[b]]) % AddressSpace \in 0..(n - 1)
  <2>1. PICK at \in Int : at = place[g[b]]
    OBVIOUS
  <2>2. (b - at) % AddressSpace \in 0..(AddressSpace - 1)
    <3>1. b - at \in Int
      BY DEF Space
    <3> QED BY <3>1, SpaceIs, Remainder
  <2>3. (b - at) % AddressSpace < n
    BY <1>1, <2>1
  <2> QED BY <2>1, <2>2, <2>3, SpaceIs
<1>3. f \in [T -> R \X (0..(n - 1))]
  BY <1>2
<1>4. ASSUME NEW b \in T, NEW c \in T, f[b] = f[c] PROVE b = c
  <2>1. g[b] = g[c] /\ (b - place[g[b]]) % AddressSpace = (c - place[g[c]]) % AddressSpace
    BY <1>4
  <2>2. PICK at \in Int : at = place[g[b]] /\ at = place[g[c]]
    BY <2>1
  <2> QED BY <2>1, <2>2, SpaceIs, ModInjective DEF Space
<1>5. f \in Injection(T, R \X (0..(n - 1)))
  BY <1>3, <1>4, Fun_IsInj
<1>6. IsFiniteSet(0..(n - 1)) /\ Cardinality(0..(n - 1)) = n
  BY FS_Interval
<1>7. IsFiniteSet(R \X (0..(n - 1))) /\ Cardinality(R \X (0..(n - 1))) = Cardinality(R) * n
  BY <1>6, FS_Product
<1> HIDE DEF f
<1> QED BY <1>5, <1>7, FS_Injection

-----------------------------------------------------------------------------
(* Operands.                                                               *)

\* One machine after another when an operand was found: but for the counter,
\* w words further, and address registers of As, they are the same.
Stepped(m, n, As, w) ==
  /\ n \in Machine /\ n.d = m.d /\ n.mem = m.mem /\ n.f = m.f /\ n.trap = m.trap
  /\ \A r \in Registers : n.a[r] = m.a[r] \/ r \in As
  /\ n.pc = Masked(4, m.pc + 2 * w)

\* The three sizes.
LEMMA SizeIs == 1 \in Sizes /\ 2 \in Sizes /\ 4 \in Sizes
BY DEF Sizes

\* Longs are numbers, and masking leaves them alone.
LEMMA LongIs == Mod(4) \in Nat \ {0} /\ \A v \in Range0(4) : v \in Nat /\ Masked(4, v) = v
BY SizeIs, Widths, MaskedSame

\* The parts of a machine and their types.
LEMMA MachineIs == ASSUME NEW m \in Machine
  PROVE  /\ m.d \in [Registers -> Range0(4)] /\ m.a \in [Registers -> Range0(4)]
         /\ m.mem \in [Space -> Range0(1)] /\ m.pc \in Range0(4) /\ m.pc \in Nat
         /\ m.f \in Flags /\ m.trap \in {"none", "zero_divide", "chk", "trapv"}
         /\ \A r \in Registers : m.d[r] \in Nat /\ m.a[r] \in Nat
         /\ m = [d |-> m.d, a |-> m.a, mem |-> m.mem, pc |-> m.pc, f |-> m.f, trap |-> m.trap]
BY LongIs DEF Machine, Space

\* Nothing happened: no word was read.
LEMMA SteppedStill == ASSUME NEW m \in Machine PROVE Stepped(m, m, {}, 0)
BY MachineIs, LongIs DEF Stepped

\* One finding behind another: their words add up.
LEMMA SteppedOn ==
  ASSUME NEW m \in Machine, NEW n, NEW p, NEW As, NEW Bs, NEW w \in Nat, NEW v \in Nat,
         Stepped(m, n, As, w), Stepped(n, p, Bs, v)
  PROVE  Stepped(m, p, As \cup Bs, w + v)
<1>1. p.pc = Masked(4, m.pc + 2 * (w + v))
  <2>1. m.pc + 2 * w \in Int /\ 2 * v \in Int
    BY MachineIs
  <2>2. Masked(4, Masked(4, m.pc + 2 * w) + 2 * v) = Masked(4, (m.pc + 2 * w) + 2 * v)
    BY <2>1, SizeIs, MaskedSum
  <2>3. (m.pc + 2 * w) + 2 * v = m.pc + 2 * (w + v)
    BY MachineIs
  <2> QED BY <2>2, <2>3 DEF Stepped
<1> QED BY <1>1 DEF Stepped

\* Skipping w words moves the counter by w words.
LEMMA SkipSteps == ASSUME NEW m \in Machine, NEW w \in Nat
  PROVE  Stepped(m, Skip(m, w), {}, w) /\ Skip(m, w) \in Machine
<1>1. Masked(4, m.pc + 2 * w) \in Range0(4)
  BY MachineIs, SizeIs, MaskedRange
<1>2. Skip(m, w) = [m EXCEPT !.pc = Masked(4, m.pc + 2 * w)]
  BY DEF Skip
<1>3. Skip(m, w) \in Machine
  BY <1>1, <1>2 DEF Machine
<1> QED BY <1>2, <1>3, MachineIs DEF Stepped

\* (An)+ and -(An) set one address register.
LEMMA AddressSteps == ASSUME NEW m \in Machine, NEW r \in Registers, NEW v \in Range0(4)
  PROVE  Stepped(m, [m EXCEPT !.a[r] = v], {r}, 0) /\ [m EXCEPT !.a[r] = v].a[r] = v
<1>1. PICK n : n = [m EXCEPT !.a[r] = v]
  OBVIOUS
<1>2. n \in Machine
  BY <1>1 DEF Machine
<1> QED BY <1>1, <1>2, MachineIs, LongIs DEF Stepped

\* Bytes and what they make.
LEMMA ByteIs == ASSUME NEW m \in Machine, NEW at \in Int
  PROVE  ByteAt(m, at) \in 0..(Mod(1) - 1)
<1>1. at % AddressSpace \in Space
  BY SpaceIs, Remainder DEF Space
<1> QED BY <1>1, MachineIs DEF ByteAt, Range0

\* A read gives a value of its size, from bytes side by side or every other one (movep).
LEMMA ReadRange ==
  ASSUME NEW m \in Machine, NEW z \in Sizes, NEW at \in Int, NEW n \in Nat
  PROVE  ReadEvery(m, z, at, n) \in Range0(z)
<1>1. PICK h \in Nat \ {0}, g \in Nat \ {0} : /\ h = Mod(1) /\ g = Mod(2)
                                              /\ Mod(2) = h * h /\ Mod(4) = g * g
  BY SizeIs, Widths
<1>2. \A a \in Int : ByteAt(m, a) \in 0..(h - 1)
  BY <1>1, ByteIs
<1>3. \A a \in Int : ByteAt(m, a) * h + ByteAt(m, a + n) \in 0..(g - 1)
  BY <1>1, <1>2, TwoDigits
<1>4. at + 2 * n \in Int
  OBVIOUS
<1>5. (ByteAt(m, at) * h + ByteAt(m, at + n)) * g
        + (ByteAt(m, at + 2 * n) * h + ByteAt(m, at + 2 * n + n)) \in 0..(g * g - 1)
  BY <1>3, <1>4, TwoDigits
<1>6. CASE z = 1
  BY <1>1, <1>2, <1>6 DEF ReadEvery, Range0
<1>7. CASE z = 2
  BY <1>1, <1>3, <1>7 DEF ReadEvery, Range0
<1>8. CASE z = 4
  BY <1>1, <1>5, <1>8 DEF ReadEvery, Range0
<1> QED BY <1>6, <1>7, <1>8 DEF Sizes

\* A byte of a value is a byte.
LEMMA ByteOfRange ==
  ASSUME NEW z \in Sizes, NEW v \in Int, NEW k \in 0..(z - 1)
  PROVE  ByteOf(z, v, k) \in Range0(1)
<1>1. Bits(z - 1 - k) \in Nat
  BY WidthAssumption DEF Bits, Sizes
<1>2. PICK p \in Nat \ {0} : p = Pow2[Bits(z - 1 - k)]
  BY <1>1, Pow2Type
<1>3. PICK q \in Int : q = v \div p
  BY DivBounds
<1> QED BY <1>2, <1>3, SizeIs, MaskedRange DEF ByteOf, Masked

-----------------------------------------------------------------------------
\* Addressing modes.
Found == {"ai", "pi", "pd", "di", "ix", "aw", "al", "pcdi", "pcix"}
Words(z, o) ==
  CASE o.mode \in {"di", "ix", "aw", "pcdi", "pcix"} -> 1
    [] o.mode = "al" -> 2
    [] o.mode = "i" -> ImmWords(z)
    [] OTHER -> 0

\* Extension words are counted in numbers.
LEMMA WordsIs == ASSUME NEW z \in Sizes, NEW o PROVE Words(z, o) \in Nat
BY DEF Words, ImmWords

\* The index of an addressing mode is an int.
LEMMA IndexIs ==
  ASSUME NEW m \in Machine, NEW o, o.xn \in 0..15, o.xl \in BOOLEAN
  PROVE  Index(m, o) \in Int
<1>1. PICK x \in Int : x = IF o.xn < 8 THEN m.d[o.xn] ELSE m.a[o.xn - 8]
  BY MachineIs DEF Registers
<1>2. Extended(2, x) \in Int
  BY ExtendedType, SizeIs, LongIs
<1> QED BY <1>1, <1>2 DEF Index

\* Finding an address moves the counter over the extension words of the mode, sets the
\* register of (An)+ or -(An) only, and gives a long.
LEMMA EaSteps ==
  ASSUME NEW m \in Machine, NEW z \in Sizes, NEW o, IsOperand(o), o.mode \in Found
  PROVE  /\ Ea(m, z, o).at \in Range0(4)
         /\ Stepped(m, Ea(m, z, o).m, Steps(o), Words(z, o))
         /\ Ea(m, z, o).m \in Machine
<1> SUFFICES /\ Ea(m, z, o).at \in Range0(4)
             /\ Stepped(m, Ea(m, z, o).m, Steps(o), Words(z, o))
  BY DEF Stepped
<1>1. ASSUME NEW v \in Int PROVE Masked(4, v) \in Range0(4)
  BY SizeIs, MaskedRange
<1>2. ASSUME NEW w \in Nat PROVE Stepped(m, Skip(m, w), Steps(o), w)
  BY SkipSteps DEF Stepped
<1>3. CASE o.mode \in {"ai", "pi", "pd", "di", "ix"}
  <2>1. PICK base \in Range0(4) : base = m.a[o.r] /\ base \in Int /\ o.r \in Registers
    BY <1>3, MachineIs DEF IsOperand
  <2>2. CASE o.mode = "ai"
    BY <1>1, <1>2, <2>1, <2>2 DEF Ea, Words
  <2>3. CASE o.mode = "pi"
    <3>1. PICK v \in Range0(4) : v = Masked(4, base + Step(z, o))
      <4>1. base + Step(z, o) \in Int
        BY <2>1 DEF Step, Sizes
      <4> QED BY <1>1, <4>1
    <3>2. Ea(m, z, o) = [at |-> base, m |-> [m EXCEPT !.a[o.r] = v]]
      BY <2>1, <2>3, <3>1 DEF Ea
    <3>3. Stepped(m, [m EXCEPT !.a[o.r] = v], {o.r}, 0)
      BY <2>1, AddressSteps
    <3> QED BY <2>1, <2>3, <3>2, <3>3 DEF Words, Steps
  <2>4. CASE o.mode = "pd"
    <3>1. PICK v \in Range0(4) : v = Masked(4, base - Step(z, o))
      <4>1. base - Step(z, o) \in Int
        BY <2>1 DEF Step, Sizes
      <4> QED BY <1>1, <4>1
    <3>2. Ea(m, z, o) = [at |-> v, m |-> [m EXCEPT !.a[o.r] = v]]
      BY <2>1, <2>4, <3>1 DEF Ea
    <3>3. Stepped(m, [m EXCEPT !.a[o.r] = v], {o.r}, 0)
      BY <2>1, AddressSteps
    <3> QED BY <2>1, <2>4, <3>2, <3>3 DEF Words, Steps
  <2>5. CASE o.mode = "di"
    <3>1. PICK v \in Int : v = base + MakeInt(2, o.e)
      <4>1. o.e \in Int
        BY <2>5, LongIs DEF IsOperand
      <4>2. MakeInt(2, o.e) \in Int
        BY <4>1, SizeIs, MakeIntType
      <4> QED BY <2>1, <4>2
    <3>2. Ea(m, z, o) = [at |-> Masked(4, v), m |-> Skip(m, 1)]
      BY <2>1, <2>5, <3>1 DEF Ea
    <3> QED BY <1>1, <1>2, <2>5, <3>2 DEF Words
  <2>6. CASE o.mode = "ix"
    <3>1. PICK v \in Int : v = base + Index(m, o) + MakeInt(1, o.e)
      <4>1. o.e \in Int /\ o.xn \in 0..15 /\ o.xl \in BOOLEAN
        BY <2>6, LongIs DEF IsOperand
      <4>2. MakeInt(1, o.e) \in Int /\ Index(m, o) \in Int
        BY <4>1, SizeIs, MakeIntType, IndexIs
      <4> QED BY <2>1, <4>2
    <3>2. Ea(m, z, o) = [at |-> Masked(4, v), m |-> Skip(m, 1)]
      BY <2>1, <2>6, <3>1 DEF Ea
    <3> QED BY <1>1, <1>2, <2>6, <3>2 DEF Words
  <2> QED BY <1>3, <2>2, <2>3, <2>4, <2>5, <2>6
<1>4. CASE o.mode \in {"aw", "al", "pcdi", "pcix"}
  <2>1. o.e \in Int /\ (o.e \in Range0(4) \/ o.mode = "pcix")
    BY <1>4, LongIs DEF IsOperand
  <2>2. CASE o.mode = "aw"
    <3>1. PICK v \in Int : v = MakeInt(2, o.e)
      BY <2>1, <2>2, SizeIs, MakeIntType
    <3>2. Ea(m, z, o) = [at |-> Masked(4, v), m |-> Skip(m, 1)]
      BY <2>2, <3>1 DEF Ea
    <3> QED BY <1>1, <1>2, <2>2, <3>2 DEF Words
  <2>3. CASE o.mode = "al"
    <3>1. Ea(m, z, o) = [at |-> Masked(4, o.e), m |-> Skip(m, 2)]
      BY <2>3 DEF Ea
    <3> QED BY <1>1, <1>2, <2>1, <2>3, <3>1 DEF Words
  <2>4. CASE o.mode = "pcdi"
    <3>1. PICK v \in Int : v = m.pc + MakeInt(2, o.e)
      BY <2>1, <2>4, SizeIs, MakeIntType, MachineIs
    <3>2. Ea(m, z, o) = [at |-> Masked(4, v), m |-> Skip(m, 1)]
      BY <2>4, <3>1 DEF Ea
    <3> QED BY <1>1, <1>2, <2>4, <3>2 DEF Words
  <2>5. CASE o.mode = "pcix"
    <3>1. PICK v \in Int : v = m.pc + Index(m, o) + MakeInt(1, o.e)
      <4>1. o.e \in Int /\ o.xn \in 0..15 /\ o.xl \in BOOLEAN /\ m.pc \in Int
        BY <2>5, LongIs, MachineIs DEF IsOperand
      <4>2. MakeInt(1, o.e) \in Int /\ Index(m, o) \in Int
        BY <4>1, SizeIs, MakeIntType, IndexIs
      <4> QED BY <4>1, <4>2
    <3>2. Ea(m, z, o) = [at |-> Masked(4, v), m |-> Skip(m, 1)]
      BY <2>5, <3>1 DEF Ea
    <3> QED BY <1>1, <1>2, <2>5, <3>2 DEF Words
  <2> QED BY <1>4, <2>2, <2>3, <2>4, <2>5
<1>5. /\ Ea(m, z, o).at \in Range0(4) /\ Stepped(m, Ea(m, z, o).m, Steps(o), Words(z, o))
  BY <1>3, <1>4 DEF Found
<1> QED BY <1>5 DEF Stepped

\* So does reading an operand, of any mode, and the value is of its size.
LEMMA OperandSteps ==
  ASSUME NEW m \in Machine, NEW z \in Sizes, NEW o, IsOperand(o), o.mode \in Modes,
         o.mode = "a" => o.r \in Registers
  PROVE  /\ Operand(m, z, o).v \in Range0(z)
         /\ Stepped(m, Operand(m, z, o).m, Steps(o), Words(z, o))
         /\ Operand(m, z, o).m \in Machine
<1>1. CASE o.mode \in {"d", "a"}
  <2>1. m.d[o.r] \in Int \/ o.mode = "a"
    BY <1>1, MachineIs DEF IsOperand
  <2>2. m.a[o.r] \in Int \/ o.mode = "d"
    BY <1>1, MachineIs DEF IsOperand
  <2>3. Steps(o) = {} /\ Words(z, o) = 0
    BY <1>1 DEF Steps, Words
  <2>4. Operand(m, z, o) = [v |-> Masked(z, IF o.mode = "d" THEN m.d[o.r] ELSE m.a[o.r]),
            m |-> m]
    BY <1>1 DEF Operand
  <2> QED BY <1>1, <2>1, <2>2, <2>3, <2>4, MaskedRange, SteppedStill
<1>2. CASE o.mode = "i"
  <2>1. Operand(m, z, o) = [v |-> Masked(z, o.e), m |-> Skip(m, ImmWords(z))]
    BY <1>2 DEF Operand
  <2>2. Steps(o) = {} /\ Words(z, o) = ImmWords(z) /\ ImmWords(z) \in Nat
    BY <1>2 DEF Steps, Words, ImmWords
  <2>3. o.e \in Int
    BY <1>2, LongIs DEF IsOperand
  <2> QED BY <2>1, <2>2, <2>3, MaskedRange, SkipSteps
<1>3. CASE o.mode \in Found
  <2>1. PICK e : e = Ea(m, z, o)
    OBVIOUS
  <2>2. e.at \in Int /\ Stepped(m, e.m, Steps(o), Words(z, o)) /\ e.m \in Machine
    BY <1>3, <2>1, EaSteps, LongIs
  <2>3. Operand(m, z, o) = [v |-> Read(e.m, z, e.at), m |-> e.m]
    BY <1>3, <2>1 DEF Operand, Found
  <2>4. Read(e.m, z, e.at) \in Range0(z)
    BY <2>2, ReadRange DEF Read
  <2> QED BY <2>2, <2>3, <2>4
<1> QED BY <1>1, <1>2, <1>3 DEF Modes, Found

-----------------------------------------------------------------------------
(* Results.                                                                *)

\* What an instruction changed: of the data registers Ds the low z bytes, of
\* the address registers As, at most k bytes of the memory, and w words of it
\* were read.
Differing(m, n) == {b \in DOMAIN m.mem : n.mem[b] # m.mem[b]}
Changed(m, n, z, Ds, As, k, w) ==
  /\ n \in Machine
  /\ \A r \in Registers : /\ n.d[r] = m.d[r] \/ r \in Ds
                          /\ n.d[r] \div Mod(z) = m.d[r] \div Mod(z)
                          /\ n.a[r] = m.a[r] \/ r \in As
  /\ Cardinality(Differing(m, n)) <= k
  /\ n.pc = Masked(4, m.pc + 2 * w)

\* A memory that was not written differs nowhere.
LEMMA SameBytes == ASSUME NEW m \in Machine, NEW n, n.mem = m.mem
  PROVE  Cardinality(Differing(m, n)) = 0
<1>1. Differing(m, n) = {}
  BY DEF Differing
<1> QED BY <1>1, FS_EmptySet

\* What only found operands changed no more than that.
LEMMA SteppedChanges ==
  ASSUME NEW m \in Machine, NEW n, NEW z, NEW As, NEW w, Stepped(m, n, As, w)
  PROVE  Changed(m, n, z, {}, As, 0, w)
BY SameBytes DEF Stepped, Changed

\* The flags are free.
LEMMA FlagsChange ==
  ASSUME NEW m \in Machine, NEW n, NEW z, NEW As, NEW w, Stepped(m, n, As, w),
         NEW f \in Flags
  PROVE  /\ Changed(m, [n EXCEPT !.f = f], z, {}, As, 0, w)
         /\ [n EXCEPT !.f = f].f = f
<1>1. PICK p : p = [n EXCEPT !.f = f]
  OBVIOUS
<1>2. p \in Machine /\ p.d = n.d /\ p.a = n.a /\ p.mem = n.mem /\ p.pc = n.pc /\ p.f = f
  BY <1>1 DEF Stepped, Machine
<1>3. Changed(m, p, z, {}, As, 0, w)
  BY <1>2, SameBytes DEF Stepped, Changed
<1> QED BY <1>1, <1>2, <1>3, Zenon

\* All longs are the same above the long.
LEMMA LongUpper == ASSUME NEW v \in Range0(4) PROVE v \div Mod(4) = 0
<1>1. PICK m \in Nat \ {0} : m = Mod(4)
  BY LongIs
<1>2. 0 * m <= v /\ v < 0 * m + m /\ v \in Int
  BY <1>1 DEF Range0
<1> QED BY <1>1, <1>2, DivIs

\* Part of a long is replaced.
LEMMA PartReplaced ==
  ASSUME NEW z \in Sizes, NEW d \in Range0(4), NEW v \in Range0(z)
  PROVE  LET e == d - Masked(z, d) + v
         IN e \in Range0(4) /\ e \div Mod(z) = d \div Mod(z) /\ Masked(z, e) = v
<1>1. PICK h \in Nat \ {0}, l \in Nat \ {0} : h = Mod(z) /\ l = Mod(4) /\ d \in 0..(l - 1)
  BY LongIs, Widths DEF Range0
<1>2. PICK g \in Nat \ {0} : l = g * h
  <2>1. CASE z = 4
    <3>1. l = 1 * h
      BY <1>1, <2>1
    <3> QED BY <3>1
  <2>2. CASE z = 2
    BY <1>1, <2>2, Widths
  <2>3. CASE z = 1
    <3>1. PICK b \in Nat \ {0} : b = Mod(2)
      BY SizeIs, Widths
    <3>2. b = h * h /\ l = b * b
      BY <1>1, <2>3, <3>1, Widths
    <3>3. l = (h * h * h) * h /\ h * h * h \in Nat \ {0}
      BY <3>2
    <3> QED BY <3>3
  <2> QED BY <2>1, <2>2, <2>3 DEF Sizes
<1>3. d \in Int /\ d \in 0..(g * h - 1) /\ v \in 0..(h - 1)
  BY <1>1, <1>2 DEF Range0
<1>4. PICK q \in 0..(g - 1), r \in 0..(h - 1) : q = d \div h /\ r = d % h /\ d = q * h + r
  BY <1>3, HighDigit, Remainder
<1>5. PICK e \in Int : e = d - r + v
  BY <1>3
<1>6. q * h \in Int /\ e = q * h + v
  BY <1>4, <1>5
<1>7. q * h + v \in 0..(g * h - 1)
  BY <1>3, TwoDigits
<1>8. e \div h = q /\ e % h = v
  <2>1. q * h <= e /\ e < q * h + h /\ e - q * h = v
    BY <1>3, <1>6
  <2>2. e \div h = q /\ e % h = e - q * h
    <3>1. q \in Int /\ e \in Int
      OBVIOUS
    <3> QED BY <2>1, <3>1, DivIs, Zenon
  <2> QED BY <2>1, <2>2
<1>9. d - Masked(z, d) + v = e
  BY <1>1, <1>4, <1>5 DEF Masked
<1> QED BY <1>1, <1>2, <1>4, <1>6, <1>7, <1>8, <1>9 DEF Range0, Masked

\* DX = MASK(DX) | res: a result in the low part of a data register leaves the part above it.
LEMMA PutChanges ==
  ASSUME NEW m \in Machine, NEW n, NEW z \in Sizes, NEW As, NEW w, Stepped(m, n, As, w),
         NEW f \in Flags, NEW r \in Registers, NEW v \in Range0(z),
         NEW p, p = PutD([n EXCEPT !.f = f], z, r, v)
  PROVE  /\ Changed(m, p, z, {r}, As, 0, w)
         /\ p.f = f /\ Masked(z, p.d[r]) = v /\ p.trap = m.trap
         /\ p.mem = m.mem /\ p.a = n.a
<1>1. PICK e \in Range0(4) : /\ e = m.d[r] - Masked(z, m.d[r]) + v
                             /\ e \div Mod(z) = m.d[r] \div Mod(z) /\ Masked(z, e) = v
  BY MachineIs, PartReplaced
<1>2. p = PutD([n EXCEPT !.f = f], z, r, v)
  OBVIOUS
<1>3. n \in Machine /\ n.d = m.d
  BY DEF Stepped
<1>4. p = [n EXCEPT !.f = f, !.d = [m.d EXCEPT ![r] = e]]
  BY <1>1, <1>2, <1>3, MachineIs DEF PutD
<1>5. [m.d EXCEPT ![r] = e] \in [Registers -> Range0(4)]
  BY MachineIs
<1>6. /\ p \in Machine /\ p.d = [m.d EXCEPT ![r] = e] /\ p.a = n.a /\ p.mem = n.mem
      /\ p.pc = n.pc /\ p.f = f /\ p.trap = n.trap
  BY <1>3, <1>4, <1>5 DEF Machine
<1>7. \A q \in Registers : /\ p.d[q] = m.d[q] \/ q = r
                           /\ p.d[q] \div Mod(z) = m.d[q] \div Mod(z)
  BY <1>1, <1>6, MachineIs
<1>8. p.d[r] = e
  BY <1>6, MachineIs
<1>9. Cardinality(Differing(m, p)) = 0
  BY <1>6, SameBytes DEF Stepped
<1> QED BY <1>1, <1>2, <1>6, <1>7, <1>8, <1>9 DEF Changed, Stepped

\* The bytes that are not written stay.
LEMMA BytesWritten ==
  ASSUME NEW m \in Machine, NEW n, NEW at \in Int, NEW k \in Nat,
         \A b \in Space : n.mem[b] # m.mem[b] => (b - at) % AddressSpace < k
  PROVE  Cardinality(Differing(m, n)) <= k
<1>1. Differing(m, n) \in SUBSET Space
  BY MachineIs DEF Differing
<1>2. \A b \in Differing(m, n) : (b - at) % AddressSpace < k
  BY MachineIs DEF Differing
<1> QED BY <1>1, <1>2, RunBytes

\* A write sets the bytes from its address on, the highest first, and nothing else.
LEMMA WriteIs ==
  ASSUME NEW n \in Machine, NEW z \in Sizes, NEW at \in Int, NEW v \in Int,
         NEW p, p = Write(n, z, at, v)
  PROVE  /\ p \in Machine /\ p.d = n.d /\ p.a = n.a /\ p.pc = n.pc /\ p.f = n.f
         /\ p.trap = n.trap
         /\ \A b \in Space : p.mem[b] = IF (b - at) % AddressSpace < z
                                         THEN ByteOf(z, v, (b - at) % AddressSpace)
                                         ELSE n.mem[b]
<1>1. p = Write(n, z, at, v)
  OBVIOUS
<1>2. DOMAIN n.mem = Space
  BY MachineIs
<1>3. PICK mem : mem = [b \in Space |->
            LET k == (b - at) % AddressSpace IN IF k < z THEN ByteOf(z, v, k) ELSE n.mem[b]]
  OBVIOUS
<1>4. p = [n EXCEPT !.mem = mem]
  BY <1>1, <1>2, <1>3 DEF Write
<1>5. ASSUME NEW b \in Space PROVE mem[b] \in Range0(1)
  <2>1. b - at \in Int
    BY DEF Space
  <2>2. PICK k \in Nat : k = (b - at) % AddressSpace
    BY <2>1, SpaceIs, Remainder
  <2>3. k < z => ByteOf(z, v, k) \in Range0(1)
    <3>1. k < z => k \in 0..(z - 1)
      BY DEF Sizes
    <3> QED BY <3>1, ByteOfRange
  <2>4. n.mem[b] \in Range0(1)
    BY MachineIs
  <2> QED BY <1>3, <2>2, <2>3, <2>4
<1>6. mem \in [Space -> Range0(1)]
  BY <1>3, <1>5
<1>7. /\ p \in Machine /\ p.d = n.d /\ p.a = n.a /\ p.pc = n.pc /\ p.f = n.f /\ p.trap = n.trap
      /\ p.mem = mem
  BY <1>4, <1>6 DEF Machine, Space
<1> QED BY <1>1, <1>3, <1>7

\* So it changes as many bytes as its size has.
LEMMA WriteChanges ==
  ASSUME NEW m \in Machine, NEW n, NEW z \in Sizes, NEW As, NEW w, Stepped(m, n, As, w),
         NEW f \in Flags, NEW at \in Int, NEW v \in Int,
         NEW p, p = Write([n EXCEPT !.f = f], z, at, v)
  PROVE  /\ Changed(m, p, z, {}, As, z, w)
         /\ p.f = f /\ p.trap = m.trap /\ p.d = m.d /\ p.a = n.a
<1>1. PICK q : q = [n EXCEPT !.f = f]
  OBVIOUS
<1>2. /\ q \in Machine /\ q.d = m.d /\ q.a = n.a /\ q.mem = m.mem /\ q.pc = n.pc /\ q.f = f
      /\ q.trap = m.trap
  BY <1>1 DEF Stepped, Machine
<1>3. p = Write(q, z, at, v)
  BY <1>1
<1>4. /\ p \in Machine /\ p.d = q.d /\ p.a = q.a /\ p.pc = q.pc /\ p.f = q.f
      /\ p.trap = q.trap
      /\ \A b \in Space : ~((b - at) % AddressSpace < z) => p.mem[b] = q.mem[b]
  <2>1. \A b \in Space : p.mem[b] = IF (b - at) % AddressSpace < z
                                         THEN ByteOf(z, v, (b - at) % AddressSpace)
                                         ELSE q.mem[b]
    BY <1>2, <1>3, WriteIs
  <2>2. /\ p \in Machine /\ p.d = q.d /\ p.a = q.a /\ p.pc = q.pc /\ p.f = q.f
        /\ p.trap = q.trap
    BY <1>2, <1>3, WriteIs
  <2> QED BY <2>1, <2>2
<1>5. Cardinality(Differing(m, p)) <= z
  <2>1. z \in Nat
    BY DEF Sizes
  <2>2. \A b \in Space : p.mem[b] # m.mem[b] => (b - at) % AddressSpace < z
    BY <1>2, <1>4
  <2> QED BY <2>1, <2>2, BytesWritten
<1> QED BY <1>1, <1>2, <1>3, <1>4, <1>5 DEF Changed, Stepped

-----------------------------------------------------------------------------
\* Modify, with the value it gives to its operation and the result it places.
Target(n, z, o) ==
  IF o.mode = "d" THEN Masked(z, n.d[o.r]) ELSE LET e == Ea(n, z, o) IN Read(e.m, z, e.at)
Placed(n, z, o, q) ==
  IF o.mode = "d" THEN PutD([n EXCEPT !.f = q.f], z, o.r, q.v)
  ELSE LET e == Ea(n, z, o) IN Write([e.m EXCEPT !.f = q.f], z, e.at, q.v)

\* The value a destination holds is of the size.
LEMMA TargetRange ==
  ASSUME NEW n \in Machine, NEW z \in Sizes, NEW o, IsOperand(o), o.mode \in Alterable
  PROVE  Target(n, z, o) \in Range0(z)
<1>1. CASE o.mode = "d"
  BY <1>1, MachineIs, MaskedRange DEF Target, IsOperand
<1>2. CASE o.mode # "d"
  <2>1. o.mode \in Found
    BY <1>2 DEF Alterable, Memory, Found
  <2>2. Ea(n, z, o).at \in Int /\ Ea(n, z, o).m \in Machine
    BY <2>1, EaSteps, LongIs
  <2> QED BY <1>2, <2>2, ReadRange DEF Target, Read
<1> QED BY <1>1, <1>2

\* The bytes of a destination in the memory.
Span(z, o) == IF o.mode = "d" THEN 0 ELSE z

\* A result in a destination changes its register, or as many bytes as it has, and no more.
LEMMA PlacedChanges ==
  ASSUME NEW m \in Machine, NEW n, NEW z \in Sizes, NEW As, NEW w \in Nat, Stepped(m, n, As, w),
         NEW o, IsOperand(o), o.mode \in Alterable, NEW q, Typed(z, q), NEW p, p = Placed(n,
         z, o, q)
  PROVE  /\ Changed(m, p, z, {o.r}, As \cup Steps(o), Span(z, o), w + Words(z, o))
         /\ p.f = q.f /\ p.trap = m.trap
         /\ o.mode = "d" => Masked(z, p.d[o.r]) = q.v
<1>1. n \in Machine /\ q.f \in Flags /\ q.v \in Range0(z)
  BY DEF Stepped, Typed
<1>2. CASE o.mode = "d"
  <2>1. o.r \in Registers /\ Steps(o) = {} /\ Words(z, o) = 0
    BY <1>2 DEF IsOperand, Steps, Words
  <2>2. p = PutD([n EXCEPT !.f = q.f], z, o.r, q.v)
    BY <1>2 DEF Placed
  <2>3. /\ Changed(m, p, z, {o.r}, As, 0, w)
        /\ p.f = q.f /\ Masked(z, p.d[o.r]) = q.v /\ p.trap = m.trap
    <3>1. PICK f, r, v : f = q.f /\ r = o.r /\ v = q.v
      OBVIOUS
    <3>2. f \in Flags /\ r \in Registers /\ v \in Range0(z)
      BY <1>1, <2>1, <3>1
    <3>3. p = PutD([n EXCEPT !.f = f], z, r, v)
      BY <2>2, <3>1
    <3>4. /\ Changed(m, p, z, {r}, As, 0, w)
          /\ p.f = f /\ Masked(z, p.d[r]) = v /\ p.trap = m.trap
      BY <3>2, <3>3, PutChanges
    <3> QED BY <3>1, <3>4, Zenon
  <2>4. w + Words(z, o) = w /\ As \cup Steps(o) = As
    BY <2>1
  <2> QED BY <1>2, <2>3, <2>4 DEF Span
<1>3. CASE o.mode # "d"
  <2>1. PICK e : e = Ea(n, z, o)
    OBVIOUS
  <2>2. o.mode \in Found
    BY <1>3 DEF Alterable, Memory, Found
  <2>3. e.at \in Int /\ Stepped(n, e.m, Steps(o), Words(z, o))
    BY <1>1, <2>1, <2>2, EaSteps, LongIs
  <2>4. Stepped(m, e.m, As \cup Steps(o), w + Words(z, o))
    BY <1>1, <2>3, SteppedOn, WordsIs
  <2>5. p = Write([e.m EXCEPT !.f = q.f], z, e.at, q.v)
    BY <1>3, <2>1 DEF Placed
  <2>6. /\ Changed(m, p, z, {}, As \cup Steps(o), z, w + Words(z, o))
        /\ p.f = q.f /\ p.trap = m.trap
    <3>1. q.v \in Int
      BY <1>1, MaskedSame
    <3>2. PICK f, v, at, k, u, Bs : /\ f = q.f /\ v = q.v /\ at = e.at /\ k = e.m
                                   /\ u = w + Words(z, o) /\ Bs = As \cup Steps(o)
      OBVIOUS
    <3>3. f \in Flags /\ v \in Int /\ at \in Int /\ Stepped(m, k, Bs, u)
      BY <1>1, <2>3, <2>4, <3>1, <3>2
    <3>4. p = Write([k EXCEPT !.f = f], z, at, v)
      BY <2>5, <3>2
    <3>5. Changed(m, p, z, {}, Bs, z, u) /\ p.f = f /\ p.trap = m.trap
      BY <3>3, <3>4, WriteChanges
    <3> QED BY <3>2, <3>5
  <2> QED BY <1>3, <2>6 DEF Changed, Span
<1> QED BY <1>2, <1>3

-----------------------------------------------------------------------------
(* One instruction, and the handlers that read an operand to a register.   *)

\* What the properties of a step say of it.
Right(i) ==
  /\ cpu' \in Machine /\ OnlyNamed(i)
  /\ i.ea.more = 0 /\ i.to.more = 0 => CounterRight(i)

\* The disassembler reads the extension words that the handlers read.
LEMMA EaWords ==
  ASSUME NEW z \in Sizes, NEW y \in Sizes, NEW o, o.mode \in Modes, o.more = 0,
         o.mode = "i" => y = z
  PROVE  EaModeStr(y, o) = Words(z, o)
BY DEF EaModeStr, Words, Modes, ImmStr, ImmWords

Elsewhere == {"jmp", "rts", "rtr", "bra", "bcc", "dbf", "dbcc", "bsr", "jsr"}

\* What changed no more than an instruction names, with a counter behind the words the
\* disassembler reads, is right.
LEMMA Concluded ==
  ASSUME cpu \in Machine, NEW i, IsInstruction(i), NEW z, NEW Ds, NEW As, NEW k, NEW w,
         Changed(cpu, cpu', z, Ds, As, k, w),
         i.name \notin Whole => z = i.z \/ i.z = 4,
         Ds \subseteq DataNamed(i), As \subseteq AddressNamed(i), Bytes(i) \in Nat,
         k \in Nat, k <= Bytes(i),
         i.name \in Silent => cpu'.f = cpu.f,
         i.name \in KeepX /\ i.form # "toc" => cpu'.f.x = cpu.f.x,
         i.name \notin Elsewhere,
         i.ea.more = 0 /\ i.to.more = 0 => Disassembled(i) = 2 * w
  PROVE  Right(i)
<1>1. \A r \in Registers :
        /\ cpu'.d[r] = cpu.d[r] \/ r \in DataNamed(i)
        /\ i.z < 4 /\ i.name \notin Whole => cpu'.d[r] \div Mod(i.z) = cpu.d[r] \div Mod(i.z)
        /\ cpu'.a[r] = cpu.a[r] \/ r \in AddressNamed(i)
  BY DEF Changed
<1>2. Cardinality({b \in DOMAIN cpu.mem : cpu'.mem[b] # cpu.mem[b]}) <= Bytes(i)
  <2>1. Cardinality(Differing(cpu, cpu')) <= k /\ Differing(cpu, cpu') \subseteq Space
    BY MachineIs DEF Changed, Differing
  <2>2. Cardinality(Differing(cpu, cpu')) \in Nat
    BY <2>1, SpaceIs, FS_Subset, FS_CardinalityType
  <2>3. Cardinality(Differing(cpu, cpu')) <= Bytes(i)
    BY <2>1, <2>2
  <2> QED BY <2>3 DEF Differing
<1>3. OnlyNamed(i)
  BY <1>1, <1>2 DEF OnlyNamed
<1>4. cpu'.pc = Masked(4, cpu.pc + 2 * w) /\ cpu' \in Machine
  BY DEF Changed
<1>5. i.ea.more = 0 /\ i.to.more = 0 => CounterRight(i)
  BY <1>4 DEF CounterRight, Elsewhere
<1> QED BY <1>3, <1>4, <1>5 DEF Right

\* An operand is read behind the opcode, and a result settles in a register.
Settled(n, z, x, q) == PutD([n EXCEPT !.f = q.f], z, x, q.v)

\* A result in a data register.
LEMMA SettledChanges ==
  ASSUME NEW m \in Machine, NEW n, NEW z \in Sizes, NEW As, NEW w, Stepped(m, n, As, w),
         NEW x \in Registers, NEW q, Typed(z, q)
  PROVE  /\ Changed(m, Settled(n, z, x, q), z, {x}, As, 0, w)
         /\ Settled(n, z, x, q).f = q.f /\ Masked(z, Settled(n, z, x, q).d[x]) = q.v
         /\ Settled(n, z, x, q).trap = m.trap
<1>1. PICK f \in Flags, v \in Range0(z) : f = q.f /\ v = q.v
  BY DEF Typed
<1>2. PICK p : p = Settled(n, z, x, q)
  OBVIOUS
<1>3. p = PutD([n EXCEPT !.f = f], z, x, v)
  BY <1>1, <1>2 DEF Settled
<1>4. /\ Changed(m, p, z, {x}, As, 0, w) /\ p.f = f /\ Masked(z, p.d[x]) = v
      /\ p.trap = m.trap
  BY <1>3, PutChanges
<1> QED BY <1>1, <1>2, <1>4

\* The operand behind the opcode.
LEMMA ReadSteps ==
  ASSUME NEW m \in Machine, NEW z \in Sizes, NEW o, IsOperand(o), o.mode \in Modes,
         NEW s, s = Operand(Skip(m, 1), z, o)
  PROVE  Stepped(m, s.m, Steps(o), 1 + Words(z, o)) /\ s.v \in Range0(z) /\ s.m \in Machine
<1>1. Stepped(m, Skip(m, 1), {}, 1) /\ Skip(m, 1) \in Machine
  BY SkipSteps
<1>2. /\ Stepped(Skip(m, 1), s.m, Steps(o), Words(z, o)) /\ s.v \in Range0(z)
      /\ s.m \in Machine
  BY <1>1, OperandSteps DEF IsOperand
<1>3. Stepped(m, s.m, {} \cup Steps(o), 1 + Words(z, o))
  BY <1>1, <1>2, SteppedOn, WordsIs
<1>4. {} \cup Steps(o) = Steps(o)
  OBVIOUS
<1> QED BY <1>2, <1>3, <1>4

-----------------------------------------------------------------------------
\* The operations of two operands, or of one, by their names.
Op(name, z, f, s, d) ==
  CASE name \in {"add", "addi", "addq"} -> Add(z, f, s, d)
    [] name \in {"sub", "subi", "subq"} -> Sub(z, f, s, d)
    [] name = "addx" -> AddX(z, f, s, d)
    [] name = "subx" -> SubX(z, f, s, d)
    [] name = "abcd" -> Abcd(f, s, d)
    [] name = "sbcd" -> Sbcd(f, s, d)
    [] name = "neg" -> Neg(z, f, d)
    [] name = "negx" -> NegX(z, f, d)
    [] name = "nbcd" -> Nbcd(f, d)
    [] name \in {"and", "andi"} -> Both(z, f, s, d)
    [] name \in {"or", "ori"} -> Either(z, f, s, d)
    [] name \in {"eor", "eori"} -> OneOf(z, f, s, d)
    [] name = "not" -> Invert(z, f, d)
    [] name = "ext" -> Ext(z, f, d)
    [] name = "swap" -> Swap(z, f, d)
    [] name = "tas" -> Tas(f, d)
    [] name = "bchg" -> Bchg(f, s, d)
    [] name = "bclr" -> Bclr(f, s, d)
    [] name = "bset" -> Bset(f, s, d)
    [] name = "asr" -> Asr(z, f, s, d)
    [] name = "asl" -> Asl(z, f, s, d)
    [] name = "lsr" -> Lsr(z, f, s, d)
    [] name = "lsl" -> Lsl(z, f, s, d)
    [] name = "ror" -> Ror(z, f, s, d)
    [] name = "rol" -> Rol(z, f, s, d)
    [] name = "roxr" -> Roxr(z, f, s, d)
    [] name = "roxl" -> Roxl(z, f, s, d)
Twofold == {"add", "addi", "addq", "sub", "subi", "subq", "addx", "subx", "and", "andi",
            "or", "ori", "eor", "eori"}
Decimals == {"abcd", "sbcd", "nbcd"}
Onefold == {"neg", "negx", "not"}
Bitwise1 == {"bchg", "bclr", "bset"}
Rotated == {"asr", "asl", "lsr", "lsl", "ror", "rol", "roxr", "roxl"}
KeepsX == {"and", "andi", "or", "ori", "eor", "eori", "not", "ext", "swap", "tas", "bchg",
    "bclr",
           "bset", "ror", "rol"}

OpBounds(name, z, s) ==
  \/ name \in Twofold /\ s \in Range0(z)
  \/ name \in Onefold
  \/ name \in Decimals /\ z = 1 /\ s \in Range0(1)
  \/ name = "ext" /\ z \in {2, 4}
  \/ name = "swap" /\ z = 4
  \/ name = "tas" /\ z = 1
  \/ name \in Bitwise1 /\ s \in 0..(Bits(z) - 1)
  \/ name \in Rotated /\ s \in Nat

\* Every operation leaves a value of its size and flags, and those that keep X keep it.
LEMMA OpTyped ==
  ASSUME NEW name, NEW z \in Sizes, NEW f \in Flags, NEW s, NEW d \in Range0(z),
         OpBounds(name, z, s)
  PROVE  /\ Typed(z, Op(name, z, f, s, d))
         /\ name \in KeepsX => Op(name, z, f, s, d).f.x = f.x
<1>1. CASE name \in Twofold /\ s \in Range0(z)
  BY <1>1, BinaryTyped, LogicTyped DEF Op, Twofold, KeepsX
<1>2. CASE name \in Onefold
  BY <1>2, BinaryTyped, LogicTyped DEF Op, Onefold, KeepsX
<1>3. CASE name \in Decimals /\ z = 1 /\ s \in Range0(1)
  BY <1>3, DecimalsTyped DEF Op, Decimals, KeepsX
<1>4. CASE name = "ext" /\ z \in {2, 4}
  BY <1>4, ExtTyped DEF Op, KeepsX
<1>5. CASE name \in Bitwise1 /\ s \in 0..(Bits(z) - 1)
  BY <1>5, BitsTyped DEF Op, Bitwise1, KeepsX
<1>6. CASE name \in Rotated /\ s \in Nat
  BY <1>6, ShiftsTyped, RotatesTyped, ThroughsTyped DEF Op, Rotated, KeepsX
<1>7. CASE name = "swap" /\ z = 4
  BY <1>7, SwapTyped DEF Op, KeepsX
<1>8. CASE name = "tas" /\ z = 1
  BY <1>8, TasTyped DEF Op, KeepsX
<1> QED BY <1>1, <1>2, <1>3, <1>4, <1>5, <1>6, <1>7, <1>8 DEF OpBounds

-----------------------------------------------------------------------------
ErHandlers(i) ==
  \/ add_8_er(i) \/ add_16_er(i) \/ add_32_er(i) \/ sub_8_er(i) \/ sub_16_er(i) \/ sub_32_er(i)
  \/ and_8_er(i) \/ and_16_er(i) \/ and_32_er(i) \/ or_8_er(i) \/ or_16_er(i) \/ or_32_er(i)

\* The er handlers, one shape: register with operand to register.
LEMMA ErIs ==
  ASSUME NEW i, ErHandlers(i)
  PROVE  /\ i.form = "er" /\ i.name \in {"add", "sub", "and", "or"} /\ i.ea.mode \in Modes
         /\ \E s, q : /\ s = Operand(Fetched, i.z, i.ea)
                      /\ q = Op(i.name, i.z, cpu.f, s.v, Masked(i.z, cpu.d[i.x]))
                      /\ cpu' = Settled(s.m, i.z, i.x, q)
<1>1. /\ i.form = "er" /\ i.ea.mode \in Modes
      /\ \/ i.name = "add" /\ cpu' = Er(i, i.z, Add)
         \/ i.name = "sub" /\ cpu' = Er(i, i.z, Sub)
         \/ i.name = "and" /\ cpu' = Er(i, i.z, Both)
         \/ i.name = "or" /\ cpu' = Er(i, i.z, Either)
  BY DEF ErHandlers, add_8_er, add_16_er, add_32_er, sub_8_er, sub_16_er, sub_32_er, and_8_er,
         and_16_er, and_32_er, or_8_er, or_16_er, or_32_er, Does, Data
<1> QED BY <1>1 DEF Er, Op, Settled

\* They are right.
LEMMA ErRight == ASSUME cpu \in Machine, NEW i, IsInstruction(i), ErHandlers(i)
  PROVE  Right(i)
<1>1. PICK name, z, o, x :
        /\ name = i.name /\ z = i.z /\ o = i.ea /\ x = i.x
        /\ z \in Sizes /\ x \in Registers
        /\ name \in {"add", "sub", "and", "or"} /\ i.form = "er"
        /\ IsOperand(o) /\ o.mode \in Modes /\ o.more \in Nat
  BY ErIs DEF IsInstruction, HasX
<1>2. PICK s, q : /\ s = Operand(Fetched, z, o)
                  /\ q = Op(name, z, cpu.f, s.v, Masked(z, cpu.d[x]))
                  /\ cpu' = Settled(s.m, z, x, q)
  BY <1>1, ErIs
<1>3. Stepped(cpu, s.m, Steps(o), 1 + Words(z, o)) /\ s.v \in Range0(z)
  BY <1>1, <1>2, ReadSteps DEF Fetched
<1>4. Masked(z, cpu.d[x]) \in Range0(z) /\ cpu.f \in Flags
  BY <1>1, MachineIs, MaskedRange
<1>5. Typed(z, q) /\ (name \in KeepsX => q.f.x = cpu.f.x)
  <2>1. OpBounds(name, z, s.v)
    BY <1>1, <1>3 DEF OpBounds, Twofold
  <2>2. z \in Sizes /\ cpu.f \in Flags /\ s.v \in Range0(z) /\ Masked(z, cpu.d[x]) \in Range0(z)
    BY <1>1, <1>3, <1>4
  <2>3. q = Op(name, z, cpu.f, s.v, Masked(z, cpu.d[x]))
    BY <1>2
  <2> QED BY <2>1, <2>2, <2>3, OpTyped
<1>6. PICK w : w = 1 + Words(z, o)
  OBVIOUS
<1>7. Changed(cpu, cpu', z, {x}, Steps(o), 0, w) /\ cpu'.f = q.f
  <2>1. Stepped(cpu, s.m, Steps(o), w)
    BY <1>3, <1>6
  <2>2. PICK n : n = s.m /\ cpu' = Settled(n, z, x, q)
    BY <1>2
  <2>3. Stepped(cpu, n, Steps(o), w) /\ Typed(z, q) /\ z \in Sizes /\ x \in Registers
    BY <1>1, <1>5, <2>1, <2>2
  <2> QED BY <2>2, <2>3, SettledChanges
<1>8. i.ea.more = 0 => Disassembled(i) = 2 * w
  <2>1. i.ea.more = 0 => EaModeStr(z, o) = Words(z, o) /\ Words(z, o) \in Nat
    BY <1>1, EaWords, WordsIs
  <2> QED BY <1>1, <1>6, <2>1 DEF Disassembled, DasmAdd, DasmSub, DasmAnd, DasmOr, Ea1
<1>9. {x} \subseteq DataNamed(i) /\ Steps(o) \subseteq AddressNamed(i) /\ Bytes(i) = 0
  BY <1>1 DEF DataNamed, AddressNamed, Bytes
<1>10. /\ i.name \notin Whole /\ i.name \notin Silent /\ i.name \notin Elsewhere
       /\ i.name \in KeepX => i.name \in KeepsX
  BY <1>1 DEF Whole, Silent, Elsewhere, KeepX, KeepsX
<1> QED BY <1>1, <1>5, <1>7, <1>8, <1>9, <1>10, Concluded

-----------------------------------------------------------------------------
(* The handlers that modify a destination.                                 *)

\* The handlers that read a destination, work on it and write it back.
ReHandlers(i) ==
  \/ add_8_re(i) \/ add_16_re(i) \/ add_32_re(i) \/ sub_8_re(i) \/ sub_16_re(i) \/ sub_32_re(i)
  \/ and_8_re(i) \/ and_16_re(i) \/ and_32_re(i) \/ or_8_re(i) \/ or_16_re(i) \/ or_32_re(i)
  \/ eor_8(i) \/ eor_16(i) \/ eor_32(i)

\* The re handlers and eor: operand with register to operand.
LEMMA ReIs ==
  ASSUME NEW i, ReHandlers(i)
  PROVE  /\ (i.form = "re" \/ i.name = "eor") /\ i.form # "er"
            /\ i.name \in {"add", "sub", "and", "or", "eor"}
         /\ i.ea.mode \in Alterable
         /\ cpu' = Placed(Fetched, i.z, i.ea, Op(i.name, i.z, cpu.f, Masked(i.z, cpu.d[i.x]),
                Target(Fetched, i.z, i.ea)))
<1>1. /\ (i.form = "re" \/ i.name = "eor") /\ i.form # "er" /\ i.ea.mode \in Alterable
      /\ \/ i.name = "add" /\ cpu' = Re(i, i.z, Add)
         \/ i.name = "sub" /\ cpu' = Re(i, i.z, Sub)
         \/ i.name = "and" /\ cpu' = Re(i, i.z, Both)
         \/ i.name = "or" /\ cpu' = Re(i, i.z, Either)
         \/ i.name = "eor" /\ cpu' = Re(i, i.z, OneOf)
  BY
     DEF ReHandlers, add_8_re, add_16_re, add_32_re, sub_8_re, sub_16_re, sub_32_re, and_8_re,
         and_16_re,
         and_32_re, or_8_re, or_16_re, or_32_re, eor_8, eor_16, eor_32, Does, Data, Alterable,
         Memory, Modes
<1>2. CASE i.name = "add"
  BY <1>1, <1>2 DEF Re, Modify, Placed, Target, Op
<1>3. CASE i.name = "sub"
  BY <1>1, <1>3 DEF Re, Modify, Placed, Target, Op
<1>4. CASE i.name = "and"
  BY <1>1, <1>4 DEF Re, Modify, Placed, Target, Op
<1>5. CASE i.name = "or"
  BY <1>1, <1>5 DEF Re, Modify, Placed, Target, Op
<1>6. CASE i.name = "eor"
  BY <1>1, <1>6 DEF Re, Modify, Placed, Target, Op
<1> QED BY <1>1, <1>2, <1>3, <1>4, <1>5, <1>6

ImmHandlers(i) ==
  \/ addi_8(i) \/ addi_16(i) \/ addi_32(i) \/ subi_8(i) \/ subi_16(i) \/ subi_32(i)
  \/ andi_8(i) \/ andi_16(i) \/ andi_32(i) \/ ori_8(i) \/ ori_16(i) \/ ori_32(i) \/ eori_8(i)
  \/ eori_16(i) \/ eori_32(i)

\* addi, subi, andi, ori, eori: the immediate value comes before the destination's words.
LEMMA ImmIs ==
  ASSUME NEW i, ImmHandlers(i)
  PROVE  /\ i.form = "" /\ i.name \in {"addi", "subi", "andi", "ori", "eori"}
         /\ i.ea.mode \in Alterable
         /\ cpu' = Placed(Skip(Fetched, ImmWords(i.z)), i.z, i.ea, Op(i.name, i.z, cpu.f, i.q,
                Target(Skip(Fetched, ImmWords(i.z)), i.z, i.ea)))
<1>1. /\ i.form = "" /\ i.ea.mode \in Alterable
      /\ \/ i.name = "addi" /\ cpu' = Imm(i, i.z, Add)
         \/ i.name = "subi" /\ cpu' = Imm(i, i.z, Sub)
         \/ i.name = "andi" /\ cpu' = Imm(i, i.z, Both)
         \/ i.name = "ori" /\ cpu' = Imm(i, i.z, Either)
         \/ i.name = "eori" /\ cpu' = Imm(i, i.z, OneOf)
  BY
     DEF ImmHandlers, addi_8, addi_16, addi_32, subi_8, subi_16, subi_32, andi_8, andi_16,
         andi_32, ori_8,
         ori_16, ori_32, eori_8, eori_16, eori_32, Does, Data, Alterable, Memory, Modes
<1>2. CASE i.name = "addi"
  BY <1>1, <1>2 DEF Imm, Modify, Placed, Target, Op
<1>3. CASE i.name = "subi"
  BY <1>1, <1>3 DEF Imm, Modify, Placed, Target, Op
<1>4. CASE i.name = "andi"
  BY <1>1, <1>4 DEF Imm, Modify, Placed, Target, Op
<1>5. CASE i.name = "ori"
  BY <1>1, <1>5 DEF Imm, Modify, Placed, Target, Op
<1>6. CASE i.name = "eori"
  BY <1>1, <1>6 DEF Imm, Modify, Placed, Target, Op
<1> QED BY <1>1, <1>2, <1>3, <1>4, <1>5, <1>6

QuickHandlers(i) ==
  \/ addq_8(i) \/ addq_16(i) \/ addq_32(i) \/ subq_8(i) \/ subq_16(i) \/ subq_32(i)

\* addq and subq.
LEMMA QuickIs ==
  ASSUME NEW i, QuickHandlers(i)
  PROVE  /\ i.form = "" /\ i.name \in {"addq", "subq"}
         /\ i.ea.mode \in Alterable
         /\ cpu' = Placed(Fetched, i.z, i.ea, Op(i.name, i.z, cpu.f, i.q, Target(Fetched, i.z,
                i.ea)))
<1>1. /\ i.form = "" /\ i.ea.mode \in Alterable
      /\ \/ i.name = "addq" /\ cpu' = Quick(i, i.z, Add)
         \/ i.name = "subq" /\ cpu' = Quick(i, i.z, Sub)
  BY
     DEF QuickHandlers, addq_8, addq_16, addq_32, subq_8, subq_16, subq_32, Does, Data,
         Alterable, Memory,
         Modes
<1>2. CASE i.name = "addq"
  BY <1>1, <1>2 DEF Quick, Modify, Placed, Target, Op
<1>3. CASE i.name = "subq"
  BY <1>1, <1>3 DEF Quick, Modify, Placed, Target, Op
<1> QED BY <1>1, <1>2, <1>3

ShiftSHandlers(i) ==
  \/ asr_8_s(i) \/ asr_16_s(i) \/ asr_32_s(i) \/ asl_8_s(i) \/ asl_16_s(i) \/ asl_32_s(i)
  \/ lsr_8_s(i) \/ lsr_16_s(i) \/ lsr_32_s(i) \/ lsl_8_s(i) \/ lsl_16_s(i) \/ lsl_32_s(i)
  \/ ror_8_s(i) \/ ror_16_s(i) \/ ror_32_s(i) \/ rol_8_s(i) \/ rol_16_s(i) \/ rol_32_s(i)
  \/ roxr_8_s(i) \/ roxr_16_s(i) \/ roxr_32_s(i) \/ roxl_8_s(i) \/ roxl_16_s(i) \/ roxl_32_s(i)

\* Shifts of a register by a constant.
LEMMA ShiftSIs ==
  ASSUME NEW i, ShiftSHandlers(i)
  PROVE  /\ i.form = "s" /\ i.name \in Rotated
         /\ i.ea.mode \in Alterable /\ i.ea.mode = "d"
         /\ cpu' = Placed(Fetched, i.z, i.ea, Op(i.name, i.z, cpu.f, i.q, Target(Fetched, i.z,
                i.ea)))
<1>1. /\ i.form = "s" /\ i.ea.mode \in Alterable /\ i.ea.mode = "d"
      /\ \/ i.name = "asr" /\ cpu' = Quick(i, i.z, Asr)
         \/ i.name = "asl" /\ cpu' = Quick(i, i.z, Asl)
         \/ i.name = "lsr" /\ cpu' = Quick(i, i.z, Lsr)
         \/ i.name = "lsl" /\ cpu' = Quick(i, i.z, Lsl)
         \/ i.name = "ror" /\ cpu' = Quick(i, i.z, Ror)
         \/ i.name = "rol" /\ cpu' = Quick(i, i.z, Rol)
         \/ i.name = "roxr" /\ cpu' = Quick(i, i.z, Roxr)
         \/ i.name = "roxl" /\ cpu' = Quick(i, i.z, Roxl)
  BY
     DEF ShiftSHandlers, asr_8_s, asr_16_s, asr_32_s, asl_8_s, asl_16_s, asl_32_s, lsr_8_s,
         lsr_16_s, lsr_32_s,
         lsl_8_s, lsl_16_s, lsl_32_s, ror_8_s, ror_16_s, ror_32_s, rol_8_s, rol_16_s, rol_32_s,
         roxr_8_s, roxr_16_s, roxr_32_s, roxl_8_s, roxl_16_s, roxl_32_s, Does, Data, Alterable,
         Memory, Modes
<1>2. CASE i.name = "asr"
  BY <1>1, <1>2 DEF Quick, Modify, Placed, Target, Op, Rotated
<1>3. CASE i.name = "asl"
  BY <1>1, <1>3 DEF Quick, Modify, Placed, Target, Op, Rotated
<1>4. CASE i.name = "lsr"
  BY <1>1, <1>4 DEF Quick, Modify, Placed, Target, Op, Rotated
<1>5. CASE i.name = "lsl"
  BY <1>1, <1>5 DEF Quick, Modify, Placed, Target, Op, Rotated
<1>6. CASE i.name = "ror"
  BY <1>1, <1>6 DEF Quick, Modify, Placed, Target, Op, Rotated
<1>7. CASE i.name = "rol"
  BY <1>1, <1>7 DEF Quick, Modify, Placed, Target, Op, Rotated
<1>8. CASE i.name = "roxr"
  BY <1>1, <1>8 DEF Quick, Modify, Placed, Target, Op, Rotated
<1>9. CASE i.name = "roxl"
  BY <1>1, <1>9 DEF Quick, Modify, Placed, Target, Op, Rotated
<1> QED BY <1>1, <1>2, <1>3, <1>4, <1>5, <1>6, <1>7, <1>8, <1>9 DEF Rotated

ShiftRHandlers(i) ==
  \/ asr_8_r(i) \/ asr_16_r(i) \/ asr_32_r(i) \/ asl_8_r(i) \/ asl_16_r(i) \/ asl_32_r(i)
  \/ lsr_8_r(i) \/ lsr_16_r(i) \/ lsr_32_r(i) \/ lsl_8_r(i) \/ lsl_16_r(i) \/ lsl_32_r(i)
  \/ ror_8_r(i) \/ ror_16_r(i) \/ ror_32_r(i) \/ rol_8_r(i) \/ rol_16_r(i) \/ rol_32_r(i)
  \/ roxr_8_r(i) \/ roxr_16_r(i) \/ roxr_32_r(i) \/ roxl_8_r(i) \/ roxl_16_r(i) \/ roxl_32_r(i)

\* Shifts of a register by a register: the count is modulo 64.
LEMMA ShiftRIs ==
  ASSUME NEW i, ShiftRHandlers(i)
  PROVE  /\ i.form = "r" /\ i.name \in Rotated
         /\ i.ea.mode \in Alterable /\ i.ea.mode = "d"
         /\ cpu' = Placed(Fetched, i.z, i.ea, Op(i.name, i.z, cpu.f,
                cpu.d[i.x] % (2 * Bits(4)), Target(Fetched, i.z, i.ea)))
<1>1. /\ i.form = "r" /\ i.ea.mode \in Alterable /\ i.ea.mode = "d"
      /\ \/ i.name = "asr" /\ cpu' = ShiftR(i, i.z, Asr)
         \/ i.name = "asl" /\ cpu' = ShiftR(i, i.z, Asl)
         \/ i.name = "lsr" /\ cpu' = ShiftR(i, i.z, Lsr)
         \/ i.name = "lsl" /\ cpu' = ShiftR(i, i.z, Lsl)
         \/ i.name = "ror" /\ cpu' = ShiftR(i, i.z, Ror)
         \/ i.name = "rol" /\ cpu' = ShiftR(i, i.z, Rol)
         \/ i.name = "roxr" /\ cpu' = ShiftR(i, i.z, Roxr)
         \/ i.name = "roxl" /\ cpu' = ShiftR(i, i.z, Roxl)
  BY
     DEF ShiftRHandlers, asr_8_r, asr_16_r, asr_32_r, asl_8_r, asl_16_r, asl_32_r, lsr_8_r,
         lsr_16_r, lsr_32_r,
         lsl_8_r, lsl_16_r, lsl_32_r, ror_8_r, ror_16_r, ror_32_r, rol_8_r, rol_16_r, rol_32_r,
         roxr_8_r, roxr_16_r, roxr_32_r, roxl_8_r, roxl_16_r, roxl_32_r, Does, Data, Alterable,
         Memory, Modes
<1>2. CASE i.name = "asr"
  BY <1>1, <1>2 DEF ShiftR, Modify, Placed, Target, Op, Rotated
<1>3. CASE i.name = "asl"
  BY <1>1, <1>3 DEF ShiftR, Modify, Placed, Target, Op, Rotated
<1>4. CASE i.name = "lsr"
  BY <1>1, <1>4 DEF ShiftR, Modify, Placed, Target, Op, Rotated
<1>5. CASE i.name = "lsl"
  BY <1>1, <1>5 DEF ShiftR, Modify, Placed, Target, Op, Rotated
<1>6. CASE i.name = "ror"
  BY <1>1, <1>6 DEF ShiftR, Modify, Placed, Target, Op, Rotated
<1>7. CASE i.name = "rol"
  BY <1>1, <1>7 DEF ShiftR, Modify, Placed, Target, Op, Rotated
<1>8. CASE i.name = "roxr"
  BY <1>1, <1>8 DEF ShiftR, Modify, Placed, Target, Op, Rotated
<1>9. CASE i.name = "roxl"
  BY <1>1, <1>9 DEF ShiftR, Modify, Placed, Target, Op, Rotated
<1> QED BY <1>1, <1>2, <1>3, <1>4, <1>5, <1>6, <1>7, <1>8, <1>9 DEF Rotated

ShiftMHandlers(i) ==
  \/ asr_16(i) \/ asl_16(i) \/ lsr_16(i) \/ lsl_16(i) \/ ror_16(i) \/ rol_16(i) \/ roxr_16(i)
  \/ roxl_16(i)

\* Shifts of a word in memory, by one.
LEMMA ShiftMIs ==
  ASSUME NEW i, ShiftMHandlers(i)
  PROVE  /\ i.form = "" /\ i.name \in Rotated
         /\ i.ea.mode \in Alterable /\ i.ea.mode # "i" /\ i.z = 2
         /\ cpu' = Placed(Fetched, i.z, i.ea, Op(i.name, i.z, cpu.f, 1, Target(Fetched, i.z,
                i.ea)))
<1>1. /\ i.form = "" /\ i.ea.mode \in Alterable /\ i.ea.mode # "i" /\ i.z = 2
      /\ \/ i.name = "asr" /\ cpu' = ShiftM(i, Asr)
         \/ i.name = "asl" /\ cpu' = ShiftM(i, Asl)
         \/ i.name = "lsr" /\ cpu' = ShiftM(i, Lsr)
         \/ i.name = "lsl" /\ cpu' = ShiftM(i, Lsl)
         \/ i.name = "ror" /\ cpu' = ShiftM(i, Ror)
         \/ i.name = "rol" /\ cpu' = ShiftM(i, Rol)
         \/ i.name = "roxr" /\ cpu' = ShiftM(i, Roxr)
         \/ i.name = "roxl" /\ cpu' = ShiftM(i, Roxl)
  BY
     DEF ShiftMHandlers, asr_16, asl_16, lsr_16, lsl_16, ror_16, rol_16, roxr_16, roxl_16, Does,
         Data,
         Alterable, Memory, Modes
<1>2. CASE i.name = "asr"
  BY <1>1, <1>2 DEF ShiftM, Modify, Placed, Target, Op, Rotated
<1>3. CASE i.name = "asl"
  BY <1>1, <1>3 DEF ShiftM, Modify, Placed, Target, Op, Rotated
<1>4. CASE i.name = "lsr"
  BY <1>1, <1>4 DEF ShiftM, Modify, Placed, Target, Op, Rotated
<1>5. CASE i.name = "lsl"
  BY <1>1, <1>5 DEF ShiftM, Modify, Placed, Target, Op, Rotated
<1>6. CASE i.name = "ror"
  BY <1>1, <1>6 DEF ShiftM, Modify, Placed, Target, Op, Rotated
<1>7. CASE i.name = "rol"
  BY <1>1, <1>7 DEF ShiftM, Modify, Placed, Target, Op, Rotated
<1>8. CASE i.name = "roxr"
  BY <1>1, <1>8 DEF ShiftM, Modify, Placed, Target, Op, Rotated
<1>9. CASE i.name = "roxl"
  BY <1>1, <1>9 DEF ShiftM, Modify, Placed, Target, Op, Rotated
<1> QED BY <1>1, <1>2, <1>3, <1>4, <1>5, <1>6, <1>7, <1>8, <1>9 DEF Rotated

UnaryHandlers(i) ==
  \/ neg_8(i) \/ neg_16(i) \/ neg_32(i) \/ negx_8(i) \/ negx_16(i) \/ negx_32(i) \/ not_8(i)
  \/ not_16(i) \/ not_32(i) \/ nbcd_8(i) \/ ext_16(i) \/ ext_32(i) \/ swap_32(i)

\* Operations of one operand.
LEMMA UnaryIs ==
  ASSUME NEW i, UnaryHandlers(i)
  PROVE  /\ i.form = "" /\ i.name \in Onefold \cup {"nbcd", "ext", "swap"}
         /\ i.ea.mode \in Alterable /\ (i.name = "nbcd" => i.z = 1)
            /\ (i.name = "ext" => i.z \in {2, 4})
         /\ (i.name = "swap" => i.z = 4) /\ i.ea.mode # "i"
         /\ (i.name \in {"ext", "swap"} => i.ea.mode = "d")
         /\ cpu' = Placed(Fetched, i.z, i.ea, Op(i.name, i.z, cpu.f, 0, Target(Fetched, i.z,
                i.ea)))
<1>1. /\ i.form = "" /\ i.ea.mode \in Alterable /\ (i.name = "nbcd" => i.z = 1)
         /\ (i.name = "ext" => i.z \in {2, 4})
         /\ (i.name = "swap" => i.z = 4) /\ i.ea.mode # "i"
         /\ (i.name \in {"ext", "swap"} => i.ea.mode = "d")
      /\ \/ i.name = "neg" /\ cpu' = Unary(i, i.z, Neg)
         \/ i.name = "negx" /\ cpu' = Unary(i, i.z, NegX)
         \/ i.name = "not" /\ cpu' = Unary(i, i.z, Invert)
         \/ i.name = "nbcd" /\ cpu' = Unary(i, i.z, NbcdByte)
         \/ i.name = "ext" /\ cpu' = Unary(i, i.z, Ext)
         \/ i.name = "swap" /\ cpu' = Unary(i, i.z, Swap)
  BY
     DEF UnaryHandlers, neg_8, neg_16, neg_32, negx_8, negx_16, negx_32, not_8, not_16, not_32,
         nbcd_8,
         ext_16, ext_32, swap_32, Does, Data, Alterable, Memory, Modes
<1>2. CASE i.name = "neg"
  BY <1>1, <1>2 DEF Unary, Modify, Placed, Target, Op, Onefold, NbcdByte
<1>3. CASE i.name = "negx"
  BY <1>1, <1>3 DEF Unary, Modify, Placed, Target, Op, Onefold, NbcdByte
<1>4. CASE i.name = "not"
  BY <1>1, <1>4 DEF Unary, Modify, Placed, Target, Op, Onefold, NbcdByte
<1>5. CASE i.name = "nbcd"
  BY <1>1, <1>5 DEF Unary, Modify, Placed, Target, Op, Onefold, NbcdByte
<1>6. CASE i.name = "ext"
  BY <1>1, <1>6 DEF Unary, Modify, Placed, Target, Op, Onefold, NbcdByte
<1>7. CASE i.name = "swap"
  BY <1>1, <1>7 DEF Unary, Modify, Placed, Target, Op, Onefold, NbcdByte
<1> QED BY <1>1, <1>2, <1>3, <1>4, <1>5, <1>6, <1>7 DEF Onefold

BitRHandlers(i) ==
  \/ bchg_32_r(i) \/ bchg_8_r(i) \/ bclr_32_r(i) \/ bclr_8_r(i) \/ bset_32_r(i) \/ bset_8_r(i)

\* bchg, bclr and bset with the number of the bit in a register, modulo the width.
LEMMA BitRIs ==
  ASSUME NEW i, BitRHandlers(i)
  PROVE  /\ i.form = "r" /\ i.name \in Bitwise1
         /\ i.ea.mode \in Alterable
         /\ cpu' = Placed(Fetched, i.z, i.ea, Op(i.name, i.z, cpu.f, cpu.d[i.x] % Bits(i.z),
                Target(Fetched, i.z, i.ea)))
<1>1. /\ i.form = "r" /\ i.ea.mode \in Alterable
      /\ \/ i.name = "bchg" /\ cpu' = BitR(i, i.z, Bchg)
         \/ i.name = "bclr" /\ cpu' = BitR(i, i.z, Bclr)
         \/ i.name = "bset" /\ cpu' = BitR(i, i.z, Bset)
  BY
     DEF BitRHandlers, bchg_32_r, bchg_8_r, bclr_32_r, bclr_8_r, bset_32_r, bset_8_r, Does,
         Data, Alterable,
         Memory, Modes
<1>2. CASE i.name = "bchg"
  BY <1>1, <1>2 DEF BitR, Modify, Placed, Target, Op, Bitwise1
<1>3. CASE i.name = "bclr"
  BY <1>1, <1>3 DEF BitR, Modify, Placed, Target, Op, Bitwise1
<1>4. CASE i.name = "bset"
  BY <1>1, <1>4 DEF BitR, Modify, Placed, Target, Op, Bitwise1
<1> QED BY <1>1, <1>2, <1>3, <1>4 DEF Bitwise1

BitSHandlers(i) ==
  \/ bchg_32_s(i) \/ bchg_8_s(i) \/ bclr_32_s(i) \/ bclr_8_s(i) \/ bset_32_s(i) \/ bset_8_s(i)

\* The same with the number behind the opcode.
LEMMA BitSIs ==
  ASSUME NEW i, BitSHandlers(i)
  PROVE  /\ i.form = "s" /\ i.name \in Bitwise1
         /\ i.ea.mode \in Alterable
         /\ cpu' = Placed(Skip(Fetched, 1), i.z, i.ea, Op(i.name, i.z, cpu.f, i.q % Bits(i.z),
                Target(Skip(Fetched, 1), i.z, i.ea)))
<1>1. /\ i.form = "s" /\ i.ea.mode \in Alterable
      /\ \/ i.name = "bchg" /\ cpu' = BitS(i, i.z, Bchg)
         \/ i.name = "bclr" /\ cpu' = BitS(i, i.z, Bclr)
         \/ i.name = "bset" /\ cpu' = BitS(i, i.z, Bset)
  BY
     DEF BitSHandlers, bchg_32_s, bchg_8_s, bclr_32_s, bclr_8_s, bset_32_s, bset_8_s, Does,
         Data, Alterable,
         Memory, Modes
<1>2. CASE i.name = "bchg"
  BY <1>1, <1>2 DEF BitS, Modify, Placed, Target, Op, Bitwise1
<1>3. CASE i.name = "bclr"
  BY <1>1, <1>3 DEF BitS, Modify, Placed, Target, Op, Bitwise1
<1>4. CASE i.name = "bset"
  BY <1>1, <1>4 DEF BitS, Modify, Placed, Target, Op, Bitwise1
<1> QED BY <1>1, <1>2, <1>3, <1>4 DEF Bitwise1

-----------------------------------------------------------------------------
Modifying ==
  Twofold \cup Onefold \cup Decimals \cup {"ext", "swap", "tas"} \cup Bitwise1 \cup Rotated

\* A handler that modifies a destination with an operation in its bounds is right.
LEMMA Modified ==
  ASSUME cpu \in Machine, NEW i, IsInstruction(i), NEW n, NEW v \in Nat, NEW s,
         Stepped(cpu, n, {}, 1 + v),
         i.ea.mode \in Alterable, i.form # "er",
         cpu' = Placed(n, i.z, i.ea, Op(i.name, i.z, cpu.f, s, Target(n, i.z, i.ea))),
         OpBounds(i.name, i.z, s),
         i.ea.more = 0 => Disassembled(i) = 2 * (1 + v + Words(i.z, i.ea))
  PROVE  Right(i)
<1>1. PICK name, z, o : /\ name = i.name /\ z = i.z /\ o = i.ea
                        /\ z \in Sizes /\ IsOperand(o) /\ o.mode \in Alterable
  BY DEF IsInstruction
<1>2. name \in Modifying
  BY <1>1 DEF Modifying, OpBounds
<1>3. PICK t, q, f : t = Target(n, z, o) /\ f = cpu.f /\ q = Op(name, z, f, s, t)
  OBVIOUS
<1>4. t \in Range0(z) /\ f \in Flags
  BY <1>1, <1>3, TargetRange, MachineIs DEF Stepped
<1>5. Typed(z, q) /\ (name \in KeepsX => q.f.x = f.x)
  <2>1. OpBounds(name, z, s)
    BY <1>1
  <2>2. z \in Sizes
    BY <1>1
  <2>3. q = Op(name, z, f, s, t)
    BY <1>3
  <2> QED BY <1>4, <2>1, <2>2, <2>3, OpTyped
<1>6. cpu' = Placed(n, z, o, q)
  BY <1>1, <1>3
<1>12. PICK u \in Nat : u = 1 + v
  OBVIOUS
<1>7. PICK k, w, p : k = Span(z, o) /\ w = u + Words(z, o) /\ p = cpu'
  OBVIOUS
<1>8. Changed(cpu, p, z, {o.r}, {} \cup Steps(o), k, w) /\ p.f = q.f
  <2>1. Stepped(cpu, n, {}, u) /\ p = Placed(n, z, o, q)
    BY <1>6, <1>7, <1>12
  <2>2. z \in Sizes /\ IsOperand(o) /\ o.mode \in Alterable /\ Typed(z, q)
    BY <1>1, <1>5
  <2>3. Changed(cpu, p, z, {o.r}, {} \cup Steps(o), Span(z, o), u + Words(z, o)) /\ p.f = q.f
    <3>1. PICK m, As : m = cpu /\ As = {} /\ m \in Machine
      OBVIOUS
    <3>2. Stepped(m, n, As, u)
      BY <2>1, <3>1
    <3>3. /\ Changed(m, p, z, {o.r}, As \cup Steps(o), Span(z, o), u + Words(z, o))
          /\ p.f = q.f
      BY <2>1, <2>2, <3>1, <3>2, PlacedChanges
    <3> QED BY <3>1, <3>3
  <2> QED BY <1>7, <2>3
<1>9. /\ {o.r} \subseteq DataNamed(i) /\ {} \cup Steps(o) \subseteq AddressNamed(i)
      /\ Bytes(i) = z /\ z \in Nat /\ k \in Nat /\ k <= z
  <2>1. Bytes(i) = z
    BY <1>1, <1>2 DEF Bytes, Modifying, Twofold, Onefold, Decimals, Bitwise1, Rotated
  <2> QED BY <1>1, <1>7, <2>1 DEF DataNamed, AddressNamed, Sizes, Span
<1>10. /\ i.name \notin Silent /\ i.name \notin Elsewhere
       /\ i.name \in KeepX => i.name \in KeepsX
  BY <1>1, <1>2 DEF Modifying, Twofold, Onefold, Decimals, Bitwise1, Rotated, Silent, Elsewhere,
                    KeepX, KeepsX
<1>11. i.ea.more = 0 => Disassembled(i) = 2 * w
  BY <1>1, <1>7, <1>12
<1> QED BY <1>1, <1>3, <1>5, <1>7, <1>8, <1>9, <1>10, <1>11, Concluded

\* So the re handlers are,
LEMMA ReRight == ASSUME cpu \in Machine, NEW i, IsInstruction(i), ReHandlers(i)
  PROVE  Right(i)
<1>1. PICK s : s = Masked(i.z, cpu.d[i.x])
  OBVIOUS
<1>2. OpBounds(i.name, i.z, s) /\ i.ea.mode \in Alterable /\ i.form # "er"
  <2>1. i.x \in Registers /\ i.z \in Sizes
    BY ReIs DEF IsInstruction, HasX
  <2> QED BY <1>1, <2>1, ReIs, MaskedRange, MachineIs DEF Twofold, OpBounds
<1>3. Stepped(cpu, Fetched, {}, 1 + 0) /\ Fetched \in Machine
  BY SkipSteps DEF Fetched
<1>4. i.ea.more = 0 => Disassembled(i) = 2 * (1 + 0 + Words(i.z, i.ea))
  <2>1. i.ea.more = 0 => /\ EaModeStr(i.z, i.ea) = Words(i.z, i.ea) /\ Words(i.z, i.ea) \in Nat
    BY <1>2, EaWords, WordsIs DEF IsInstruction, Alterable, Memory, Modes
  <2> QED BY <2>1, ReIs DEF Disassembled, DasmAdd, DasmSub, DasmAnd, DasmOr, DasmEor, Ea1
<1> QED BY <1>1, <1>2, <1>3, <1>4, ReIs, Modified

-----------------------------------------------------------------------------
(* They are right.                                                         *)

\* The opcode and v words of immediate value are behind.
LEMMA SkippedOn == ASSUME cpu \in Machine, NEW v \in Nat
  PROVE  /\ Stepped(cpu, Skip(Fetched, v), {}, 1 + v) /\ Stepped(cpu, Fetched, {}, 1 + 0)
         /\ Fetched \in Machine
<1>1. Stepped(cpu, Fetched, {}, 1) /\ Fetched \in Machine
  BY SkipSteps DEF Fetched
<1>2. Stepped(Fetched, Skip(Fetched, v), {}, v)
  BY <1>1, SkipSteps
<1>3. Stepped(cpu, Skip(Fetched, v), {} \cup {}, 1 + v)
  BY <1>1, <1>2, SteppedOn
<1>4. {} \cup {} = {} /\ 1 + 0 = 1
  OBVIOUS
<1> QED BY <1>1, <1>3, <1>4

\* The words of an operand, for the disassembler.
LEMMA EaRead == ASSUME NEW i, IsInstruction(i), i.ea.mode \in Modes, i.ea.more = 0
  PROVE  /\ Ea1(i) = Words(i.z, i.ea) /\ EaModeStr(i.z, i.ea) = Words(i.z, i.ea)
         /\ Words(i.z, i.ea) \in Nat
         /\ i.ea.mode # "i" => \A y \in Sizes : EaModeStr(y, i.ea) = Words(i.z, i.ea)
BY EaWords, WordsIs DEF IsInstruction, Ea1

\* the immediate ones,
LEMMA ImmRight == ASSUME cpu \in Machine, NEW i, IsInstruction(i), ImmHandlers(i)
  PROVE  Right(i)
<1>1. PICK s : s = i.q
  OBVIOUS
<1>9. i.name \in {"addi", "subi", "andi", "ori", "eori"} /\ i.form = ""
  BY ImmIs
<1>2. OpBounds(i.name, i.z, s)
  <2> QED BY <1>1, ImmIs DEF OpBounds, IsInstruction, Twofold
<1>3. i.ea.mode \in Alterable /\ i.form # "er" /\ i.ea.mode \in Modes /\ i.ea.mode # "i"
  BY ImmIs DEF Alterable, Memory, Modes
<1>4. PICK v \in Nat : v = ImmWords(i.z)
  BY DEF ImmWords
<1>5. Stepped(cpu, Skip(Fetched, v), {}, 1 + v)
  BY <1>4, SkippedOn
<1>6. i.ea.more = 0 => Disassembled(i) = 2 * (1 + v + Words(i.z, i.ea))
  <2>1. SUFFICES ASSUME i.ea.more = 0 PROVE Disassembled(i) = 2 * (1 + v + Words(i.z, i.ea))
    OBVIOUS
  <2>2. PICK w : /\ w \in Nat /\ w = Words(i.z, i.ea) /\ Ea1(i) = w /\ EaModeStr(1, i.ea) = w
                          /\ EaModeStr(2, i.ea) = w /\ EaModeStr(4, i.ea) = w
    BY <1>3, <2>1, EaRead, SizeIs
  <2>4. i.ea.mode = "d" => w = 0
    BY <2>2 DEF Words
  <2>3. PICK x \in Nat : x = v + w
    BY <2>2
  <2>5. v = 0 => x = w
    BY <2>2, <2>3
  <2>10. i.name \in {"addi"} => DasmAdd(i) = x
    BY <1>3, <1>4, <1>9, <2>2, <2>3, <2>4, <2>5 DEF DasmAdd, ImmEa, ImmStr, ImmWords
  <2>11. i.name \in {"subi"} => DasmSub(i) = x
    BY <1>3, <1>4, <1>9, <2>2, <2>3, <2>4, <2>5 DEF DasmSub, ImmEa, ImmStr, ImmWords
  <2>12. i.name \in {"andi"} => DasmAnd(i) = x
    BY <1>3, <1>4, <1>9, <2>2, <2>3, <2>4, <2>5 DEF DasmAnd, ImmEa, ImmStr, ImmWords
  <2>13. i.name \in {"ori"} => DasmOr(i) = x
    BY <1>3, <1>4, <1>9, <2>2, <2>3, <2>4, <2>5 DEF DasmOr, ImmEa, ImmStr, ImmWords
  <2>14. i.name \in {"eori"} => DasmEor(i) = x
    BY <1>3, <1>4, <1>9, <2>2, <2>3, <2>4, <2>5 DEF DasmEor, ImmEa, ImmStr, ImmWords
  <2>9. Disassembled(i) = 2 + 2 * x
    BY <1>9, <2>10, <2>11, <2>12, <2>13, <2>14 DEF Disassembled
  <2> QED BY <2>2, <2>3, <2>9
<1>7. PICK n : n = Skip(Fetched, v) /\ Stepped(cpu, n, {}, 1 + v)
  BY <1>4, <1>5
<1>8. cpu' = Placed(n, i.z, i.ea, Op(i.name, i.z, cpu.f, s, Target(n, i.z, i.ea)))
  BY <1>1, <1>4, <1>7, ImmIs
<1> QED BY <1>2, <1>3, <1>6, <1>7, <1>8, Modified

\* addq and subq,
LEMMA QuickRight == ASSUME cpu \in Machine, NEW i, IsInstruction(i), QuickHandlers(i)
  PROVE  Right(i)
<1>1. PICK s : s = i.q
  OBVIOUS
<1>9. i.name \in {"addq", "subq"} /\ i.form = ""
  BY QuickIs
<1>2. OpBounds(i.name, i.z, s)
  <2> QED BY <1>1, QuickIs DEF OpBounds, IsInstruction, Twofold
<1>3. i.ea.mode \in Alterable /\ i.form # "er" /\ i.ea.mode \in Modes /\ i.ea.mode # "i"
  BY QuickIs DEF Alterable, Memory, Modes
<1>4. PICK v \in Nat : v = 0
  BY DEF ImmWords
<1>5. Stepped(cpu, Fetched, {}, 1 + v)
  BY <1>4, SkippedOn
<1>6. i.ea.more = 0 => Disassembled(i) = 2 * (1 + v + Words(i.z, i.ea))
  <2>1. SUFFICES ASSUME i.ea.more = 0 PROVE Disassembled(i) = 2 * (1 + v + Words(i.z, i.ea))
    OBVIOUS
  <2>2. PICK w : /\ w \in Nat /\ w = Words(i.z, i.ea) /\ Ea1(i) = w /\ EaModeStr(1, i.ea) = w
                          /\ EaModeStr(2, i.ea) = w /\ EaModeStr(4, i.ea) = w
    BY <1>3, <2>1, EaRead, SizeIs
  <2>4. i.ea.mode = "d" => w = 0
    BY <2>2 DEF Words
  <2>3. PICK x \in Nat : x = v + w
    BY <2>2
  <2>5. v = 0 => x = w
    BY <2>2, <2>3
  <2>10. i.name \in {"addq"} => DasmAdd(i) = x
    BY <1>3, <1>4, <1>9, <2>2, <2>3, <2>4, <2>5 DEF DasmAdd
  <2>11. i.name \in {"subq"} => DasmSub(i) = x
    BY <1>3, <1>4, <1>9, <2>2, <2>3, <2>4, <2>5 DEF DasmSub
  <2>9. Disassembled(i) = 2 + 2 * x
    BY <1>9, <2>10, <2>11 DEF Disassembled
  <2> QED BY <2>2, <2>3, <2>9
<1>7. PICK n : n = Fetched /\ Stepped(cpu, n, {}, 1 + v)
  BY <1>4, <1>5
<1>8. cpu' = Placed(n, i.z, i.ea, Op(i.name, i.z, cpu.f, s, Target(n, i.z, i.ea)))
  BY <1>1, <1>4, <1>7, QuickIs
<1> QED BY <1>2, <1>3, <1>6, <1>7, <1>8, Modified

\* the shifts by a constant,
LEMMA ShiftSRight == ASSUME cpu \in Machine, NEW i, IsInstruction(i), ShiftSHandlers(i)
  PROVE  Right(i)
<1>1. PICK s : s = i.q
  OBVIOUS
<1>9. i.name \in {"asr", "asl", "lsr", "lsl", "ror", "rol", "roxr", "roxl"} /\ i.form = "s"
      /\ i.ea.mode = "d"
  BY ShiftSIs DEF Rotated
<1>2. OpBounds(i.name, i.z, s)
  <2> QED BY <1>1, ShiftSIs, MaskedSame DEF OpBounds, IsInstruction, Rotated
<1>3. i.ea.mode \in Alterable /\ i.form # "er" /\ i.ea.mode \in Modes /\ i.ea.mode # "i"
  BY ShiftSIs DEF Alterable, Memory, Modes
<1>4. PICK v \in Nat : v = 0
  BY DEF ImmWords
<1>5. Stepped(cpu, Fetched, {}, 1 + v)
  BY <1>4, SkippedOn
<1>6. i.ea.more = 0 => Disassembled(i) = 2 * (1 + v + Words(i.z, i.ea))
  <2>1. SUFFICES ASSUME i.ea.more = 0 PROVE Disassembled(i) = 2 * (1 + v + Words(i.z, i.ea))
    OBVIOUS
  <2>2. PICK w : /\ w \in Nat /\ w = Words(i.z, i.ea) /\ Ea1(i) = w /\ EaModeStr(1, i.ea) = w
                          /\ EaModeStr(2, i.ea) = w /\ EaModeStr(4, i.ea) = w
    BY <1>3, <2>1, EaRead, SizeIs
  <2>4. i.ea.mode = "d" => w = 0
    BY <2>2 DEF Words
  <2>3. PICK x \in Nat : x = v + w
    BY <2>2
  <2>5. v = 0 => x = w
    BY <2>2, <2>3
  <2>10. i.name \in {"asr", "asl"} => DasmAs(i) = x
    BY <1>3, <1>4, <1>9, <2>2, <2>3, <2>4, <2>5 DEF DasmAs, Rotated, Words
  <2>11. i.name \in {"lsr", "lsl"} => DasmLs(i) = x
    BY <1>3, <1>4, <1>9, <2>2, <2>3, <2>4, <2>5 DEF DasmLs, Rotated, Words
  <2>12. i.name \in {"ror", "rol", "roxr", "roxl"} => DasmRo(i) = x
    BY <1>3, <1>4, <1>9, <2>2, <2>3, <2>4, <2>5 DEF DasmRo, Rotated, Words
  <2>9. Disassembled(i) = 2 + 2 * x
    BY <1>9, <2>10, <2>11, <2>12 DEF Disassembled
  <2> QED BY <2>2, <2>3, <2>9
<1>7. PICK n : n = Fetched /\ Stepped(cpu, n, {}, 1 + v)
  BY <1>4, <1>5
<1>8. cpu' = Placed(n, i.z, i.ea, Op(i.name, i.z, cpu.f, s, Target(n, i.z, i.ea)))
  BY <1>1, <1>4, <1>7, ShiftSIs
<1> QED BY <1>2, <1>3, <1>6, <1>7, <1>8, Modified

\* Counts in a register, and bits in a long or a byte.
LEMMA CountIs == ASSUME NEW v \in Int, NEW z \in Sizes
  PROVE  v % (2 * Bits(4)) \in Nat /\ v % Bits(z) \in 0..(Bits(z) - 1)
<1>1. PICK h \in Nat \ {0}, l \in Nat \ {0} : h = Bits(z) /\ l = 2 * Bits(4)
  BY Widths, SizeIs
<1>2. \A k \in Nat \ {0} : v % k \in 0..(k - 1)
  BY Remainder
<1> QED BY <1>1, <1>2

\* the shifts by a register,
LEMMA ShiftRRight == ASSUME cpu \in Machine, NEW i, IsInstruction(i), ShiftRHandlers(i)
  PROVE  Right(i)
<1>1. PICK s : s = cpu.d[i.x] % (2 * Bits(4))
  OBVIOUS
<1>9. i.name \in {"asr", "asl", "lsr", "lsl", "ror", "rol", "roxr", "roxl"} /\ i.form = "r"
      /\ i.ea.mode = "d"
  BY ShiftRIs DEF Rotated
<1>2. OpBounds(i.name, i.z, s)
  <2>1. i.z \in Sizes /\ i.q \in Int /\ (i.form = "r" => cpu.d[i.x] \in Int)
    BY <1>9, MachineIs, MaskedSame DEF IsInstruction, HasX
  <2> QED BY <1>1, ShiftRIs, <2>1, CountIs DEF OpBounds, IsInstruction, Rotated
<1>3. i.ea.mode \in Alterable /\ i.form # "er" /\ i.ea.mode \in Modes /\ i.ea.mode # "i"
  BY ShiftRIs DEF Alterable, Memory, Modes
<1>4. PICK v \in Nat : v = 0
  BY DEF ImmWords
<1>5. Stepped(cpu, Fetched, {}, 1 + v)
  BY <1>4, SkippedOn
<1>6. i.ea.more = 0 => Disassembled(i) = 2 * (1 + v + Words(i.z, i.ea))
  <2>1. SUFFICES ASSUME i.ea.more = 0 PROVE Disassembled(i) = 2 * (1 + v + Words(i.z, i.ea))
    OBVIOUS
  <2>2. PICK w : /\ w \in Nat /\ w = Words(i.z, i.ea) /\ Ea1(i) = w /\ EaModeStr(1, i.ea) = w
                          /\ EaModeStr(2, i.ea) = w /\ EaModeStr(4, i.ea) = w
    BY <1>3, <2>1, EaRead, SizeIs
  <2>4. i.ea.mode = "d" => w = 0
    BY <2>2 DEF Words
  <2>3. PICK x \in Nat : x = v + w
    BY <2>2
  <2>5. v = 0 => x = w
    BY <2>2, <2>3
  <2>10. i.name \in {"asr", "asl"} => DasmAs(i) = x
    BY <1>3, <1>4, <1>9, <2>2, <2>3, <2>4, <2>5 DEF DasmAs, Rotated, Words
  <2>11. i.name \in {"lsr", "lsl"} => DasmLs(i) = x
    BY <1>3, <1>4, <1>9, <2>2, <2>3, <2>4, <2>5 DEF DasmLs, Rotated, Words
  <2>12. i.name \in {"ror", "rol", "roxr", "roxl"} => DasmRo(i) = x
    BY <1>3, <1>4, <1>9, <2>2, <2>3, <2>4, <2>5 DEF DasmRo, Rotated, Words
  <2>9. Disassembled(i) = 2 + 2 * x
    BY <1>9, <2>10, <2>11, <2>12 DEF Disassembled
  <2> QED BY <2>2, <2>3, <2>9
<1>7. PICK n : n = Fetched /\ Stepped(cpu, n, {}, 1 + v)
  BY <1>4, <1>5
<1>8. cpu' = Placed(n, i.z, i.ea, Op(i.name, i.z, cpu.f, s, Target(n, i.z, i.ea)))
  BY <1>1, <1>4, <1>7, ShiftRIs
<1> QED BY <1>2, <1>3, <1>6, <1>7, <1>8, Modified

\* the shifts in memory,
LEMMA ShiftMRight == ASSUME cpu \in Machine, NEW i, IsInstruction(i), ShiftMHandlers(i)
  PROVE  Right(i)
<1>1. PICK s : s = 1
  OBVIOUS
<1>9. i.name \in {"asr", "asl", "lsr", "lsl", "ror", "rol", "roxr", "roxl"} /\ i.form = ""
  BY ShiftMIs DEF Rotated
<1>2. OpBounds(i.name, i.z, s)
  <2> QED BY <1>1, ShiftMIs DEF OpBounds, IsInstruction, Rotated
<1>3. i.ea.mode \in Alterable /\ i.form # "er" /\ i.ea.mode \in Modes /\ i.ea.mode # "i"
  BY ShiftMIs DEF Alterable, Memory, Modes
<1>4. PICK v \in Nat : v = 0
  BY DEF ImmWords
<1>5. Stepped(cpu, Fetched, {}, 1 + v)
  BY <1>4, SkippedOn
<1>6. i.ea.more = 0 => Disassembled(i) = 2 * (1 + v + Words(i.z, i.ea))
  <2>1. SUFFICES ASSUME i.ea.more = 0 PROVE Disassembled(i) = 2 * (1 + v + Words(i.z, i.ea))
    OBVIOUS
  <2>2. PICK w : /\ w \in Nat /\ w = Words(i.z, i.ea) /\ Ea1(i) = w /\ EaModeStr(1, i.ea) = w
                          /\ EaModeStr(2, i.ea) = w /\ EaModeStr(4, i.ea) = w
    BY <1>3, <2>1, EaRead, SizeIs
  <2>4. i.ea.mode = "d" => w = 0
    BY <2>2 DEF Words
  <2>3. PICK x \in Nat : x = v + w
    BY <2>2
  <2>5. v = 0 => x = w
    BY <2>2, <2>3
  <2>10. i.name \in {"asr", "asl"} => DasmAs(i) = x
    BY <1>3, <1>4, <1>9, <2>2, <2>3, <2>4, <2>5 DEF DasmAs, Rotated
  <2>11. i.name \in {"lsr", "lsl"} => DasmLs(i) = x
    BY <1>3, <1>4, <1>9, <2>2, <2>3, <2>4, <2>5 DEF DasmLs, Rotated
  <2>12. i.name \in {"ror", "rol", "roxr", "roxl"} => DasmRo(i) = x
    BY <1>3, <1>4, <1>9, <2>2, <2>3, <2>4, <2>5 DEF DasmRo, Rotated
  <2>9. Disassembled(i) = 2 + 2 * x
    BY <1>9, <2>10, <2>11, <2>12 DEF Disassembled
  <2> QED BY <2>2, <2>3, <2>9
<1>7. PICK n : n = Fetched /\ Stepped(cpu, n, {}, 1 + v)
  BY <1>4, <1>5
<1>8. cpu' = Placed(n, i.z, i.ea, Op(i.name, i.z, cpu.f, s, Target(n, i.z, i.ea)))
  BY <1>1, <1>4, <1>7, ShiftMIs
<1> QED BY <1>2, <1>3, <1>6, <1>7, <1>8, Modified

\* Zero is a byte.
LEMMA ZeroIs == 0 \in Range0(1)
BY Widths, SizeIs DEF Range0

\* the operations of one operand,
LEMMA UnaryRight == ASSUME cpu \in Machine, NEW i, IsInstruction(i), UnaryHandlers(i)
  PROVE  Right(i)
<1>1. PICK s : s = 0
  OBVIOUS
<1>9. i.name \in {"neg", "negx", "not", "nbcd", "ext", "swap"} /\ i.form = ""
      /\ (i.name \in {"ext", "swap"} => i.ea.mode = "d")
  BY UnaryIs DEF Onefold
<1>2. OpBounds(i.name, i.z, s)
  <2> QED BY <1>1, UnaryIs, DecimalConstants, ZeroIs
     DEF OpBounds, IsInstruction, Onefold, Decimals
<1>3. i.ea.mode \in Alterable /\ i.form # "er" /\ i.ea.mode \in Modes /\ i.ea.mode # "i"
  BY UnaryIs DEF Alterable, Memory, Modes
<1>4. PICK v \in Nat : v = 0
  BY DEF ImmWords
<1>5. Stepped(cpu, Fetched, {}, 1 + v)
  BY <1>4, SkippedOn
<1>6. i.ea.more = 0 => Disassembled(i) = 2 * (1 + v + Words(i.z, i.ea))
  <2>1. SUFFICES ASSUME i.ea.more = 0 PROVE Disassembled(i) = 2 * (1 + v + Words(i.z, i.ea))
    OBVIOUS
  <2>2. PICK w : /\ w \in Nat /\ w = Words(i.z, i.ea) /\ Ea1(i) = w /\ EaModeStr(1, i.ea) = w
                          /\ EaModeStr(2, i.ea) = w /\ EaModeStr(4, i.ea) = w
    BY <1>3, <2>1, EaRead, SizeIs
  <2>4. i.ea.mode = "d" => w = 0
    BY <2>2 DEF Words
  <2>3. PICK x \in Nat : x = v + w
    BY <2>2
  <2>5. v = 0 => x = w
    BY <2>2, <2>3
  <2>10. i.name \in {"nbcd", "neg", "negx", "not"} => DasmNeg(i) = x
    BY <1>3, <1>4, <1>9, <2>2, <2>3, <2>4, <2>5 DEF DasmNeg, Onefold, Words
  <2>11. i.name \in {"ext"} => DasmEor(i) = x
    BY <1>3, <1>4, <1>9, <2>2, <2>3, <2>4, <2>5 DEF DasmEor, Onefold, Words
  <2>12. i.name \in {"swap"} => DasmSub(i) = x
    BY <1>3, <1>4, <1>9, <2>2, <2>3, <2>4, <2>5 DEF DasmSub, Onefold, Words
  <2>9. Disassembled(i) = 2 + 2 * x
    BY <1>9, <2>10, <2>11, <2>12 DEF Disassembled
  <2> QED BY <2>2, <2>3, <2>9
<1>7. PICK n : n = Fetched /\ Stepped(cpu, n, {}, 1 + v)
  BY <1>4, <1>5
<1>8. cpu' = Placed(n, i.z, i.ea, Op(i.name, i.z, cpu.f, s, Target(n, i.z, i.ea)))
  BY <1>1, <1>4, <1>7, UnaryIs
<1> QED BY <1>2, <1>3, <1>6, <1>7, <1>8, Modified

\* and the operations on a bit, numbered by a register
LEMMA BitRRight == ASSUME cpu \in Machine, NEW i, IsInstruction(i), BitRHandlers(i)
  PROVE  Right(i)
<1>1. PICK s : s = cpu.d[i.x] % Bits(i.z)
  OBVIOUS
<1>9. i.name \in {"bchg", "bclr", "bset"} /\ i.form = "r"
  BY BitRIs DEF Bitwise1
<1>2. OpBounds(i.name, i.z, s)
  <2>1. i.z \in Sizes /\ i.q \in Int /\ (i.form = "r" => cpu.d[i.x] \in Int)
    BY <1>9, MachineIs, MaskedSame DEF IsInstruction, HasX
  <2> QED BY <1>1, BitRIs, <2>1, CountIs DEF OpBounds, IsInstruction, Bitwise1
<1>3. i.ea.mode \in Alterable /\ i.form # "er" /\ i.ea.mode \in Modes /\ i.ea.mode # "i"
  BY BitRIs DEF Alterable, Memory, Modes
<1>4. PICK v \in Nat : v = 0
  BY DEF ImmWords
<1>5. Stepped(cpu, Fetched, {}, 1 + v)
  BY <1>4, SkippedOn
<1>6. i.ea.more = 0 => Disassembled(i) = 2 * (1 + v + Words(i.z, i.ea))
  <2>1. SUFFICES ASSUME i.ea.more = 0 PROVE Disassembled(i) = 2 * (1 + v + Words(i.z, i.ea))
    OBVIOUS
  <2>2. PICK w : /\ w \in Nat /\ w = Words(i.z, i.ea) /\ Ea1(i) = w /\ EaModeStr(1, i.ea) = w
                          /\ EaModeStr(2, i.ea) = w /\ EaModeStr(4, i.ea) = w
    BY <1>3, <2>1, EaRead, SizeIs
  <2>4. i.ea.mode = "d" => w = 0
    BY <2>2 DEF Words
  <2>3. PICK x \in Nat : x = v + w
    BY <2>2
  <2>5. v = 0 => x = w
    BY <2>2, <2>3
  <2>10. i.name \in {"bchg", "bclr"} => DasmBchg(i) = x
    BY <1>3, <1>4, <1>9, <2>2, <2>3, <2>4, <2>5 DEF DasmBchg, Bitwise1
  <2>11. i.name \in {"bset"} => DasmBra(i) = x
    BY <1>3, <1>4, <1>9, <2>2, <2>3, <2>4, <2>5 DEF DasmBra, DasmBchg, Bitwise1
  <2>9. Disassembled(i) = 2 + 2 * x
    BY <1>9, <2>10, <2>11 DEF Disassembled
  <2> QED BY <2>2, <2>3, <2>9
<1>7. PICK n : n = Fetched /\ Stepped(cpu, n, {}, 1 + v)
  BY <1>4, <1>5
<1>8. cpu' = Placed(n, i.z, i.ea, Op(i.name, i.z, cpu.f, s, Target(n, i.z, i.ea)))
  BY <1>1, <1>4, <1>7, BitRIs
<1> QED BY <1>2, <1>3, <1>6, <1>7, <1>8, Modified

\* or by a constant.
LEMMA BitSRight == ASSUME cpu \in Machine, NEW i, IsInstruction(i), BitSHandlers(i)
  PROVE  Right(i)
<1>1. PICK s : s = i.q % Bits(i.z)
  OBVIOUS
<1>9. i.name \in {"bchg", "bclr", "bset"} /\ i.form = "s"
  BY BitSIs DEF Bitwise1
<1>2. OpBounds(i.name, i.z, s)
  <2>1. i.z \in Sizes /\ i.q \in Int /\ (i.form = "r" => cpu.d[i.x] \in Int)
    BY <1>9, MachineIs, MaskedSame DEF IsInstruction, HasX
  <2> QED BY <1>1, BitSIs, <2>1, CountIs DEF OpBounds, IsInstruction, Bitwise1
<1>3. i.ea.mode \in Alterable /\ i.form # "er" /\ i.ea.mode \in Modes /\ i.ea.mode # "i"
  BY BitSIs DEF Alterable, Memory, Modes
<1>4. PICK v \in Nat : v = 1
  BY DEF ImmWords
<1>5. Stepped(cpu, Skip(Fetched, v), {}, 1 + v)
  BY <1>4, SkippedOn
<1>6. i.ea.more = 0 => Disassembled(i) = 2 * (1 + v + Words(i.z, i.ea))
  <2>1. SUFFICES ASSUME i.ea.more = 0 PROVE Disassembled(i) = 2 * (1 + v + Words(i.z, i.ea))
    OBVIOUS
  <2>2. PICK w : /\ w \in Nat /\ w = Words(i.z, i.ea) /\ Ea1(i) = w /\ EaModeStr(1, i.ea) = w
                          /\ EaModeStr(2, i.ea) = w /\ EaModeStr(4, i.ea) = w
    BY <1>3, <2>1, EaRead, SizeIs
  <2>4. i.ea.mode = "d" => w = 0
    BY <2>2 DEF Words
  <2>3. PICK x \in Nat : x = v + w
    BY <2>2
  <2>5. v = 0 => x = w
    BY <2>2, <2>3
  <2>10. i.name \in {"bchg", "bclr"} => DasmBchg(i) = x
    BY <1>3, <1>4, <1>9, <2>2, <2>3, <2>4, <2>5 DEF DasmBchg, Bitwise1, ImmStr
  <2>11. i.name \in {"bset"} => DasmBra(i) = x
    BY <1>3, <1>4, <1>9, <2>2, <2>3, <2>4, <2>5 DEF DasmBra, DasmBchg, Bitwise1, ImmStr
  <2>9. Disassembled(i) = 2 + 2 * x
    BY <1>9, <2>10, <2>11 DEF Disassembled
  <2> QED BY <2>2, <2>3, <2>9
<1>7. PICK n : n = Skip(Fetched, v) /\ Stepped(cpu, n, {}, 1 + v)
  BY <1>4, <1>5
<1>8. cpu' = Placed(n, i.z, i.ea, Op(i.name, i.z, cpu.f, s, Target(n, i.z, i.ea)))
  BY <1>1, <1>4, <1>7, BitSIs
<1> QED BY <1>2, <1>3, <1>6, <1>7, <1>8, Modified

-----------------------------------------------------------------------------
(* Flags, stores and address registers.                                    *)

\* The flags are set before the destination is found.
LEMMA FlagsSet ==
  ASSUME NEW n \in Machine, NEW f \in Flags, NEW k, k = [n EXCEPT !.f = f]
  PROVE  /\ k \in Machine /\ k.d = n.d /\ k.a = n.a /\ k.mem = n.mem /\ k.pc = n.pc
         /\ k.f = f /\ k.trap = n.trap
BY DEF Machine

\* Flags set before or after the operands were found, it is the same.
LEMMA FlagsStepped ==
  ASSUME NEW m \in Machine, NEW n, NEW As, NEW w, Stepped(m, n, As, w), NEW f \in Flags,
         NEW k, k = [n EXCEPT !.f = f], NEW j, j = [m EXCEPT !.f = f]
  PROVE  Stepped(j, k, As, w) /\ j \in Machine
<1>1. /\ k \in Machine /\ k.d = n.d /\ k.a = n.a /\ k.mem = n.mem /\ k.pc = n.pc
      /\ k.f = f /\ k.trap = n.trap
  BY FlagsSet DEF Stepped
<1>2. /\ j \in Machine /\ j.d = m.d /\ j.a = m.a /\ j.mem = m.mem /\ j.pc = m.pc
      /\ j.f = f /\ j.trap = m.trap
  BY FlagsSet
<1> QED BY <1>1, <1>2 DEF Stepped

\* A store to a destination after the flags changes what it names.
LEMMA StoreChanges ==
  ASSUME NEW m \in Machine, NEW n, NEW z \in Sizes, NEW As, NEW w \in Nat, Stepped(m, n, As, w),
         NEW f \in Flags, NEW k, k = [n EXCEPT !.f = f],
         NEW o, IsOperand(o), o.mode \in Alterable, NEW v \in Range0(z),
         NEW p, p = Store(k, z, o, v)
  PROVE  /\ Changed(m, p, z, {o.r}, As \cup Steps(o), Span(z, o), w + Words(z, o))
         /\ p.f = f /\ p.trap = m.trap
<1>1. PICK j : j = [m EXCEPT !.f = f]
  OBVIOUS
<1>2. Stepped(j, k, As, w) /\ j \in Machine
  BY <1>1, FlagsStepped
<1>3. /\ j.d = m.d /\ j.a = m.a /\ j.mem = m.mem /\ j.pc = m.pc /\ j.f = f
      /\ j.trap = m.trap
  BY <1>1, FlagsSet
<1>4. PICK q : q = Result(v, f)
  OBVIOUS
<1>5. Typed(z, q) /\ q.v = v /\ q.f = f
  BY <1>4 DEF Typed, Result
<1>6. p = Placed(k, z, o, q)
  <2>1. k \in Machine /\ k.f = f
    BY <1>2, <1>3 DEF Stepped
  <2>2. ASSUME NEW n1 \in Machine, n1.f = f PROVE [n1 EXCEPT !.f = f] = n1
    BY <2>2 DEF Machine
  <2>3. CASE o.mode = "d"
    BY <1>5, <2>1, <2>2, <2>3 DEF Placed, Store
  <2>4. CASE o.mode # "d"
    <3>1. PICK e : e = Ea(k, z, o)
      OBVIOUS
    <3>2. e.m \in Machine /\ e.m.f = f
      <4>1. o.mode \in Found /\ IsOperand(o) /\ z \in Sizes
        BY <2>4 DEF Alterable, Memory, Found
      <4>2. Stepped(k, Ea(k, z, o).m, Steps(o), Words(z, o)) /\ Ea(k, z, o).m \in Machine
        BY <2>1, <4>1, EaSteps
      <4>3. Stepped(k, e.m, Steps(o), Words(z, o)) /\ e.m \in Machine
        BY <3>1, <4>2
      <4> QED BY <2>1, <4>3 DEF Stepped
    <3> QED BY <1>5, <2>2, <2>4, <3>1, <3>2 DEF Placed, Store
  <2> QED BY <2>3, <2>4
<1>7. /\ Changed(j, p, z, {o.r}, As \cup Steps(o), Span(z, o), w + Words(z, o))
      /\ p.f = q.f /\ p.trap = j.trap
  <2>1. Stepped(j, k, As, w) /\ j \in Machine /\ IsOperand(o) /\ o.mode \in Alterable
        /\ Typed(z, q) /\ z \in Sizes /\ w \in Nat
    BY <1>2, <1>5
  <2> QED BY <1>6, <2>1, PlacedChanges
<1> QED BY <1>3, <1>5, <1>7 DEF Changed, Differing

\* Only flags.
LEMMA OnlyFlags ==
  ASSUME NEW m \in Machine, NEW n, NEW z, NEW As, NEW w, Stepped(m, n, As, w),
         NEW f \in Flags, NEW p, p = [n EXCEPT !.f = f]
  PROVE  /\ Changed(m, p, z, {}, As, 0, w) /\ p.f = f /\ p.trap = m.trap
         /\ p.d = m.d /\ p.a = n.a /\ p.mem = m.mem
<1>1. /\ p \in Machine /\ p.d = n.d /\ p.a = n.a /\ p.mem = n.mem /\ p.pc = n.pc
      /\ p.f = f /\ p.trap = n.trap
  BY FlagsSet DEF Stepped
<1>2. p.mem = m.mem /\ p.d = m.d /\ p.trap = m.trap
  BY <1>1 DEF Stepped
<1>3. Cardinality(Differing(m, p)) = 0
  BY <1>2, SameBytes
<1>4. Changed(m, p, z, {}, As, 0, w)
  BY <1>1, <1>2, <1>3 DEF Stepped, Changed
<1> QED BY <1>1, <1>2, <1>4

\* An address register takes a value.
LEMMA PutASteps ==
  ASSUME NEW m \in Machine, NEW n, NEW As, NEW w, Stepped(m, n, As, w),
         NEW r \in Registers, NEW v \in Int, NEW p, p = PutA(n, r, v)
  PROVE  /\ Stepped(m, p, As \cup {r}, w) /\ p.a[r] = Masked(4, v)
         /\ \A x \in Registers : x # r => p.a[x] = n.a[x]
<1>1. PICK u \in Range0(4) : u = Masked(4, v)
  BY SizeIs, MaskedRange
<1>2. n \in Machine
  BY DEF Stepped
<1>3. p = [n EXCEPT !.a[r] = u]
  BY <1>1 DEF PutA
<1>4. /\ p \in Machine /\ p.d = n.d /\ p.mem = n.mem /\ p.pc = n.pc /\ p.f = n.f
      /\ p.trap = n.trap /\ p.a = [n.a EXCEPT ![r] = u]
  BY <1>2, <1>3 DEF Machine
<1>5. Stepped(m, p, As \cup {r}, w) /\ p.a[r] = u
         /\ \A x \in Registers : x # r => p.a[x] = n.a[x]
  BY <1>2, <1>4, MachineIs DEF Stepped
<1> QED BY <1>1, <1>5

-----------------------------------------------------------------------------
(* The handlers that set flags only.                                       *)

\* The handlers that leave registers and memory alone, but for operands that
\* step.
LEMMA QuietRight ==
  ASSUME cpu \in Machine, NEW i, IsInstruction(i), NEW n, NEW As, NEW w, Stepped(cpu, n, As, w),
         cpu' \in Machine, cpu'.d = n.d, cpu'.a = n.a, cpu'.mem = n.mem, cpu'.pc = n.pc,
         As \subseteq AddressNamed(i), Bytes(i) \in Nat,
         i.name \in Silent => cpu'.f = cpu.f,
         i.name \in KeepX /\ i.form # "toc" => cpu'.f.x = cpu.f.x,
         i.name \notin Elsewhere,
         i.ea.more = 0 /\ i.to.more = 0 => Disassembled(i) = 2 * w
  PROVE  Right(i)
<1>1. cpu'.mem = cpu.mem /\ cpu'.d = cpu.d
  BY DEF Stepped
<1>2. Cardinality(Differing(cpu, cpu')) = 0
  <2>1. Differing(cpu, cpu') = {}
    BY <1>1 DEF Differing
  <2> QED BY <2>1, FS_EmptySet
<1>3. PICK z, Ds, k : z = i.z /\ Ds = {} /\ k = 0
  OBVIOUS
<1>4. Changed(cpu, cpu', z, Ds, As, k, w)
  BY <1>1, <1>2, <1>3 DEF Stepped, Changed
<1>5. Ds \subseteq DataNamed(i) /\ k \in Nat /\ k <= Bytes(i)
  BY <1>3
<1>6. PICK b : b = Bytes(i) /\ b \in Nat
  OBVIOUS
<1>7. /\ i.name \notin Whole => z = i.z \/ i.z = 4
      /\ Bytes(i) \in Nat /\ k <= Bytes(i)
  BY <1>3, <1>5, <1>6
<1> QED BY <1>4, <1>5, <1>7, Concluded

\* A handler that found operands and set flags is right.
LEMMA FlagsRight ==
  ASSUME cpu \in Machine, NEW i, IsInstruction(i), NEW n, NEW As, NEW w, Stepped(cpu, n, As, w),
         NEW f \in Flags, cpu' = [n EXCEPT !.f = f],
         As \subseteq AddressNamed(i), Bytes(i) \in Nat,
         i.name \notin Silent,
         i.name \in KeepX /\ i.form # "toc" => f.x = cpu.f.x,
         i.name \notin Elsewhere,
         i.ea.more = 0 /\ i.to.more = 0 => Disassembled(i) = 2 * w
  PROVE  Right(i)
<1>1. n \in Machine
  BY DEF Stepped
<1>2. /\ cpu' \in Machine /\ cpu'.d = n.d /\ cpu'.a = n.a /\ cpu'.mem = n.mem /\ cpu'.pc = n.pc
      /\ cpu'.f = f
  BY <1>1, FlagsSet
<1> QED BY <1>2, QuietRight

\* An operand, v words behind the opcode.
LEMMA ReadOn ==
  ASSUME cpu \in Machine, NEW v \in Nat, NEW z \in Sizes, NEW o, IsOperand(o), o.mode \in Modes,
         NEW n, n \in {Skip(Fetched, v), Fetched}, n = Fetched => v = 0,
         NEW s, s = Operand(n, z, o)
  PROVE  Stepped(cpu, s.m, Steps(o), (1 + v) + Words(z, o)) /\ s.v \in Range0(z)
        /\ s.m \in Machine
<1>1. Stepped(cpu, n, {}, 1 + v)
  BY SkippedOn
<1>2. n \in Machine
  BY <1>1 DEF Stepped
<1>3. /\ Stepped(n, s.m, Steps(o), Words(z, o)) /\ s.v \in Range0(z)
      /\ s.m \in Machine
  BY <1>2, OperandSteps DEF IsOperand
<1>4. Stepped(cpu, s.m, {} \cup Steps(o), (1 + v) + Words(z, o))
  BY <1>1, <1>3, SteppedOn, WordsIs
<1>5. {} \cup Steps(o) = Steps(o)
  OBVIOUS
<1> QED BY <1>3, <1>4, <1>5

\* A comparison keeps X.
LEMMA CmpFlags ==
  ASSUME NEW z \in Sizes, NEW f \in Flags, NEW s \in Range0(z), NEW d \in Range0(z)
  PROVE  Cmp(z, f, s, d).f \in Flags /\ Cmp(z, f, s, d).f.x = f.x
BY BinaryTyped DEF Typed

-----------------------------------------------------------------------------
ShowHandlers(i) ==
  \/ cmp_8(i) \/ cmp_16(i) \/ cmp_32(i) \/ cmpa_16(i) \/ cmpa_32(i)
  \/ tst_8(i) \/ tst_16(i) \/ tst_32(i) \/ btst_32_r(i) \/ btst_8_r(i) \/ move_16_toc(i)

\* cmp, cmpa, tst, btst and move to CCR read an operand and set flags.
LEMMA ShowIs ==
  ASSUME cpu \in Machine, NEW i, IsInstruction(i), ShowHandlers(i)
  PROVE  /\ i.name \in {"cmp", "cmpa", "tst", "btst", "move"} /\ i.ea.mode \in Modes
         /\ i.name = "btst" => (i.form = "r" /\ (i.ea.mode = "i" => i.z = 1))
         /\ i.name = "move" => (i.form = "toc" /\ i.z = 2)
         /\ \E s, f : /\ s = Operand(Fetched, i.z, i.ea) /\ f \in Flags
                      /\ f.x = cpu.f.x \/ i.form = "toc"
                      /\ cpu' = [s.m EXCEPT !.f = f]
<1>1. PICK s, z, g : s = Operand(Fetched, i.z, i.ea) /\ z = i.z /\ z \in Sizes /\ g = cpu.f
      /\ g \in Flags
  BY MachineIs DEF IsInstruction
<1>2. i.ea.mode \in Modes => s.v \in Range0(z) /\ s.m \in Machine
  <2>1. SUFFICES ASSUME i.ea.mode \in Modes PROVE s.v \in Range0(z) /\ s.m \in Machine
    OBVIOUS
  <2>2. PICK o : o = i.ea /\ IsOperand(o) /\ o.mode \in Modes /\ s = Operand(Fetched, z, o)
    BY <1>1, <2>1 DEF IsInstruction
  <2> QED BY <1>1, <2>2, ReadOn
<1>3. CASE cmp_8(i) \/ cmp_16(i) \/ cmp_32(i)
  <2>1. /\ i.name = "cmp" /\ i.ea.mode \in Modes
        /\ cpu' = WithFlags(s.m, Cmp(z, g, s.v, Masked(z, cpu.d[i.x])))
    BY <1>1, <1>3 DEF cmp_8, cmp_16, cmp_32, Does, Compared, Data
  <2>2. PICK d : d = Masked(z, cpu.d[i.x]) /\ d \in Range0(z)
    BY <1>1, <2>1, MachineIs, MaskedRange DEF IsInstruction, HasX
  <2>3. PICK f : f = Cmp(z, g, s.v, d).f /\ f \in Flags /\ f.x = g.x
    BY <1>1, <1>2, <2>1, <2>2, CmpFlags
  <2> QED BY <1>1, <2>1, <2>2, <2>3 DEF WithFlags
<1>4. CASE cmpa_16(i) \/ cmpa_32(i)
  <2>1. /\ i.name = "cmpa" /\ i.ea.mode \in Modes
        /\ cpu' = WithFlags(s.m, Cmp(4, g, Extended(z, s.v), s.m.a[i.x]))
    <3>1. /\ i.name = "cmpa" /\ i.ea.mode \in Modes /\ cpu' = ComparedA(i, z)
      BY <1>1, <1>4 DEF cmpa_16, cmpa_32, Does
    <3>2. Widened(i, z) = [s EXCEPT !.v = Extended(z, s.v)]
      BY <1>1 DEF Widened
    <3>3. s = [v |-> s.v, m |-> s.m]
      BY <1>1, <3>1 DEF Operand, Modes
    <3>4. Widened(i, z).v = Extended(z, s.v) /\ Widened(i, z).m = s.m
      BY <3>2, <3>3
    <3> QED BY <1>1, <3>1, <3>4 DEF ComparedA
  <2>2. PICK d : d = s.m.a[i.x] /\ d \in Range0(4)
    BY <1>1, <1>2, <2>1, MachineIs DEF IsInstruction, HasX
  <2>3. PICK e : e = Extended(z, s.v) /\ e \in Range0(4)
    BY <1>1, <1>2, <2>1, ExtendedType, MaskedSame
  <2>4. PICK f : f = Cmp(4, g, e, d).f /\ f \in Flags /\ f.x = g.x
    BY <1>1, <2>2, <2>3, CmpFlags, SizeIs
  <2> QED BY <1>1, <2>1, <2>2, <2>3, <2>4 DEF WithFlags
<1>5. CASE tst_8(i) \/ tst_16(i) \/ tst_32(i)
  <2>1. /\ i.name = "tst" /\ i.ea.mode \in Modes
        /\ cpu' = WithFlags(s.m, Logical(z, g, s.v))
    BY <1>1, <1>5 DEF tst_8, tst_16, tst_32, Does, Shown, Alterable, Memory, Modes
  <2>2. PICK f : f = Logical(z, g, s.v).f /\ f \in Flags /\ f.x = g.x
    BY <1>1, <1>2, <2>1, LogicalTyped DEF Typed
  <2> QED BY <1>1, <2>1, <2>2 DEF WithFlags
<1>6. CASE btst_32_r(i) \/ btst_8_r(i)
  <2>1. /\ i.name = "btst" /\ i.form = "r" /\ i.ea.mode \in Modes /\ (i.ea.mode = "i" => i.z = 1)
        /\ cpu' = WithFlags(s.m, Btst(g, cpu.d[i.x] % Bits(z), s.v))
    BY <1>1, <1>6 DEF btst_32_r, btst_8_r, Does, BitTested, Data, Modes
  <2>2. PICK b : b = cpu.d[i.x] % Bits(z) /\ b \in 0..(Bits(z) - 1)
    <3>1. cpu.d[i.x] \in Int
      BY <2>1, MachineIs DEF IsInstruction, HasX
    <3> QED BY <1>1, <3>1, CountIs
  <2>3. PICK f : f = Btst(g, b, s.v).f /\ f \in Flags /\ f.x = g.x
    BY <1>1, <1>2, <2>1, <2>2, BitsTyped DEF Typed
  <2> QED BY <1>1, <2>1, <2>2, <2>3 DEF WithFlags
<1>7. CASE move_16_toc(i)
  <2>1. /\ i.name = "move" /\ i.form = "toc" /\ i.ea.mode \in Modes /\ i.z = 2
        /\ cpu' = [s.m EXCEPT !.f = SetCcr(s.v)]
    BY <1>1, <1>7 DEF move_16_toc, Does, Data
  <2>2. SetCcr(s.v) \in Flags
    BY <1>1, <1>2, <2>1, SetCcrTyped, MaskedSame
  <2> QED BY <1>1, <2>1, <2>2
<1> QED BY <1>3, <1>4, <1>5, <1>6, <1>7 DEF ShowHandlers

\* They are right.
LEMMA ShowRight == ASSUME cpu \in Machine, NEW i, IsInstruction(i), ShowHandlers(i)
  PROVE  Right(i)
<1>1. /\ i.name \in {"cmp", "cmpa", "tst", "btst", "move"} /\ i.ea.mode \in Modes
      /\ i.name = "btst" => (i.form = "r" /\ (i.ea.mode = "i" => i.z = 1))
      /\ i.name = "move" => (i.form = "toc" /\ i.z = 2)
  BY ShowIs
<1>2. PICK s, f : /\ s = Operand(Fetched, i.z, i.ea) /\ f \in Flags
                  /\ f.x = cpu.f.x \/ i.form = "toc"
                  /\ cpu' = [s.m EXCEPT !.f = f]
  BY ShowIs
<1>3. PICK o, z : o = i.ea /\ z = i.z /\ z \in Sizes /\ IsOperand(o) /\ o.mode \in Modes
  BY <1>1 DEF IsInstruction
<1>4. PICK v \in Nat : v = 0
  OBVIOUS
<1>5. Stepped(cpu, s.m, Steps(o), (1 + v) + Words(z, o))
  <2>1. s = Operand(Fetched, z, o)
    BY <1>2, <1>3
  <2> QED BY <1>3, <1>4, <2>1, ReadOn
<1>6. PICK w : w = (1 + v) + Words(z, o)
  OBVIOUS
<1>7. i.ea.more = 0 => Disassembled(i) = 2 * w
  <2>1. SUFFICES ASSUME i.ea.more = 0 PROVE Disassembled(i) = 2 * w
    OBVIOUS
  <2>2. PICK u : /\ u \in Nat /\ u = Words(i.z, i.ea) /\ Ea1(i) = u
                 /\ i.ea.mode # "i" => EaModeStr(1, i.ea) = u
    BY <1>1, <2>1, EaRead, SizeIs
  <2>3. i.ea.mode = "i" /\ i.z \in {1, 2} => EaModeStr(1, i.ea) = u
    BY <2>2 DEF EaModeStr, ImmStr, ImmWords, Words
  <2>4. i.name \in {"cmp", "cmpa"} => DasmClr(i) = u
    BY <2>2 DEF DasmClr
  <2>5. i.name = "tst" => DasmTrapv(i) = u
    BY <2>2 DEF DasmTrapv
  <2>6. i.name = "btst" => DasmBra(i) = u
    BY <1>1, <2>2, <2>3 DEF DasmBra, DasmBchg
  <2>7. i.name = "move" => DasmMove(i) = u
    BY <1>1, <2>2, <2>3 DEF DasmMove
  <2>8. Disassembled(i) = 2 + 2 * u
    BY <1>1, <2>4, <2>5, <2>6, <2>7 DEF Disassembled
  <2> QED BY <1>3, <1>4, <1>6, <2>2, <2>8
<1>8. /\ i.name \notin Silent /\ i.name \notin Elsewhere
      /\ i.name \in KeepX /\ i.form # "toc" => f.x = cpu.f.x
  BY <1>1, <1>2 DEF Silent, Elsewhere, KeepX
<1>9. Steps(o) \subseteq AddressNamed(i) /\ Bytes(i) \in Nat
  BY <1>1, <1>3 DEF AddressNamed, Bytes, Sizes
<1>10. PICK n, As : n = s.m /\ As = Steps(o)
  OBVIOUS
<1>11. Stepped(cpu, n, As, w) /\ As \subseteq AddressNamed(i) /\ cpu' = [n EXCEPT !.f = f]
  BY <1>2, <1>5, <1>6, <1>9, <1>10
<1> QED BY <1>2, <1>7, <1>8, <1>9, <1>11, FlagsRight

-----------------------------------------------------------------------------
\* With a value behind the opcode.
AgainstHandlers(i) ==
  cmpi_8(i) \/ cmpi_16(i) \/ cmpi_32(i) \/ btst_32_s(i) \/ btst_8_s(i)

\* cmpi and btst with a constant do so behind their constant.
LEMMA AgainstIs ==
  ASSUME cpu \in Machine, NEW i, IsInstruction(i), AgainstHandlers(i)
  PROVE  /\ i.name \in {"cmpi", "btst"} /\ i.ea.mode \in Modes \ {"i"}
         /\ i.name = "btst" => i.form = "s"
         /\ \E s, f, v, n :
              /\ v = IF i.name = "cmpi" THEN ImmWords(i.z) ELSE 1
              /\ n = Skip(Fetched, v) /\ s = Operand(n, i.z, i.ea) /\ f \in Flags
              /\ f.x = cpu.f.x /\ cpu' = [s.m EXCEPT !.f = f]
<1>1. PICK z, g, o, q : /\ z = i.z /\ z \in Sizes /\ g = cpu.f /\ g \in Flags /\ o = i.ea
                           /\ IsOperand(o)
                        /\ q = i.q /\ q \in Range0(z)
  BY MachineIs DEF IsInstruction
<1>2. CASE cmpi_8(i) \/ cmpi_16(i) \/ cmpi_32(i)
  <2>1. PICK v \in Nat : v = ImmWords(z)
    BY DEF ImmWords
  <2>2. PICK n, s : n = Skip(Fetched, v) /\ s = Operand(n, z, o)
    OBVIOUS
  <2>3. /\ i.name = "cmpi" /\ o.mode \in Modes \ {"i"}
        /\ cpu' = WithFlags(s.m, Cmp(z, g, q, s.v))
    BY <1>1, <1>2, <2>1, <2>2
       DEF cmpi_8, cmpi_16, cmpi_32, Does, ComparedI, Alterable, Memory, Modes
  <2>4. s.v \in Range0(z)
    BY <1>1, <2>2, <2>3, ReadOn
  <2>5. PICK f : f = Cmp(z, g, q, s.v).f /\ f \in Flags /\ f.x = g.x
    BY <1>1, <2>4, CmpFlags
  <2> QED BY <1>1, <2>1, <2>2, <2>3, <2>5 DEF WithFlags
<1>3. CASE btst_32_s(i) \/ btst_8_s(i)
  <2>1. PICK v \in Nat : v = 1
    OBVIOUS
  <2>2. PICK n, s : n = Skip(Fetched, v) /\ s = Operand(n, z, o)
    OBVIOUS
  <2>3. /\ i.name = "btst" /\ i.form = "s" /\ o.mode \in Modes \ {"i"}
        /\ cpu' = WithFlags(s.m, Btst(g, q % Bits(z), s.v))
    BY <1>1, <1>3, <2>1, <2>2 DEF btst_32_s, btst_8_s, Does, BitTested, Data, Modes
  <2>4. s.v \in Range0(z)
    BY <1>1, <2>2, <2>3, ReadOn
  <2>6. PICK b : b = q % Bits(z) /\ b \in 0..(Bits(z) - 1)
    BY <1>1, CountIs, MaskedSame
  <2>5. PICK f : f = Btst(g, b, s.v).f /\ f \in Flags /\ f.x = g.x
    BY <1>1, <2>4, <2>6, BitsTyped DEF Typed
  <2> QED BY <1>1, <2>1, <2>2, <2>3, <2>5, <2>6 DEF WithFlags
<1> QED BY <1>2, <1>3 DEF AgainstHandlers

\* They are right.
LEMMA AgainstRight == ASSUME cpu \in Machine, NEW i, IsInstruction(i), AgainstHandlers(i)
  PROVE  Right(i)
<1>1. /\ i.name \in {"cmpi", "btst"} /\ i.ea.mode \in Modes \ {"i"}
      /\ i.name = "btst" => i.form = "s"
  BY AgainstIs
<1>2. PICK s, f, v, n :
              /\ v = IF i.name = "cmpi" THEN ImmWords(i.z) ELSE 1
              /\ n = Skip(Fetched, v) /\ s = Operand(n, i.z, i.ea) /\ f \in Flags
              /\ f.x = cpu.f.x /\ cpu' = [s.m EXCEPT !.f = f]
  BY AgainstIs
<1>3. PICK o, z : o = i.ea /\ z = i.z /\ z \in Sizes /\ IsOperand(o) /\ o.mode \in Modes
  BY <1>1 DEF IsInstruction
<1>4. v \in Nat
  BY <1>2 DEF ImmWords
<1>5. Stepped(cpu, s.m, Steps(o), (1 + v) + Words(z, o))
  <2>1. s = Operand(n, z, o) /\ n = Skip(Fetched, v)
    BY <1>2, <1>3
  <2>2. n = Fetched => v = 0
    <3>1. Stepped(cpu, n, {}, 1 + v) /\ Stepped(cpu, Fetched, {}, 1 + 0)
      BY <1>4, <2>1, SkippedOn
    <3>2. SUFFICES ASSUME n = Fetched PROVE v = 0
      OBVIOUS
    <3>3. PICK c, l : /\ c = cpu.pc /\ l = Mod(4) /\ c \in 0..(l - 1) /\ l \in Nat \ {0}
                         /\ l >= 64 /\ v \in {1, 2}
      BY <1>2, MachineIs, LongIs, AddressAssumption DEF Range0, ImmWords
    <3>4. (c + 2 * (1 + v)) % l = (c + 2) % l
      BY <3>1, <3>2, <3>3 DEF Stepped, Masked
    <3> QED BY <3>3, <3>4
  <2>3. n \in {Skip(Fetched, v), Fetched}
    BY <2>1
  <2> QED BY <1>3, <1>4, <2>1, <2>2, <2>3, ReadOn
<1>6. PICK w : w = (1 + v) + Words(z, o)
  OBVIOUS
<1>7. i.ea.more = 0 => Disassembled(i) = 2 * w
  <2>1. SUFFICES ASSUME i.ea.more = 0 PROVE Disassembled(i) = 2 * w
    OBVIOUS
  <2>2. PICK u : /\ u \in Nat /\ u = Words(i.z, i.ea) /\ Ea1(i) = u
                 /\ EaModeStr(1, i.ea) = u
    BY <1>1, <2>1, EaRead, SizeIs
  <2>3. PICK x \in Nat : x = v + u
    BY <1>4, <2>2
  <2>4. i.name = "cmpi" => DasmClr(i) = x
    BY <1>2, <2>2, <2>3 DEF DasmClr, ImmEa, ImmStr, ImmWords
  <2>6. i.name = "btst" => DasmBra(i) = x
    BY <1>1, <1>2, <2>2, <2>3 DEF DasmBra, DasmBchg, ImmStr
  <2>8. Disassembled(i) = 2 + 2 * x
    BY <1>1, <2>4, <2>6 DEF Disassembled
  <2> QED BY <1>3, <1>4, <1>6, <2>2, <2>3, <2>8
<1>8. /\ i.name \notin Silent /\ i.name \notin Elsewhere
      /\ i.name \in KeepX /\ i.form # "toc" => f.x = cpu.f.x
  BY <1>1, <1>2 DEF Silent, Elsewhere, KeepX
<1>9. Steps(o) \subseteq AddressNamed(i) /\ Bytes(i) \in Nat
  BY <1>1, <1>3 DEF AddressNamed, Bytes, Sizes
<1>10. PICK k, As : k = s.m /\ As = Steps(o)
  OBVIOUS
<1>11. Stepped(cpu, k, As, w) /\ As \subseteq AddressNamed(i) /\ cpu' = [k EXCEPT !.f = f]
  BY <1>2, <1>5, <1>6, <1>9, <1>10
<1> QED BY <1>2, <1>7, <1>8, <1>9, <1>11, FlagsRight

-----------------------------------------------------------------------------
\* CMPM: both operands step.
LEMMA UpIs == ASSUME NEW r \in Registers, NEW z \in Sizes
  PROVE  /\ IsOperand(Up(r)) /\ Up(r).mode \in Modes /\ Steps(Up(r)) = {r} /\ Words(z, Up(r)) = 0
         /\ IsOperand(Down(r)) /\ Down(r).mode \in Memory /\ Down(r).mode \in Modes
         /\ Down(r).mode \in Alterable /\ Down(r).mode # "d"
         /\ Steps(Down(r)) = {r} /\ Words(z, Down(r)) = 0 /\ Down(r).r = r
BY DEF IsOperand, Up, Down, Modes, Memory, Alterable, Steps, Words

\* cmpm reads two operands, each moving its register.
LEMMA CmpmRight ==
  ASSUME cpu \in Machine, NEW i, IsInstruction(i), cmpm_8(i) \/ cmpm_16(i) \/ cmpm_32(i)
  PROVE  Right(i)
<1>1. i.name = "cmpm" /\ cpu' = ComparedM(i, i.z) /\ i.ea.mode = "pi"
  BY DEF cmpm_8, cmpm_16, cmpm_32, Does
<1>2. PICK z, x, r, g : /\ z = i.z /\ x = i.x /\ r = i.ea.r /\ g = cpu.f /\ z \in Sizes
                        /\ x \in Registers /\ r \in Registers /\ g \in Flags
  BY <1>1, MachineIs DEF IsInstruction, HasX, IsOperand
<1>3. PICK s, d : s = Operand(Fetched, z, Up(r)) /\ d = Operand(s.m, z, Up(x))
  OBVIOUS
<1>4. Stepped(cpu, s.m, {r}, 1 + 0) /\ s.v \in Range0(z) /\ s.m \in Machine
  <2>1. Stepped(cpu, s.m, Steps(Up(r)), (1 + 0) + Words(z, Up(r))) /\ s.v \in Range0(z)
        /\ s.m \in Machine
    BY <1>2, <1>3, UpIs, ReadOn
  <2>2. Steps(Up(r)) = {r} /\ Words(z, Up(r)) = 0
    BY <1>2, UpIs
  <2>3. Stepped(cpu, s.m, {r}, (1 + 0) + 0)
    BY <2>1, <2>2, Zenon
  <2>4. (1 + 0) + 0 = 1 + 0
    OBVIOUS
  <2> QED BY <2>1, <2>3, <2>4
<1>5. Stepped(s.m, d.m, {x}, 0) /\ d.v \in Range0(z)
  <2>1. IsOperand(Up(x)) /\ Up(x).mode \in Modes /\ Steps(Up(x)) = {x} /\ Words(z, Up(x)) = 0
        /\ Up(x).mode # "a"
    BY <1>2, UpIs DEF Up
  <2>2. PICK o : o = Up(x)
    OBVIOUS
  <2>3. Stepped(s.m, d.m, Steps(o), Words(z, o)) /\ d.v \in Range0(z)
    BY <1>2, <1>3, <1>4, <2>1, <2>2, OperandSteps
  <2>4. Steps(o) = {x} /\ Words(z, o) = 0
    BY <2>1, <2>2
  <2> QED BY <2>3, <2>4
<1>6. Stepped(cpu, d.m, {r} \cup {x}, 1)
  <2>1. PICK u \in Nat : u = 1 + 0
    OBVIOUS
  <2>5. PICK v \in Nat : v = 0
    OBVIOUS
  <2>6. PICK As, Bs : As = {r} /\ Bs = {x}
    OBVIOUS
  <2>7. PICK m, n, p : m = cpu /\ n = s.m /\ p = d.m /\ m \in Machine
    OBVIOUS
  <2>2. Stepped(m, n, As, u) /\ Stepped(n, p, Bs, v)
    BY <1>4, <1>5, <2>1, <2>5, <2>6, <2>7
  <2>8. Stepped(m, p, As \cup Bs, u + v)
    BY <2>2, <2>7, SteppedOn
  <2>3. Stepped(cpu, d.m, As \cup Bs, u + v)
    BY <2>7, <2>8
  <2>4. u + v = 1
    BY <2>1, <2>5
  <2> QED BY <2>3, <2>4, <2>6
<1>7. PICK f : f = Cmp(z, g, s.v, d.v).f /\ f \in Flags /\ f.x = g.x
  BY <1>2, <1>4, <1>5, CmpFlags
<1>8. cpu' = [d.m EXCEPT !.f = f]
  BY <1>1, <1>2, <1>3, <1>7 DEF ComparedM, WithFlags
<1>9. {r} \cup {x} \subseteq AddressNamed(i) /\ Bytes(i) \in Nat
  BY <1>1, <1>2 DEF AddressNamed, Bytes, Steps
<1>10. PICK n, As, w : n = d.m /\ As = {r} \cup {x} /\ w = 1
  OBVIOUS
<1>11. /\ Stepped(cpu, n, As, w) /\ As \subseteq AddressNamed(i) /\ cpu' = [n EXCEPT !.f = f]
       /\ Disassembled(i) = 2 * w
  BY <1>1, <1>6, <1>8, <1>9, <1>10 DEF Disassembled, DasmClr
<1>12. i.name \notin Silent /\ i.name \notin Elsewhere /\ f.x = cpu.f.x
  BY <1>1, <1>2, <1>7 DEF Silent, Elsewhere
<1> QED BY <1>7, <1>9, <1>11, <1>12, FlagsRight

-----------------------------------------------------------------------------
\* The condition codes by an immediate value.
LEMMA CcrRight ==
  ASSUME cpu \in Machine, NEW i, IsInstruction(i),
         andi_16_toc(i) \/ ori_16_toc(i) \/ eori_16_toc(i)
  PROVE  Right(i)
<1>1. PICK f, g, q : f \in {CcrAnd(g, q), CcrOr(g, q), CcrEor(g, q)} /\ g = cpu.f /\ q = i.q
                     /\ cpu' = [Skip(Fetched, 1) EXCEPT !.f = f]
                     /\ i.name \in {"andi", "ori", "eori"} /\ i.form = "toc"
  BY DEF andi_16_toc, ori_16_toc, eori_16_toc, Does, ToCcr
<1>2. q \in Int /\ g \in Flags
  BY <1>1, MachineIs, MaskedSame DEF IsInstruction
<1>3. f \in Flags
  BY <1>1, <1>2, CcrTyped
<1>4. PICK n, As, w : n = Skip(Fetched, 1) /\ As = {} /\ w = 1 + 1
  OBVIOUS
<1>5. Stepped(cpu, n, As, w)
  BY <1>4, SkippedOn
<1>6. /\ As \subseteq AddressNamed(i) /\ Bytes(i) \in Nat /\ Disassembled(i) = 2 * w
      /\ i.name \notin Silent /\ i.name \notin Elsewhere /\ i.name \notin KeepX
  BY <1>1, <1>4
     DEF Bytes, Disassembled, DasmAnd, DasmOr, DasmEor, ImmStr, Silent, Elsewhere, KeepX,
                    IsInstruction, Sizes
<1> QED BY <1>1, <1>3, <1>4, <1>5, <1>6, FlagsRight

\* The handlers of an opcode that only go on, or raise an exception.
LEMMA NopRight ==
  ASSUME cpu \in Machine, NEW i, IsInstruction(i), nop(i) \/ trapv(i) \/ dbt_16(i)
  PROVE  Right(i)
<1>1. PICK v, n : v \in Nat /\ v = (IF i.name = "dbt" THEN 1 ELSE 0)
      /\ n = IF i.name = "dbt" THEN Passed ELSE Fetched
  OBVIOUS
<1>2. /\ i.name \in {"nop", "trapv", "dbt"} /\ i.z \in {2, 4}
      /\ cpu' = n \/ cpu' = Raise(n, "trapv")
  BY <1>1 DEF nop, trapv, dbt_16, Does
<1>3. Stepped(cpu, n, {}, 1 + v) /\ n \in Machine
  BY <1>1, SkippedOn DEF Passed, Stepped
<1>4. /\ cpu' \in Machine /\ cpu'.d = n.d /\ cpu'.a = n.a /\ cpu'.mem = n.mem /\ cpu'.pc = n.pc
      /\ cpu'.f = n.f
  BY <1>2, <1>3 DEF Raise, Machine
<1>5. PICK As, w : As = {} /\ w = 1 + v
  OBVIOUS
<1>6. /\ As \subseteq AddressNamed(i) /\ Bytes(i) \in Nat /\ Disassembled(i) = 2 * w
      /\ i.name \notin KeepX /\ i.name \notin Elsewhere
  BY <1>1, <1>2, <1>5 DEF Bytes, Disassembled, DasmDbcc, DasmNeg, DasmTrapv, KeepX, Elsewhere
<1>7. Stepped(cpu, n, As, w) /\ cpu'.f = cpu.f
  BY <1>3, <1>4, <1>5 DEF Stepped
<1> QED BY <1>4, <1>6, <1>7, QuietRight

-----------------------------------------------------------------------------
(* The handlers that set a data register.                                  *)

\* A result settles in a data register.
LEMMA SettledRight ==
  ASSUME cpu \in Machine, NEW i, IsInstruction(i), NEW n, NEW As, NEW w, Stepped(cpu, n, As, w),
         NEW y \in Sizes, NEW x \in Registers, NEW q, Typed(y, q), cpu' = Settled(n, y, x, q),
         i.name \notin Whole => y = i.z \/ i.z = 4, x \in DataNamed(i),
         As \subseteq AddressNamed(i), Bytes(i) \in Nat,
         i.name \in Silent => q.f = cpu.f,
         i.name \in KeepX /\ i.form # "toc" => q.f.x = cpu.f.x,
         i.name \notin Elsewhere,
         i.ea.more = 0 /\ i.to.more = 0 => Disassembled(i) = 2 * w
  PROVE  Right(i)
<1>1. PICK Ds, k : Ds = {x} /\ k = 0
  OBVIOUS
<1>2. Changed(cpu, cpu', y, Ds, As, k, w) /\ cpu'.f = q.f
  <2>1. PICK m : m = cpu /\ m \in Machine
    OBVIOUS
  <2>2. Stepped(m, n, As, w)
    BY <2>1
  <2>3. Changed(m, Settled(n, y, x, q), y, {x}, As, 0, w) /\ Settled(n, y, x, q).f = q.f
    BY <2>1, <2>2, SettledChanges
  <2> QED BY <1>1, <2>1, <2>3
<1>3. Ds \subseteq DataNamed(i) /\ k \in Nat /\ k <= Bytes(i)
  BY <1>1
<1> QED BY <1>2, <1>3, Concluded

\* Words to a long.
LongHandlers(i) == mulu_16(i) \/ muls_16(i) \/ divu_16(i) \/ divs_16(i)

\* mulu, muls, divu, divs: a long result, or nothing but a trap or the overflow flag.
LEMMA LongRight == ASSUME cpu \in Machine, NEW i, IsInstruction(i), LongHandlers(i)
  PROVE  Right(i)
<1>1. /\ i.name \in {"mulu", "muls", "divu", "divs"} /\ i.ea.mode \in Modes /\ i.z = 2
      /\ \/ i.name = "mulu" /\ cpu' = Long(i, Mulu)
         \/ i.name = "muls" /\ cpu' = Long(i, Muls)
         \/ i.name = "divu" /\ cpu' = Division(i, Divu)
         \/ i.name = "divs" /\ cpu' = Division(i, Divs)
  BY DEF LongHandlers, mulu_16, muls_16, divu_16, divs_16, Does, Data
<1>2. PICK o, x, g : o = i.ea /\ x = i.x /\ g = cpu.f /\ g \in Flags /\ x \in Registers
                     /\ IsOperand(o) /\ o.mode \in Modes /\ cpu.d[x] \in Range0(4)
  BY <1>1, MachineIs DEF IsInstruction, HasX
<1>3. PICK s : s = Operand(Fetched, 2, o)
  OBVIOUS
<1>4. PICK v \in Nat : v = 0
  OBVIOUS
<1>5. Stepped(cpu, s.m, Steps(o), (1 + v) + Words(2, o)) /\ s.v \in Range0(2) /\ s.m \in Machine
  BY <1>2, <1>3, <1>4, ReadOn, SizeIs
<1>6. PICK n, As, w : n = s.m /\ As = Steps(o) /\ w = (1 + v) + Words(2, o)
  OBVIOUS
<1>7. Stepped(cpu, n, As, w) /\ n \in Machine
  BY <1>5, <1>6
<1>8. i.ea.more = 0 => Disassembled(i) = 2 * w
  <2>1. SUFFICES ASSUME i.ea.more = 0 PROVE Disassembled(i) = 2 * w
    OBVIOUS
  <2>2. PICK u \in Nat : u = Words(2, i.ea) /\ Ea1(i) = u /\ EaModeStr(2, i.ea) = u
    BY <1>1, <2>1, EaRead
  <2>3. Disassembled(i) = 2 + 2 * u
    BY <1>1, <2>2 DEF Disassembled, DasmMul, DasmDbcc
  <2> QED BY <1>2, <1>4, <1>6, <2>2, <2>3
<1>9. /\ i.name \notin Silent /\ i.name \notin Elsewhere /\ i.name \in Whole
      /\ x \in DataNamed(i) /\ As \subseteq AddressNamed(i) /\ Bytes(i) = 0
  BY <1>1, <1>2, <1>6 DEF Silent, Elsewhere, Whole, DataNamed, AddressNamed, Bytes
<1>10. CASE s.v = 0 /\ i.name \in {"divu", "divs"}
  <2>1. cpu' = Raise(n, "zero_divide")
    BY <1>1, <1>2, <1>3, <1>6, <1>10 DEF Division
  <2>2. /\ cpu' \in Machine /\ cpu'.d = n.d /\ cpu'.a = n.a /\ cpu'.mem = n.mem /\ cpu'.pc = n.pc
        /\ cpu'.f = n.f
    BY <1>7, <2>1 DEF Raise, Machine
  <2>3. cpu'.f = cpu.f
    BY <1>7, <2>2 DEF Stepped
  <2> QED BY <1>7, <1>8, <1>9, <2>2, <2>3, QuietRight
<1>11. CASE ~(s.v = 0 /\ i.name \in {"divu", "divs"})
  <2>1. PICK q : /\ q = CASE i.name = "mulu" -> Mulu(g, s.v, cpu.d[x])
                          [] i.name = "muls" -> Muls(g, s.v, cpu.d[x])
                          [] i.name = "divu" -> Divu(g, s.v, cpu.d[x])
                          [] i.name = "divs" -> Divs(g, s.v, cpu.d[x])
    OBVIOUS
  <2>2. cpu' = Settled(n, 4, x, q)
    BY <1>1, <1>2, <1>3, <1>6, <1>11, <2>1 DEF Division, Long, Settled
  <2>3. PICK d, e : d = cpu.d[x] /\ e = s.v /\ d \in Range0(4) /\ e \in Range0(2)
    BY <1>2, <1>5
  <2>4. Typed(4, q) /\ q.f.x = g.x
    <3>1. /\ Typed(4, Mulu(g, e, d)) /\ Mulu(g, e, d).f.x = g.x
          /\ Typed(4, Muls(g, e, d)) /\ Muls(g, e, d).f.x = g.x
          /\ e # 0 => /\ Typed(4, Divu(g, e, d)) /\ Divu(g, e, d).f.x = g.x
                      /\ Typed(4, Divs(g, e, d)) /\ Divs(g, e, d).f.x = g.x
      BY <1>2, <2>3, LongTyped
    <3> QED BY <1>1, <1>11, <2>1, <2>3, <3>1
  <2>5. PICK y \in Sizes : y = 4 /\ Typed(y, q) /\ cpu' = Settled(n, y, x, q)
    BY <2>2, <2>4, SizeIs
  <2>6. q.f.x = cpu.f.x
    BY <1>2, <2>4
  <2> QED BY <1>2, <1>7, <1>8, <1>9, <2>5, <2>6, SettledRight
<1> QED BY <1>10, <1>11

-----------------------------------------------------------------------------
RrHandlers(i) ==
  \/ addx_8_rr(i) \/ addx_16_rr(i) \/ addx_32_rr(i) \/ subx_8_rr(i) \/ subx_16_rr(i)
  \/ subx_32_rr(i) \/ abcd_8_rr(i) \/ sbcd_8_rr(i)

\* addx, subx, abcd, sbcd from register to register.
LEMMA RrIs ==
  ASSUME NEW i, RrHandlers(i)
  PROVE  /\ i.form = "rr" /\ i.name \in {"addx", "subx", "abcd", "sbcd"} /\ i.ea.mode = "d"
         /\ i.name \in {"abcd", "sbcd"} => i.z = 1
         /\ cpu' = Settled(Fetched, i.z, i.x, Op(i.name, i.z, cpu.f, Masked(i.z, cpu.d[i.ea.r]),
                                                   Masked(i.z, cpu.d[i.x])))
<1>1. /\ i.form = "rr" /\ i.ea.mode = "d"
      /\ \/ i.name = "addx" /\ cpu' = Rr(i, i.z, AddX)
         \/ i.name = "subx" /\ cpu' = Rr(i, i.z, SubX)
         \/ i.name = "abcd" /\ i.z = 1 /\ cpu' = Rr(i, i.z, AbcdByte)
         \/ i.name = "sbcd" /\ i.z = 1 /\ cpu' = Rr(i, i.z, SbcdByte)
  BY DEF RrHandlers, addx_8_rr, addx_16_rr, addx_32_rr, subx_8_rr, subx_16_rr, subx_32_rr,
         abcd_8_rr, sbcd_8_rr, Does
<1> QED BY <1>1 DEF Rr, Op, Settled, AbcdByte, SbcdByte

\* They are right.
LEMMA RrRight == ASSUME cpu \in Machine, NEW i, IsInstruction(i), RrHandlers(i)
  PROVE  Right(i)
<1>1. /\ i.form = "rr" /\ i.name \in {"addx", "subx", "abcd", "sbcd"} /\ i.ea.mode = "d"
      /\ i.name \in {"abcd", "sbcd"} => i.z = 1
  BY RrIs
<1>2. PICK z, x, g, s, d, name :
        /\ z = i.z /\ x = i.x /\ g = cpu.f /\ s = Masked(z, cpu.d[i.ea.r])
           /\ d = Masked(z, cpu.d[x])
        /\ z \in Sizes /\ x \in Registers /\ i.ea.r \in Registers /\ g \in Flags /\ name = i.name
  BY <1>1, MachineIs DEF IsInstruction, HasX, IsOperand
<1>3. s \in Range0(z) /\ d \in Range0(z)
  BY <1>2, MachineIs, MaskedRange
<1>4. PICK q : q = Op(name, z, g, s, d)
  OBVIOUS
<1>5. Typed(z, q)
  <2>1. OpBounds(name, z, s)
    BY <1>1, <1>2, <1>3 DEF OpBounds, Twofold, Decimals
  <2> QED BY <1>2, <1>3, <1>4, <2>1, OpTyped
<1>6. PICK n, As, w : n = Fetched /\ As = {} /\ w = 1 + 0
  OBVIOUS
<1>7. Stepped(cpu, n, As, w)
  BY <1>6, SkippedOn
<1>8. cpu' = Settled(n, z, x, q)
  BY <1>2, <1>4, <1>6, RrIs
<1>9. /\ i.name \notin Silent /\ i.name \notin Elsewhere /\ i.name \notin KeepX
      /\ x \in DataNamed(i) /\ As \subseteq AddressNamed(i) /\ Bytes(i) \in Nat
      /\ Disassembled(i) = 2 * w
  BY <1>1, <1>2, <1>6
     DEF Silent, Elsewhere, KeepX, DataNamed, Bytes, Disassembled, DasmAdd, DasmSub,
     DasmRtr, Sizes
<1> QED BY <1>2, <1>5, <1>7, <1>8, <1>9, SettledRight

\* MOVEQ.
LEMMA MoveqRight == ASSUME cpu \in Machine, NEW i, IsInstruction(i), moveq_32(i)
  PROVE  Right(i)
<1>1. PICK x, g, v, q, z : x = i.x /\ g = cpu.f /\ v = Extended(1, i.q) /\ z = 4
                        /\ q = Logical(z, g, v)
  OBVIOUS
<1>2. /\ i.name = "moveq" /\ i.z = 4 /\ cpu' = PutD(WithFlags(Fetched, q), z, x, v)
  BY <1>1 DEF moveq_32, Does
<1>3. x \in Registers /\ g \in Flags /\ z \in Sizes /\ v \in Range0(z)
  BY <1>1, <1>2, MachineIs, SizeIs, ExtendedType, MaskedSame DEF IsInstruction, HasX
<1>4. Typed(z, q) /\ q.v = v /\ q.f.x = g.x
  BY <1>1, <1>3, LogicalTyped
<1>5. cpu' = Settled(Fetched, z, x, q)
  BY <1>2, <1>4 DEF Settled, WithFlags
<1>6. PICK n, As, w : n = Fetched /\ As = {} /\ w = 1 + 0
  OBVIOUS
<1>7. Stepped(cpu, n, As, w) /\ cpu' = Settled(n, z, x, q)
  BY <1>5, <1>6, SkippedOn
<1>9. /\ i.name \notin Silent /\ i.name \notin Elsewhere /\ q.f.x = cpu.f.x
      /\ x \in DataNamed(i) /\ As \subseteq AddressNamed(i) /\ Bytes(i) \in Nat
      /\ Disassembled(i) = 2 * w /\ i.z = 4
  BY <1>1, <1>2, <1>4, <1>6 DEF Silent, Elsewhere, DataNamed, Bytes, Disassembled, DasmMovep
<1> QED BY <1>3, <1>4, <1>7, <1>9, SettledRight

\* CHK.
LEMMA ChkRight == ASSUME cpu \in Machine, NEW i, IsInstruction(i), chk_16(i)
  PROVE  Right(i)
<1>1. i.name = "chk" /\ i.z = 2 /\ i.ea.mode \in Modes
  BY DEF chk_16, Does, Data
<1>2. PICK o : o = i.ea /\ IsOperand(o) /\ o.mode \in Modes
  BY <1>1 DEF IsInstruction
<1>3. PICK s : s = Operand(Fetched, 2, o)
  OBVIOUS
<1>4. PICK v \in Nat : v = 0
  OBVIOUS
<1>5. Stepped(cpu, s.m, Steps(o), (1 + v) + Words(2, o)) /\ s.v \in Range0(2) /\ s.m \in Machine
  BY <1>2, <1>3, <1>4, ReadOn, SizeIs
<1>6. PICK n, As, w : n = s.m /\ As = Steps(o) /\ w = (1 + v) + Words(2, o)
  OBVIOUS
<1>7. Stepped(cpu, n, As, w) /\ n \in Machine
  BY <1>5, <1>6
<1>8. i.ea.more = 0 => Disassembled(i) = 2 * w
  <2>1. SUFFICES ASSUME i.ea.more = 0 PROVE Disassembled(i) = 2 * w
    OBVIOUS
  <2>2. PICK u \in Nat : u = Words(2, i.ea) /\ Ea1(i) = u
    BY <1>1, <2>1, EaRead
  <2>3. Disassembled(i) = 2 + 2 * u
    BY <1>1, <2>2 DEF Disassembled, DasmChk
  <2> QED BY <1>2, <1>4, <1>6, <2>2, <2>3
<1>9. PICK a, g : a \in {0, 1} /\ g \in Flags /\ g.x = cpu.f.x
                  /\ (cpu' = [n EXCEPT !.f = g]
                     \/ cpu' = Raise([n EXCEPT !.f = [g EXCEPT !.n = a]], "chk"))
  <2>1. PICK checked, f : /\ checked = MakeInt(2, cpu.d[i.x])
                          /\ f = [cpu.f EXCEPT !.z = Bit(checked = 0), !.v = 0, !.c = 0]
    OBVIOUS
  <2>2. cpu' = (IF checked \in 0..MakeInt(2, s.v)
               THEN [n EXCEPT !.f = f]
               ELSE Raise([n EXCEPT !.f = [f EXCEPT !.n = Bit(checked < 0)]], "chk"))
    BY <1>2, <1>3, <1>6, <2>1 DEF chk_16
  <2>3. f \in Flags /\ f.x = cpu.f.x
    <3>1. Bit(checked = 0) \in {0, 1} /\ cpu.f \in Flags
      BY BitType, MachineIs
    <3> QED BY <2>1, <3>1 DEF Flags
  <2> QED BY <2>2, <2>3, BitType
<1>10. /\ cpu' \in Machine /\ cpu'.d = n.d /\ cpu'.a = n.a /\ cpu'.mem = n.mem /\ cpu'.pc = n.pc
       /\ cpu'.f.x = cpu.f.x
  <2>1. PICK h : h = [g EXCEPT !.n = a]
    OBVIOUS
  <2>2. h \in Flags /\ h.x = g.x
    BY <1>9, <2>1 DEF Flags
  <2>3. CASE cpu' = [n EXCEPT !.f = g]
    BY <1>7, <1>9, <2>3 DEF Machine
  <2>4. CASE cpu' = Raise([n EXCEPT !.f = h], "chk")
    BY <1>7, <1>9, <2>2, <2>4 DEF Machine, Raise
  <2> QED BY <1>9, <2>1, <2>3, <2>4
<1>11. /\ i.name \notin Silent /\ i.name \notin Elsewhere /\ As \subseteq AddressNamed(i)
       /\ Bytes(i) \in Nat
  BY <1>1, <1>2, <1>6 DEF Silent, Elsewhere, AddressNamed, Bytes
<1> QED BY <1>7, <1>8, <1>10, <1>11, QuietRight

-----------------------------------------------------------------------------
(* Memory to memory, tas, and address registers.                           *)

\* From memory to memory, downwards.
MmHandlers(i) ==
  \/ addx_8_mm(i) \/ addx_16_mm(i) \/ addx_32_mm(i) \/ subx_8_mm(i) \/ subx_16_mm(i)
  \/ subx_32_mm(i) \/ abcd_8_mm(i) \/ sbcd_8_mm(i)

\* and from memory to memory: the source first, then the destination, both going down.
LEMMA MmIs ==
  ASSUME NEW i, MmHandlers(i)
  PROVE  /\ i.form = "mm" /\ i.name \in {"addx", "subx", "abcd", "sbcd"} /\ i.ea.mode = "pd"
         /\ i.name \in {"abcd", "sbcd"} => i.z = 1
         /\ \E s : /\ s = Operand(Fetched, i.z, Down(i.ea.r))
                   /\ cpu' = Placed(s.m, i.z, Down(i.x),
                               Op(i.name, i.z, cpu.f, s.v, Target(s.m, i.z, Down(i.x))))
<1>1. /\ i.form = "mm" /\ i.ea.mode = "pd"
      /\ \/ i.name = "addx" /\ cpu' = Mm(i, i.z, AddX)
         \/ i.name = "subx" /\ cpu' = Mm(i, i.z, SubX)
         \/ i.name = "abcd" /\ i.z = 1 /\ cpu' = Mm(i, i.z, AbcdByte)
         \/ i.name = "sbcd" /\ i.z = 1 /\ cpu' = Mm(i, i.z, SbcdByte)
  BY DEF MmHandlers, addx_8_mm, addx_16_mm, addx_32_mm, subx_8_mm, subx_16_mm, subx_32_mm,
         abcd_8_mm, sbcd_8_mm, Does
<1>2. CASE i.name = "addx"
  BY <1>1, <1>2 DEF Mm, Modify, Placed, Target, Op
<1>3. CASE i.name = "subx"
  BY <1>1, <1>3 DEF Mm, Modify, Placed, Target, Op
<1>4. CASE i.name = "abcd"
  BY <1>1, <1>4 DEF Mm, Modify, Placed, Target, Op, AbcdByte
<1>5. CASE i.name = "sbcd"
  BY <1>1, <1>5 DEF Mm, Modify, Placed, Target, Op, SbcdByte
<1> QED BY <1>1, <1>2, <1>3, <1>4, <1>5

\* They are right, when both are the same register too.
LEMMA MmRight == ASSUME cpu \in Machine, NEW i, IsInstruction(i), MmHandlers(i)
  PROVE  Right(i)
<1>1. /\ i.form = "mm" /\ i.name \in {"addx", "subx", "abcd", "sbcd"} /\ i.ea.mode = "pd"
      /\ i.name \in {"abcd", "sbcd"} => i.z = 1
  BY MmIs
<1>2. PICK z, x, r, g, name :
        /\ z = i.z /\ x = i.x /\ r = i.ea.r /\ g = cpu.f /\ name = i.name
        /\ z \in Sizes /\ x \in Registers /\ r \in Registers /\ g \in Flags
  BY <1>1, MachineIs DEF IsInstruction, HasX, IsOperand
<1>3. PICK s, o : /\ s = Operand(Fetched, z, Down(r)) /\ o = Down(x)
                  /\ cpu' = Placed(s.m, z, o, Op(name, z, g, s.v, Target(s.m, z, o)))
  BY <1>2, MmIs
<1>4. Stepped(cpu, s.m, {r}, 1 + 0) /\ s.v \in Range0(z) /\ s.m \in Machine
  <2>1. /\ Stepped(cpu, s.m, Steps(Down(r)), (1 + 0) + Words(z, Down(r))) /\ s.v \in Range0(z)
        /\ s.m \in Machine
    BY <1>2, <1>3, UpIs, ReadOn
  <2>2. Steps(Down(r)) = {r} /\ Words(z, Down(r)) = 0
    BY <1>2, UpIs
  <2>3. Stepped(cpu, s.m, {r}, (1 + 0) + 0)
    BY <2>1, <2>2, Zenon
  <2>4. (1 + 0) + 0 = 1 + 0
    OBVIOUS
  <2> QED BY <2>1, <2>3, <2>4
<1>5. IsOperand(o) /\ o.mode \in Alterable /\ Steps(o) = {x} /\ Words(z, o) = 0 /\ o.r = x
      /\ o.mode # "d"
  BY <1>2, <1>3, UpIs
<1>6. PICK n, t, q : n = s.m /\ t = Target(n, z, o) /\ q = Op(name, z, g, s.v, t)
  OBVIOUS
<1>7. Typed(z, q)
  <2>1. t \in Range0(z)
    BY <1>2, <1>4, <1>5, <1>6, TargetRange
  <2>2. OpBounds(name, z, s.v)
    BY <1>1, <1>2, <1>4 DEF OpBounds, Twofold, Decimals
  <2> QED BY <1>2, <1>6, <2>1, <2>2, OpTyped
<1>8. PICK u \in Nat : u = 1 + 0
  OBVIOUS
<1>9. PICK m, p, As : m = cpu /\ p = cpu' /\ As = {r} /\ m \in Machine
  OBVIOUS
<1>10. Changed(m, p, z, {o.r}, As \cup Steps(o), Span(z, o), u + Words(z, o))
  <2>1. Stepped(m, n, As, u) /\ p = Placed(n, z, o, q)
    BY <1>3, <1>4, <1>6, <1>8, <1>9
  <2>2. IsOperand(o) /\ o.mode \in Alterable
    BY <1>5
  <2> QED BY <1>2, <1>7, <1>9, <2>1, <2>2, PlacedChanges
<1>11. PICK Ds, Bs, k, w : Ds = {o.r} /\ Bs = As \cup Steps(o) /\ k = Span(z, o)
      /\ w = u + Words(z, o)
  OBVIOUS
<1>12. Changed(cpu, cpu', z, Ds, Bs, k, w)
  BY <1>9, <1>10, <1>11
<1>13. Bytes(i) = z /\ k = z /\ z \in Nat
  BY <1>1, <1>2, <1>5, <1>11 DEF Bytes, Span, Sizes
<1>14. /\ Ds \subseteq DataNamed(i) /\ Bs \subseteq AddressNamed(i) /\ k \in Nat /\ k <= Bytes(i)
  BY <1>1, <1>2, <1>5, <1>9, <1>11, <1>13 DEF DataNamed, AddressNamed, Steps
<1>15. /\ i.name \notin Silent /\ i.name \notin Elsewhere /\ i.name \notin KeepX
       /\ Disassembled(i) = 2 * w
  BY <1>1, <1>5, <1>8, <1>11
     DEF Silent, Elsewhere, KeepX, Disassembled, DasmAdd, DasmSub, DasmRtr
<1> QED BY <1>2, <1>12, <1>13, <1>14, <1>15, Concluded

\* TAS.
LEMMA TasRight == ASSUME cpu \in Machine, NEW i, IsInstruction(i), tas_8(i)
  PROVE  Right(i)
<1>1. i.name = "tas" /\ i.z = 1 /\ i.form = "" /\ i.ea.mode \in Alterable /\ i.ea.mode \in Modes
      /\ i.ea.mode # "i"
  BY DEF tas_8, Does, Alterable, Memory, Modes
<1>2. PICK n, s : n = Fetched /\ s = 0
  OBVIOUS
<1>3. PICK v \in Nat : v = 0
  OBVIOUS
<1>4. Stepped(cpu, n, {}, 1 + v)
  BY <1>2, <1>3, SkippedOn
<1>5. cpu' = Placed(n, i.z, i.ea, Op(i.name, i.z, cpu.f, s, Target(n, i.z, i.ea)))
  BY <1>1, <1>2 DEF tas_8, Modify, Placed, Target, Op
<1>6. OpBounds(i.name, i.z, s)
  BY <1>1 DEF OpBounds
<1>7. i.ea.more = 0 => Disassembled(i) = 2 * (1 + v + Words(i.z, i.ea))
  <2>1. SUFFICES ASSUME i.ea.more = 0 PROVE Disassembled(i) = 2 * (1 + v + Words(i.z, i.ea))
    OBVIOUS
  <2>2. PICK u \in Nat : u = Words(i.z, i.ea) /\ EaModeStr(1, i.ea) = u
    BY <1>1, <2>1, EaRead, SizeIs
  <2>3. Disassembled(i) = 2 + 2 * u
    BY <1>1, <2>2 DEF Disassembled, DasmTas
  <2> QED BY <1>3, <2>2, <2>3
<1>8. i.form # "er" /\ i.ea.mode \in Alterable
  BY <1>1
<1> QED BY <1>4, <1>5, <1>6, <1>7, <1>8, Modified

-----------------------------------------------------------------------------
\* The address of an operand, v words behind the opcode.
LEMMA EaOn ==
  ASSUME cpu \in Machine, NEW v \in Nat, NEW z \in Sizes, NEW o, IsOperand(o), o.mode \in Found,
         NEW n, n \in {Skip(Fetched, v), Fetched}, n = Fetched => v = 0,
         NEW e, e = Ea(n, z, o)
  PROVE  Stepped(cpu, e.m, Steps(o), (1 + v) + Words(z, o)) /\ e.at \in Range0(4)
        /\ e.m \in Machine
<1>1. Stepped(cpu, n, {}, 1 + v)
  BY SkippedOn
<1>2. n \in Machine
  BY <1>1 DEF Stepped
<1>3. /\ Stepped(n, e.m, Steps(o), Words(z, o)) /\ e.at \in Range0(4)
      /\ e.m \in Machine
  BY <1>2, EaSteps
<1>4. Stepped(cpu, e.m, {} \cup Steps(o), (1 + v) + Words(z, o))
  BY <1>1, <1>3, SteppedOn, WordsIs
<1>5. {} \cup Steps(o) = Steps(o)
  OBVIOUS
<1> QED BY <1>3, <1>4, <1>5

\* A handler that found operands and set an address register is right.
LEMMA PutARight ==
  ASSUME cpu \in Machine, NEW i, IsInstruction(i), NEW n, NEW As, NEW w, Stepped(cpu, n, As, w),
         NEW r \in Registers, NEW v \in Int, cpu' = PutA(n, r, v),
         r \in AddressNamed(i), As \subseteq AddressNamed(i), Bytes(i) \in Nat,
         i.name \notin Elsewhere,
         i.ea.more = 0 /\ i.to.more = 0 => Disassembled(i) = 2 * w
  PROVE  Right(i)
<1>1. PICK m, p, Bs : m = cpu /\ m \in Machine /\ p = cpu' /\ Bs = As \cup {r}
  OBVIOUS
<1>2. Stepped(m, n, As, w) /\ p = PutA(n, r, v)
  BY <1>1
<1>3. Stepped(m, p, Bs, w)
  BY <1>1, <1>2, PutASteps
<1>4. Stepped(cpu, p, Bs, w) /\ cpu' = p /\ p \in Machine /\ p.f = cpu.f /\ p.f.x = cpu.f.x
  BY <1>1, <1>3 DEF Stepped
<1>5. Bs \subseteq AddressNamed(i)
  BY <1>1
<1> QED BY <1>4, <1>5, QuietRight

ToAHandlers(i) ==
  adda_16(i) \/ adda_32(i) \/ suba_16(i) \/ suba_32(i) \/ movea_16(i) \/ movea_32(i)

\* adda, suba, movea: the whole register.
LEMMA ToARight == ASSUME cpu \in Machine, NEW i, IsInstruction(i), ToAHandlers(i)
  PROVE  Right(i)
<1>1. /\ i.name \in {"adda", "suba", "movea"} /\ i.ea.mode \in Modes /\ i.form = ""
      /\ \/ cpu' = ToA(i, i.z, Increase) \/ cpu' = ToA(i, i.z, Decrease)
         \/ cpu' = ToAddress(i, i.z)
  BY DEF ToAHandlers, adda_16, adda_32, suba_16, suba_32, movea_16, movea_32, Does
<1>2. PICK o, x, z : o = i.ea /\ x = i.x /\ x \in Registers /\ z = i.z /\ z \in Sizes
                     /\ IsOperand(o) /\ o.mode \in Modes
  BY <1>1 DEF IsInstruction, HasX
<1>3. PICK s : s = Operand(Fetched, z, o)
  OBVIOUS
<1>4. PICK v \in Nat : v = 0
  OBVIOUS
<1>5. Stepped(cpu, s.m, Steps(o), (1 + v) + Words(z, o)) /\ s.v \in Range0(z) /\ s.m \in Machine
  BY <1>2, <1>3, <1>4, ReadOn
<1>6. PICK n, As, w : n = s.m /\ As = Steps(o) /\ w = (1 + v) + Words(z, o)
  OBVIOUS
<1>7. Stepped(cpu, n, As, w) /\ n \in Machine
  BY <1>5, <1>6
<1>8. PICK e, b : e = Extended(z, s.v) /\ e \in Int /\ b = n.a[x] /\ b \in Int
  <2>1. Extended(z, s.v) \in Range0(4)
    BY <1>2, <1>5, ExtendedType, MaskedSame
  <2> QED BY <1>2, <1>7, <2>1, LongIs, MachineIs
<1>9. \E c \in Int : cpu' = PutA(n, x, c)
  <2>1. Widened(i, z) = [s EXCEPT !.v = e]
    BY <1>2, <1>3, <1>8 DEF Widened
  <2>2. s = [v |-> s.v, m |-> s.m]
    BY <1>2, <1>3 DEF Operand, Modes
  <2>3. Widened(i, z).v = e /\ Widened(i, z).m = n
    BY <1>6, <2>1, <2>2
  <2>4. \/ cpu' = PutA(n, x, b + e) \/ cpu' = PutA(n, x, b - e) \/ cpu' = PutA(n, x, e)
    BY <1>1, <1>2, <1>8, <2>3 DEF ToA, ToAddress, Increase, Decrease
  <2>5. b + e \in Int /\ b - e \in Int
    BY <1>8
  <2> QED BY <1>8, <2>4, <2>5
<1>10. i.ea.more = 0 => Disassembled(i) = 2 * w
  <2>1. SUFFICES ASSUME i.ea.more = 0 PROVE Disassembled(i) = 2 * w
    OBVIOUS
  <2>2. PICK u \in Nat : u = Words(z, o) /\ Ea1(i) = u
    BY <1>1, <1>2, <2>1, EaRead
  <2>3. Disassembled(i) = 2 + 2 * u
    BY <1>1, <2>2 DEF Disassembled, DasmAdd, DasmSub, DasmMove
  <2> QED BY <1>4, <1>6, <2>2, <2>3
<1>11. /\ i.name \notin Elsewhere /\ As \subseteq AddressNamed(i) /\ x \in AddressNamed(i)
       /\ Bytes(i) \in Nat
  BY <1>1, <1>2, <1>6 DEF Elsewhere, AddressNamed, Bytes, Loads
<1> QED BY <1>2, <1>7, <1>9, <1>10, <1>11, PutARight

\* addq and subq of an address register, the whole of it, no flags.
LEMMA QuickARight ==
  ASSUME cpu \in Machine, NEW i, IsInstruction(i),
         addq_16_a(i) \/ addq_32_a(i) \/ subq_16_a(i) \/ subq_32_a(i)
  PROVE  Right(i)
<1>1. /\ i.name \in {"addq", "subq"} /\ i.ea.mode = "a" /\ i.form = "a"
      /\ cpu' = QuickA(i, Increase) \/ cpu' = QuickA(i, Decrease)
  BY DEF addq_16_a, addq_32_a, subq_16_a, subq_32_a, Does
<1>2. PICK r, q, b : r = i.ea.r /\ r \in Registers /\ q = i.q /\ q \in Int /\ b = cpu.a[r]
      /\ b \in Int
  BY <1>1, MachineIs, MaskedSame DEF IsInstruction, IsOperand
<1>3. PICK n, As, w : n = Fetched /\ As = {} /\ w = 1 + 0
  OBVIOUS
<1>4. Stepped(cpu, n, As, w)
  BY <1>3, SkippedOn
<1>5. \E c \in Int : cpu' = PutA(n, r, c)
  <2>1. cpu' = PutA(n, r, b + q) \/ cpu' = PutA(n, r, b - q)
    BY <1>1, <1>2, <1>3 DEF QuickA, Increase, Decrease
  <2>2. b + q \in Int /\ b - q \in Int
    BY <1>2
  <2> QED BY <2>1, <2>2
<1>6. i.ea.more = 0 => Disassembled(i) = 2 * w
  BY <1>1, <1>3 DEF Disassembled, DasmAdd, DasmSub, Ea1, EaModeStr
<1>7. /\ i.name \notin Elsewhere /\ As \subseteq AddressNamed(i) /\ r \in AddressNamed(i)
      /\ Bytes(i) \in Nat
  BY <1>1, <1>2, <1>3 DEF Elsewhere, AddressNamed, Bytes, IsInstruction, Sizes
<1> QED BY <1>2, <1>4, <1>5, <1>6, <1>7, PutARight

\* lea: the address, not what is there.
LEMMA LeaRight == ASSUME cpu \in Machine, NEW i, IsInstruction(i), lea_32(i)
  PROVE  Right(i)
<1>1. i.name = "lea" /\ i.z = 4 /\ i.ea.mode \in Found /\ i.ea.mode \in Modes \ {"i"}
      /\ cpu' = PutA(Ea(Fetched, 4, i.ea).m, i.x, Ea(Fetched, 4, i.ea).at)
  BY DEF lea_32, Does, Control, Found, Modes
<1>2. PICK o, x, z : o = i.ea /\ x = i.x /\ x \in Registers /\ z = 4 /\ z \in Sizes
                     /\ IsOperand(o) /\ o.mode \in Found
  BY <1>1, SizeIs DEF IsInstruction, HasX
<1>3. PICK e : e = Ea(Fetched, z, o)
  OBVIOUS
<1>4. PICK v \in Nat : v = 0
  OBVIOUS
<1>5. Stepped(cpu, e.m, Steps(o), (1 + v) + Words(z, o)) /\ e.at \in Range0(4)
  BY <1>2, <1>3, <1>4, EaOn
<1>6. PICK n, As, w, c : n = e.m /\ As = Steps(o) /\ w = (1 + v) + Words(z, o) /\ c = e.at
  OBVIOUS
<1>7. Stepped(cpu, n, As, w) /\ c \in Int
  BY <1>5, <1>6, LongIs
<1>8. cpu' = PutA(n, x, c)
  BY <1>1, <1>2, <1>3, <1>6
<1>9. i.ea.more = 0 => Disassembled(i) = 2 * w
  <2>1. SUFFICES ASSUME i.ea.more = 0 PROVE Disassembled(i) = 2 * w
    OBVIOUS
  <2>2. PICK u \in Nat : u = Words(z, o) /\ EaModeStr(4, i.ea) = u
    BY <1>1, <1>2, <2>1, EaRead
  <2>3. Disassembled(i) = 2 + 2 * u
    BY <1>1, <2>2 DEF Disassembled, DasmJmp
  <2> QED BY <1>4, <1>6, <2>2, <2>3
<1>10. /\ i.name \notin Elsewhere /\ As \subseteq AddressNamed(i) /\ x \in AddressNamed(i)
       /\ Bytes(i) \in Nat
  BY <1>1, <1>2, <1>6 DEF Elsewhere, AddressNamed, Bytes, Loads
<1> QED BY <1>2, <1>7, <1>8, <1>9, <1>10, PutARight

-----------------------------------------------------------------------------
(* move, clr and Scc.                                                      *)

Flagged(n, f) == [n EXCEPT !.f = f]
Storing(m, n, z, As, u, f, o, v, p) ==
  /\ Stepped(m, n, As, u) /\ IsOperand(o) /\ o.mode \in Alterable
  /\ p = Store(Flagged(n, f), z, o, v)
Stored(m, p, z, As, u, f, o) ==
  /\ Changed(m, p, z, {o.r}, As \cup Steps(o), Span(z, o), u + Words(z, o))
  /\ p.f = f

\* The hypotheses and the conclusion of StoreChanges, by their names.
LEMMA StoringStored ==
  ASSUME NEW m \in Machine, NEW n, NEW z \in Sizes, NEW As, NEW u \in Nat, NEW f \in Flags,
         NEW o, NEW v \in Range0(z), NEW p, Storing(m, n, z, As, u, f, o, v, p)
  PROVE  Stored(m, p, z, As, u, f, o)
<1>1. PICK k : k = [n EXCEPT !.f = f]
  OBVIOUS
<1>2. /\ Stepped(m, n, As, u) /\ IsOperand(o) /\ o.mode \in Alterable
      /\ p = Store(k, z, o, v)
  BY <1>1 DEF Storing, Flagged
<1>3. /\ Changed(m, p, z, {o.r}, As \cup Steps(o), Span(z, o), u + Words(z, o))
      /\ p.f = f
  BY <1>1, <1>2, StoreChanges
<1> QED BY <1>3 DEF Stored

\* A destination that is not read takes a value.
LEMMA StoreRight ==
  ASSUME cpu \in Machine, NEW i, IsInstruction(i), NEW n, NEW As, NEW u \in Nat,
         NEW f \in Flags, NEW z \in Sizes, z = i.z, NEW o, NEW v \in Range0(z),
         Storing(cpu, n, z, As, u, f, o, v, cpu'),
         o.r \in DataNamed(i), As \cup Steps(o) \subseteq AddressNamed(i), Bytes(i) = z,
         i.name \in Silent => f = cpu.f,
         i.name \in KeepX /\ i.form # "toc" => f.x = cpu.f.x,
         i.name \notin Elsewhere,
         i.ea.more = 0 /\ i.to.more = 0 => Disassembled(i) = 2 * (u + Words(z, o))
  PROVE  Right(i)
<1>1. PICK m, p : m = cpu /\ p = cpu' /\ m \in Machine
  OBVIOUS
<1>2. Storing(m, n, z, As, u, f, o, v, p)
  BY <1>1
<1>3. Stored(m, p, z, As, u, f, o)
  BY <1>1, <1>2, StoringStored
<1>4. PICK Ds, Bs, s, w : Ds = {o.r} /\ Bs = As \cup Steps(o) /\ s = Span(z, o)
      /\ w = u + Words(z, o)
  OBVIOUS
<1>5. Changed(cpu, cpu', z, Ds, Bs, s, w) /\ cpu'.f = f
  BY <1>1, <1>3, <1>4 DEF Stored
<1>6. s \in Nat /\ s <= Bytes(i) /\ Bytes(i) \in Nat
  BY <1>4 DEF Span, Sizes
<1>7. Ds \subseteq DataNamed(i) /\ Bs \subseteq AddressNamed(i)
  BY <1>4
<1>8. i.ea.more = 0 /\ i.to.more = 0 => Disassembled(i) = 2 * w
  BY <1>4
<1>9. /\ i.name \in Silent => cpu'.f = cpu.f
      /\ i.name \in KeepX /\ i.form # "toc" => cpu'.f.x = cpu.f.x
  BY <1>5
<1> QED BY <1>5, <1>6, <1>7, <1>8, <1>9, Concluded

MoveHandlers(i) ==
  \/ move_8_d(i) \/ move_8_ai(i) \/ move_8_pi(i) \/ move_8_pd(i)
  \/ move_8_di(i) \/ move_8_ix(i) \/ move_8_aw(i) \/ move_8_al(i)
  \/ move_16_d(i) \/ move_16_ai(i) \/ move_16_pi(i) \/ move_16_pd(i)
  \/ move_16_di(i) \/ move_16_ix(i) \/ move_16_aw(i) \/ move_16_al(i)
  \/ move_32_d(i) \/ move_32_ai(i) \/ move_32_pi(i) \/ move_32_pd(i)
  \/ move_32_di(i) \/ move_32_ix(i) \/ move_32_aw(i) \/ move_32_al(i)

\* move to every destination.
LEMMA MoveIs == ASSUME NEW i, MoveHandlers(i)
  PROVE  /\ i.name = "move" /\ i.form = i.to.mode /\ i.to.mode \in Alterable
            /\ i.ea.mode \in Modes
         /\ LET s == Operand(Fetched, i.z, i.ea)
            IN cpu' = Store(WithFlags(s.m, Logical(i.z, cpu.f, s.v)), i.z, i.to, s.v)
<1>1. \E z, to, sources : /\ Moves(i, z, to, sources) /\ to \in Alterable
      /\ sources \subseteq Modes
  BY
     DEF MoveHandlers, move_8_d, move_8_ai, move_8_pi, move_8_pd, move_8_di, move_8_ix,
         move_8_aw,
     move_8_al, move_16_d, move_16_ai, move_16_pi, move_16_pd, move_16_di, move_16_ix,
         move_16_aw,
     move_16_al, move_32_d, move_32_ai, move_32_pi, move_32_pd, move_32_di, move_32_ix,
         move_32_aw,
     move_32_al, Alterable, Memory, Data
<1> QED BY <1>1 DEF Moves, Does

\* move is right: the source's words come before the destination's.
LEMMA MoveRight == ASSUME cpu \in Machine, NEW i, IsInstruction(i), MoveHandlers(i)
  PROVE  Right(i)
<1>1. /\ i.name = "move" /\ i.form = i.to.mode /\ i.to.mode \in Alterable /\ i.ea.mode \in Modes
  BY MoveIs
<1>2. PICK z, a, o, g : /\ z = i.z /\ a = i.ea /\ o = i.to /\ g = cpu.f /\ z \in Sizes
                           /\ g \in Flags
                        /\ IsOperand(a) /\ a.mode \in Modes /\ IsOperand(o)
                           /\ o.mode \in Alterable
  BY <1>1, MachineIs DEF IsInstruction
<1>3. PICK s : s = Operand(Fetched, z, a)
  OBVIOUS
<1>4. PICK v \in Nat : v = 0
  OBVIOUS
<1>5. Stepped(cpu, s.m, Steps(a), (1 + v) + Words(z, a)) /\ s.v \in Range0(z)
  BY <1>2, <1>3, <1>4, ReadOn
<1>6. PICK u \in Nat : u = (1 + v) + Words(z, a)
  BY <1>2, WordsIs
<1>7. PICK n, e, As, f : n = s.m /\ e = s.v /\ As = Steps(a) /\ f = Logical(z, g, e).f
  OBVIOUS
<1>8. Stepped(cpu, n, As, u) /\ e \in Range0(z)
  BY <1>5, <1>6, <1>7
<1>9. f \in Flags /\ f.x = g.x
  BY <1>2, <1>7, <1>8, LogicalTyped DEF Typed
<1>10. cpu' = Store(Flagged(n, f), z, o, e)
  BY <1>2, <1>3, <1>7, MoveIs DEF WithFlags, Flagged
<1>11. Storing(cpu, n, z, As, u, f, o, e, cpu')
  BY <1>2, <1>8, <1>10 DEF Storing
<1>12. i.ea.more = 0 /\ i.to.more = 0 => Disassembled(i) = 2 * (u + Words(z, o))
  <2>1. SUFFICES ASSUME i.ea.more = 0, i.to.more = 0 PROVE Disassembled(i) = 2 * (u + Words(z,
            o))
    OBVIOUS
  <2>2. PICK x \in Nat : x = Words(z, a) /\ Ea1(i) = x
    BY <1>1, <1>2, <2>1, EaRead
  <2>3. PICK y \in Nat : y = Words(z, o) /\ EaModeStr(z, o) = y
    <3>1. o.mode \in Modes /\ o.mode # "i" /\ o.more = 0
      BY <1>2, <2>1 DEF Alterable, Memory, Modes
    <3> QED BY <1>2, <3>1, EaWords, WordsIs
  <2>4. i.form # "toc"
    BY <1>1 DEF Alterable, Memory
  <2>5. DasmMove(i) = x + y
    BY <1>1, <1>2, <2>2, <2>3, <2>4 DEF DasmMove
  <2>6. Disassembled(i) = 2 + 2 * (x + y)
    BY <1>1, <2>5 DEF Disassembled
  <2> QED BY <1>4, <1>6, <2>2, <2>3, <2>6
<1>13. i.form # "er"
  BY <1>1 DEF Alterable, Memory
<1>14. /\ o.r \in DataNamed(i) /\ As \cup Steps(o) \subseteq AddressNamed(i) /\ Bytes(i) = z
       /\ i.name \notin Silent /\ i.name \notin Elsewhere /\ f.x = cpu.f.x
  BY <1>1, <1>2, <1>7, <1>9, <1>13 DEF DataNamed, AddressNamed, Bytes, Silent, Elsewhere
<1> QED BY <1>2, <1>8, <1>9, <1>11, <1>12, <1>14, StoreRight

-----------------------------------------------------------------------------
\* CLR and Scc.
FillHandlers(i) == clr_8(i) \/ clr_16(i) \/ clr_32(i) \/ st_8(i) \/ sf_8(i) \/ scc_8(i)

\* clr and Scc are right.
LEMMA FillRight == ASSUME cpu \in Machine, NEW i, IsInstruction(i), FillHandlers(i)
  PROVE  Right(i)
<1>1. /\ i.name \in {"clr", "st", "sf", "scc"} /\ i.form = "" /\ i.ea.mode \in Alterable
      /\ i.name # "clr" => i.z = 1
      /\ \/ i.name = "clr" /\ cpu' = Cleared(i, i.z)
         \/ i.name # "clr" /\ cpu' = Filled(i, TRUE)
         \/ i.name # "clr" /\ cpu' = Filled(i, FALSE)
         \/ i.name # "clr" /\ cpu' = Filled(i, Condition(i.cc, cpu.f))
  BY DEF FillHandlers, clr_8, clr_16, clr_32, st_8, sf_8, scc_8, Does
<1>2. PICK z, o, g : /\ z = i.z /\ o = i.ea /\ g = cpu.f /\ z \in Sizes /\ g \in Flags
                        /\ IsOperand(o) /\ o.mode \in Alterable
  BY <1>1, MachineIs DEF IsInstruction
<1>3. PICK u \in Nat : u = 1 + 0
  OBVIOUS
<1>4. PICK n, As : n = Fetched /\ As = {}
  OBVIOUS
<1>5. Stepped(cpu, n, As, u)
  BY <1>3, <1>4, SkippedOn
<1>6. \E f \in Flags, v \in Range0(z) :
         /\ cpu' = Store([n EXCEPT !.f = f], z, o, v)
         /\ f.x = g.x /\ (i.name # "clr" => f = g)
  <2>1. 0 \in Range0(z) /\ Mod(z) - 1 \in Range0(z)
    BY <1>2, Widths DEF Range0
  <2>2. CASE i.name = "clr"
    <3>1. PICK f \in Flags : f = Logical(z, g, 0).f /\ f.x = g.x
      BY <1>2, <2>1, LogicalTyped DEF Typed
    <3>2. cpu' = Store([n EXCEPT !.f = f], z, o, 0)
      BY <1>1, <1>2, <1>4, <2>2, <3>1 DEF Cleared
    <3> QED BY <2>1, <2>2, <3>1, <3>2
  <2>3. CASE i.name # "clr"
    <3>1. [n EXCEPT !.f = g] = n
      BY <1>2, <1>5 DEF Stepped, Machine
    <3>2. PICK v : v \in {0, Mod(1) - 1} /\ cpu' = Store(n, z, o, v)
      BY <1>1, <1>2, <1>4, <2>3 DEF Filled
    <3>3. v \in Range0(z) /\ z = 1
      BY <1>1, <1>2, <2>1, <2>3, <3>2
    <3> QED BY <1>2, <3>1, <3>2, <3>3
  <2> QED BY <2>2, <2>3
<1>7. PICK f \in Flags, v \in Range0(z) :
         /\ cpu' = Store([n EXCEPT !.f = f], z, o, v)
         /\ f.x = g.x /\ (i.name # "clr" => f = g)
  BY <1>6
<1>8. cpu' = Store(Flagged(n, f), z, o, v)
  BY <1>7 DEF Flagged
<1>9. Storing(cpu, n, z, As, u, f, o, v, cpu')
  BY <1>2, <1>5, <1>8 DEF Storing
<1>10. i.ea.more = 0 => Disassembled(i) = 2 * (u + Words(z, o))
  <2>1. SUFFICES ASSUME i.ea.more = 0 PROVE Disassembled(i) = 2 * (u + Words(z, o))
    OBVIOUS
  <2>2. i.ea.mode \in Modes /\ i.ea.mode # "i"
    BY <1>1 DEF Alterable, Memory, Modes
  <2>3. PICK x \in Nat : x = Words(z, o) /\ Ea1(i) = x /\ EaModeStr(1, i.ea) = x
    BY <1>2, <2>1, <2>2, EaRead, SizeIs
  <2>4. Disassembled(i) = 2 + 2 * x
    BY <1>1, <2>3 DEF Disassembled, DasmClr, DasmRtr
  <2> QED BY <1>3, <2>3, <2>4
<1>11. /\ o.r \in DataNamed(i) /\ As \cup Steps(o) \subseteq AddressNamed(i) /\ Bytes(i) = z
       /\ (i.name \in Silent => f = cpu.f) /\ i.name \notin Elsewhere /\ f.x = cpu.f.x
  BY <1>1, <1>2, <1>4, <1>7 DEF DataNamed, AddressNamed, Bytes, Silent, Elsewhere
<1> QED BY <1>2, <1>9, <1>10, <1>11, StoreRight
=============================================================================
