----------------------------- MODULE M68kComputing --------------------------
(***************************************************************************)
(* The handlers of m68kops.c that compute: add, subtract, compare,         *)
(* decimals, products and quotients.                                       *)
(*                                                                         *)
(* m68kmake writes one handler for every addressing mode of a template of  *)
(* m68k_in.c.  Here an action stands for the handlers of one template: its *)
(* name is theirs without the addressing mode, and the modes are those the *)
(* opcode table of the 68000 has for it.                                   *)
(***************************************************************************)
EXTENDS M68kMachine, M68kArithmetic, M68kDecimal

\* ADD and SUB, and to address registers: no flags.
add_8_er(i)  == Does(i, "add", 1, "er", Data) /\ cpu' = Er(i, 1, Add)
add_16_er(i) == Does(i, "add", 2, "er", Modes) /\ cpu' = Er(i, 2, Add)
add_32_er(i) == Does(i, "add", 4, "er", Modes) /\ cpu' = Er(i, 4, Add)
add_8_re(i)  == Does(i, "add", 1, "re", Memory) /\ cpu' = Re(i, 1, Add)
add_16_re(i) == Does(i, "add", 2, "re", Memory) /\ cpu' = Re(i, 2, Add)
add_32_re(i) == Does(i, "add", 4, "re", Memory) /\ cpu' = Re(i, 4, Add)
sub_8_er(i)  == Does(i, "sub", 1, "er", Data) /\ cpu' = Er(i, 1, Sub)
sub_16_er(i) == Does(i, "sub", 2, "er", Modes) /\ cpu' = Er(i, 2, Sub)
sub_32_er(i) == Does(i, "sub", 4, "er", Modes) /\ cpu' = Er(i, 4, Sub)
sub_8_re(i)  == Does(i, "sub", 1, "re", Memory) /\ cpu' = Re(i, 1, Sub)
sub_16_re(i) == Does(i, "sub", 2, "re", Memory) /\ cpu' = Re(i, 2, Sub)
sub_32_re(i) == Does(i, "sub", 4, "re", Memory) /\ cpu' = Re(i, 4, Sub)

Increase(a, s) == a + s
Decrease(a, s) == a - s
adda_16(i) == Does(i, "adda", 2, "", Modes) /\ cpu' = ToA(i, 2, Increase)
adda_32(i) == Does(i, "adda", 4, "", Modes) /\ cpu' = ToA(i, 4, Increase)
suba_16(i) == Does(i, "suba", 2, "", Modes) /\ cpu' = ToA(i, 2, Decrease)
suba_32(i) == Does(i, "suba", 4, "", Modes) /\ cpu' = ToA(i, 4, Decrease)

\* With an immediate value behind the opcode, and with 1 to 8 in it.
addi_8(i)  == Does(i, "addi", 1, "", Alterable) /\ cpu' = Imm(i, 1, Add)
addi_16(i) == Does(i, "addi", 2, "", Alterable) /\ cpu' = Imm(i, 2, Add)
addi_32(i) == Does(i, "addi", 4, "", Alterable) /\ cpu' = Imm(i, 4, Add)
subi_8(i)  == Does(i, "subi", 1, "", Alterable) /\ cpu' = Imm(i, 1, Sub)
subi_16(i) == Does(i, "subi", 2, "", Alterable) /\ cpu' = Imm(i, 2, Sub)
subi_32(i) == Does(i, "subi", 4, "", Alterable) /\ cpu' = Imm(i, 4, Sub)
addq_8(i)  == Does(i, "addq", 1, "", Alterable) /\ cpu' = Quick(i, 1, Add)
addq_16(i) == Does(i, "addq", 2, "", Alterable) /\ cpu' = Quick(i, 2, Add)
addq_32(i) == Does(i, "addq", 4, "", Alterable) /\ cpu' = Quick(i, 4, Add)
subq_8(i)  == Does(i, "subq", 1, "", Alterable) /\ cpu' = Quick(i, 1, Sub)
subq_16(i) == Does(i, "subq", 2, "", Alterable) /\ cpu' = Quick(i, 2, Sub)
subq_32(i) == Does(i, "subq", 4, "", Alterable) /\ cpu' = Quick(i, 4, Sub)

\* An address register is added to as a whole, whatever the size.
QuickA(i, F(_, _)) == PutA(Fetched, i.ea.r, F(cpu.a[i.ea.r], i.q))
addq_16_a(i) == Does(i, "addq", 2, "a", {"a"}) /\ cpu' = QuickA(i, Increase)
addq_32_a(i) == Does(i, "addq", 4, "a", {"a"}) /\ cpu' = QuickA(i, Increase)
subq_16_a(i) == Does(i, "subq", 2, "a", {"a"}) /\ cpu' = QuickA(i, Decrease)
subq_32_a(i) == Does(i, "subq", 4, "a", {"a"}) /\ cpu' = QuickA(i, Decrease)

\* With X, for numbers of several words.
addx_8_rr(i)  == Does(i, "addx", 1, "rr", {"d"}) /\ cpu' = Rr(i, 1, AddX)
addx_16_rr(i) == Does(i, "addx", 2, "rr", {"d"}) /\ cpu' = Rr(i, 2, AddX)
addx_32_rr(i) == Does(i, "addx", 4, "rr", {"d"}) /\ cpu' = Rr(i, 4, AddX)
addx_8_mm(i)  == Does(i, "addx", 1, "mm", {"pd"}) /\ cpu' = Mm(i, 1, AddX)
addx_16_mm(i) == Does(i, "addx", 2, "mm", {"pd"}) /\ cpu' = Mm(i, 2, AddX)
addx_32_mm(i) == Does(i, "addx", 4, "mm", {"pd"}) /\ cpu' = Mm(i, 4, AddX)
subx_8_rr(i)  == Does(i, "subx", 1, "rr", {"d"}) /\ cpu' = Rr(i, 1, SubX)
subx_16_rr(i) == Does(i, "subx", 2, "rr", {"d"}) /\ cpu' = Rr(i, 2, SubX)
subx_32_rr(i) == Does(i, "subx", 4, "rr", {"d"}) /\ cpu' = Rr(i, 4, SubX)
subx_8_mm(i)  == Does(i, "subx", 1, "mm", {"pd"}) /\ cpu' = Mm(i, 1, SubX)
subx_16_mm(i) == Does(i, "subx", 2, "mm", {"pd"}) /\ cpu' = Mm(i, 2, SubX)
subx_32_mm(i) == Does(i, "subx", 4, "mm", {"pd"}) /\ cpu' = Mm(i, 4, SubX)

neg_8(i)   == Does(i, "neg", 1, "", Alterable) /\ cpu' = Unary(i, 1, Neg)
neg_16(i)  == Does(i, "neg", 2, "", Alterable) /\ cpu' = Unary(i, 2, Neg)
neg_32(i)  == Does(i, "neg", 4, "", Alterable) /\ cpu' = Unary(i, 4, Neg)
negx_8(i)  == Does(i, "negx", 1, "", Alterable) /\ cpu' = Unary(i, 1, NegX)
negx_16(i) == Does(i, "negx", 2, "", Alterable) /\ cpu' = Unary(i, 2, NegX)
negx_32(i) == Does(i, "negx", 4, "", Alterable) /\ cpu' = Unary(i, 4, NegX)

\* Comparisons.  CMPM reads both operands upwards, the source first.
ComparedA(i, z) ==
  LET s == Widened(i, z) IN WithFlags(s.m, Cmp(4, cpu.f, s.v, s.m.a[i.x]))
ComparedI(i, z) ==
  LET s == Operand(Skip(Fetched, ImmWords(z)), z, i.ea)
  IN WithFlags(s.m, Cmp(z, cpu.f, i.q, s.v))
ComparedM(i, z) ==
  LET s == Operand(Fetched, z, Up(i.ea.r))
      d == Operand(s.m, z, Up(i.x))
  IN WithFlags(d.m, Cmp(z, cpu.f, s.v, d.v))
Shown(i, z) == LET s == Operand(Fetched, z, i.ea) IN WithFlags(s.m, Logical(z, cpu.f, s.v))
cmp_8(i)   == Does(i, "cmp", 1, "", Data) /\ cpu' = Compared(i, 1, Cmp)
cmp_16(i)  == Does(i, "cmp", 2, "", Modes) /\ cpu' = Compared(i, 2, Cmp)
cmp_32(i)  == Does(i, "cmp", 4, "", Modes) /\ cpu' = Compared(i, 4, Cmp)
cmpa_16(i) == Does(i, "cmpa", 2, "", Modes) /\ cpu' = ComparedA(i, 2)
cmpa_32(i) == Does(i, "cmpa", 4, "", Modes) /\ cpu' = ComparedA(i, 4)
cmpi_8(i)  == Does(i, "cmpi", 1, "", Alterable) /\ cpu' = ComparedI(i, 1)
cmpi_16(i) == Does(i, "cmpi", 2, "", Alterable) /\ cpu' = ComparedI(i, 2)
cmpi_32(i) == Does(i, "cmpi", 4, "", Alterable) /\ cpu' = ComparedI(i, 4)
cmpm_8(i)  == Does(i, "cmpm", 1, "", {"pi"}) /\ cpu' = ComparedM(i, 1)
cmpm_16(i) == Does(i, "cmpm", 2, "", {"pi"}) /\ cpu' = ComparedM(i, 2)
cmpm_32(i) == Does(i, "cmpm", 4, "", {"pi"}) /\ cpu' = ComparedM(i, 4)
tst_8(i)   == Does(i, "tst", 1, "", Alterable) /\ cpu' = Shown(i, 1)
tst_16(i)  == Does(i, "tst", 2, "", Alterable) /\ cpu' = Shown(i, 2)
tst_32(i)  == Does(i, "tst", 4, "", Alterable) /\ cpu' = Shown(i, 4)

Arithmetic ==
  /\ Running
  /\ LET i == Instr
     IN \/ add_8_er(i) \/ add_16_er(i) \/ add_32_er(i) \/ add_8_re(i)
        \/ add_16_re(i) \/ add_32_re(i) \/ sub_8_er(i) \/ sub_16_er(i)
        \/ sub_32_er(i) \/ sub_8_re(i) \/ sub_16_re(i) \/ sub_32_re(i)
        \/ adda_16(i) \/ adda_32(i) \/ suba_16(i) \/ suba_32(i)
        \/ addi_8(i) \/ addi_16(i) \/ addi_32(i) \/ subi_8(i) \/ subi_16(i)
        \/ subi_32(i) \/ addq_8(i) \/ addq_16(i) \/ addq_32(i) \/ subq_8(i)
        \/ subq_16(i) \/ subq_32(i)
        \/ addq_16_a(i) \/ addq_32_a(i) \/ subq_16_a(i) \/ subq_32_a(i)
        \/ addx_8_rr(i) \/ addx_16_rr(i) \/ addx_32_rr(i) \/ addx_8_mm(i)
        \/ addx_16_mm(i) \/ addx_32_mm(i) \/ subx_8_rr(i) \/ subx_16_rr(i)
        \/ subx_32_rr(i) \/ subx_8_mm(i) \/ subx_16_mm(i) \/ subx_32_mm(i)
        \/ neg_8(i) \/ neg_16(i) \/ neg_32(i) \/ negx_8(i) \/ negx_16(i)
        \/ negx_32(i)
        \/ cmp_8(i) \/ cmp_16(i) \/ cmp_32(i) \/ cmpa_16(i) \/ cmpa_32(i)
        \/ cmpi_8(i) \/ cmpi_16(i) \/ cmpi_32(i) \/ cmpm_8(i) \/ cmpm_16(i)
        \/ cmpm_32(i) \/ tst_8(i) \/ tst_16(i) \/ tst_32(i)

-----------------------------------------------------------------------------
\* Two digits in a byte.
AbcdByte(z, f, s, d) == Abcd(f, s, d)
SbcdByte(z, f, s, d) == Sbcd(f, s, d)
NbcdByte(z, f, d) == Nbcd(f, d)
abcd_8_rr(i) == Does(i, "abcd", 1, "rr", {"d"}) /\ cpu' = Rr(i, 1, AbcdByte)
abcd_8_mm(i) == Does(i, "abcd", 1, "mm", {"pd"}) /\ cpu' = Mm(i, 1, AbcdByte)
sbcd_8_rr(i) == Does(i, "sbcd", 1, "rr", {"d"}) /\ cpu' = Rr(i, 1, SbcdByte)
sbcd_8_mm(i) == Does(i, "sbcd", 1, "mm", {"pd"}) /\ cpu' = Mm(i, 1, SbcdByte)
nbcd_8(i)    == Does(i, "nbcd", 1, "", Alterable) /\ cpu' = Unary(i, 1, NbcdByte)

\* Products and quotients.  A division by zero leaves all but the counter and
\* the address register alone.
Division(i, F(_, _, _)) ==
  LET s == Operand(Fetched, 2, i.ea)
  IN IF s.v = 0 THEN Raise(s.m, "zero_divide") ELSE Long(i, F)
mulu_16(i) == Does(i, "mulu", 2, "", Data) /\ cpu' = Long(i, Mulu)
muls_16(i) == Does(i, "muls", 2, "", Data) /\ cpu' = Long(i, Muls)
divu_16(i) == Does(i, "divu", 2, "", Data) /\ cpu' = Division(i, Divu)
divs_16(i) == Does(i, "divs", 2, "", Data) /\ cpu' = Division(i, Divs)

\* SWAP, EXT, and CLR, which does not read what it clears.
Cleared(i, z) ==
  Store([Fetched EXCEPT !.f = Logical(z, cpu.f, 0).f], z, i.ea, 0)
clr_8(i)   == Does(i, "clr", 1, "", Alterable) /\ cpu' = Cleared(i, 1)
clr_16(i)  == Does(i, "clr", 2, "", Alterable) /\ cpu' = Cleared(i, 2)
clr_32(i)  == Does(i, "clr", 4, "", Alterable) /\ cpu' = Cleared(i, 4)
ext_16(i)  == Does(i, "ext", 2, "", {"d"}) /\ cpu' = Unary(i, 2, Ext)
ext_32(i)  == Does(i, "ext", 4, "", {"d"}) /\ cpu' = Unary(i, 4, Ext)
swap_32(i) == Does(i, "swap", 4, "", {"d"}) /\ cpu' = Unary(i, 4, Swap)

Multiplying ==
  /\ Running
  /\ LET i == Instr
     IN \/ abcd_8_rr(i) \/ abcd_8_mm(i) \/ sbcd_8_rr(i) \/ sbcd_8_mm(i)
        \/ nbcd_8(i)
        \/ mulu_16(i) \/ muls_16(i) \/ divu_16(i) \/ divs_16(i)
        \/ clr_8(i) \/ clr_16(i) \/ clr_32(i) \/ ext_16(i) \/ ext_32(i)
        \/ swap_32(i)
=============================================================================
