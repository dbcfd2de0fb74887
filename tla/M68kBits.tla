------------------------------ MODULE M68kBits ------------------------------
(***************************************************************************)
(* The handlers of m68kops.c that work on bits: logic, single bits, shifts *)
(* and rotates.  An action stands for the handlers of one template.        *)
(***************************************************************************)
EXTENDS M68kMachine, M68kLogic, M68kShifts

\* Logic.
and_8_er(i)  == Does(i, "and", 1, "er", Data) /\ cpu' = Er(i, 1, Both)
and_16_er(i) == Does(i, "and", 2, "er", Data) /\ cpu' = Er(i, 2, Both)
and_32_er(i) == Does(i, "and", 4, "er", Data) /\ cpu' = Er(i, 4, Both)
and_8_re(i)  == Does(i, "and", 1, "re", Memory) /\ cpu' = Re(i, 1, Both)
and_16_re(i) == Does(i, "and", 2, "re", Memory) /\ cpu' = Re(i, 2, Both)
and_32_re(i) == Does(i, "and", 4, "re", Memory) /\ cpu' = Re(i, 4, Both)
or_8_er(i)   == Does(i, "or", 1, "er", Data) /\ cpu' = Er(i, 1, Either)
or_16_er(i)  == Does(i, "or", 2, "er", Data) /\ cpu' = Er(i, 2, Either)
or_32_er(i)  == Does(i, "or", 4, "er", Data) /\ cpu' = Er(i, 4, Either)
or_8_re(i)   == Does(i, "or", 1, "re", Memory) /\ cpu' = Re(i, 1, Either)
or_16_re(i)  == Does(i, "or", 2, "re", Memory) /\ cpu' = Re(i, 2, Either)
or_32_re(i)  == Does(i, "or", 4, "re", Memory) /\ cpu' = Re(i, 4, Either)
eor_8(i)     == Does(i, "eor", 1, "", Alterable) /\ cpu' = Re(i, 1, OneOf)
eor_16(i)    == Does(i, "eor", 2, "", Alterable) /\ cpu' = Re(i, 2, OneOf)
eor_32(i)    == Does(i, "eor", 4, "", Alterable) /\ cpu' = Re(i, 4, OneOf)
andi_8(i)    == Does(i, "andi", 1, "", Alterable) /\ cpu' = Imm(i, 1, Both)
andi_16(i)   == Does(i, "andi", 2, "", Alterable) /\ cpu' = Imm(i, 2, Both)
andi_32(i)   == Does(i, "andi", 4, "", Alterable) /\ cpu' = Imm(i, 4, Both)
ori_8(i)     == Does(i, "ori", 1, "", Alterable) /\ cpu' = Imm(i, 1, Either)
ori_16(i)    == Does(i, "ori", 2, "", Alterable) /\ cpu' = Imm(i, 2, Either)
ori_32(i)    == Does(i, "ori", 4, "", Alterable) /\ cpu' = Imm(i, 4, Either)
eori_8(i)    == Does(i, "eori", 1, "", Alterable) /\ cpu' = Imm(i, 1, OneOf)
eori_16(i)   == Does(i, "eori", 2, "", Alterable) /\ cpu' = Imm(i, 2, OneOf)
eori_32(i)   == Does(i, "eori", 4, "", Alterable) /\ cpu' = Imm(i, 4, OneOf)
not_8(i)     == Does(i, "not", 1, "", Alterable) /\ cpu' = Unary(i, 1, Invert)
not_16(i)    == Does(i, "not", 2, "", Alterable) /\ cpu' = Unary(i, 2, Invert)
not_32(i)    == Does(i, "not", 4, "", Alterable) /\ cpu' = Unary(i, 4, Invert)

\* On the condition codes.
ToCcr(i, F(_, _)) == [Skip(Fetched, 1) EXCEPT !.f = F(cpu.f, i.q)]
andi_16_toc(i) == Does(i, "andi", 2, "toc", {"none"}) /\ cpu' = ToCcr(i, CcrAnd)
ori_16_toc(i)  == Does(i, "ori", 2, "toc", {"none"}) /\ cpu' = ToCcr(i, CcrOr)
eori_16_toc(i) == Does(i, "eori", 2, "toc", {"none"}) /\ cpu' = ToCcr(i, CcrEor)

\* Single bits: of a long in a register, of a byte in memory.  The number
\* comes from a register or from behind the opcode, modulo the bits there are.
BitR(i, z, F(_, _, _)) ==
  LET G(d) == F(cpu.f, cpu.d[i.x] % Bits(z), d) IN Modify(Fetched, z, i.ea, G)
BitS(i, z, F(_, _, _)) ==
  LET G(d) == F(cpu.f, i.q % Bits(z), d) IN Modify(Skip(Fetched, 1), z, i.ea, G)
BitTested(m, z, o, b) ==
  LET s == Operand(m, z, o) IN WithFlags(s.m, Btst(cpu.f, b % Bits(z), s.v))
bchg_32_r(i) == Does(i, "bchg", 4, "r", {"d"}) /\ cpu' = BitR(i, 4, Bchg)
bchg_8_r(i)  == Does(i, "bchg", 1, "r", Memory) /\ cpu' = BitR(i, 1, Bchg)
bchg_32_s(i) == Does(i, "bchg", 4, "s", {"d"}) /\ cpu' = BitS(i, 4, Bchg)
bchg_8_s(i)  == Does(i, "bchg", 1, "s", Memory) /\ cpu' = BitS(i, 1, Bchg)
bclr_32_r(i) == Does(i, "bclr", 4, "r", {"d"}) /\ cpu' = BitR(i, 4, Bclr)
bclr_8_r(i)  == Does(i, "bclr", 1, "r", Memory) /\ cpu' = BitR(i, 1, Bclr)
bclr_32_s(i) == Does(i, "bclr", 4, "s", {"d"}) /\ cpu' = BitS(i, 4, Bclr)
bclr_8_s(i)  == Does(i, "bclr", 1, "s", Memory) /\ cpu' = BitS(i, 1, Bclr)
bset_32_r(i) == Does(i, "bset", 4, "r", {"d"}) /\ cpu' = BitR(i, 4, Bset)
bset_8_r(i)  == Does(i, "bset", 1, "r", Memory) /\ cpu' = BitR(i, 1, Bset)
bset_32_s(i) == Does(i, "bset", 4, "s", {"d"}) /\ cpu' = BitS(i, 4, Bset)
bset_8_s(i)  == Does(i, "bset", 1, "s", Memory) /\ cpu' = BitS(i, 1, Bset)
btst_32_r(i) == Does(i, "btst", 4, "r", {"d"})
                /\ cpu' = BitTested(Fetched, 4, i.ea, cpu.d[i.x])
btst_8_r(i)  == Does(i, "btst", 1, "r", Data \ {"d"})
                /\ cpu' = BitTested(Fetched, 1, i.ea, cpu.d[i.x])
btst_32_s(i) == Does(i, "btst", 4, "s", {"d"})
                /\ cpu' = BitTested(Skip(Fetched, 1), 4, i.ea, i.q)
btst_8_s(i)  == Does(i, "btst", 1, "s", Data \ {"d", "i"})
                /\ cpu' = BitTested(Skip(Fetched, 1), 1, i.ea, i.q)

Logic ==
  /\ Running
  /\ LET i == Instr
     IN \/ and_8_er(i) \/ and_16_er(i) \/ and_32_er(i) \/ and_8_re(i)
        \/ and_16_re(i) \/ and_32_re(i) \/ or_8_er(i) \/ or_16_er(i)
        \/ or_32_er(i) \/ or_8_re(i) \/ or_16_re(i) \/ or_32_re(i) \/ eor_8(i)
        \/ eor_16(i) \/ eor_32(i) \/ andi_8(i) \/ andi_16(i) \/ andi_32(i)
        \/ ori_8(i) \/ ori_16(i) \/ ori_32(i) \/ eori_8(i) \/ eori_16(i)
        \/ eori_32(i) \/ not_8(i) \/ not_16(i) \/ not_32(i)
        \/ andi_16_toc(i) \/ ori_16_toc(i) \/ eori_16_toc(i)
        \/ bchg_32_r(i) \/ bchg_8_r(i) \/ bchg_32_s(i) \/ bchg_8_s(i)
        \/ bclr_32_r(i) \/ bclr_8_r(i) \/ bclr_32_s(i) \/ bclr_8_s(i)
        \/ bset_32_r(i) \/ bset_8_r(i) \/ bset_32_s(i) \/ bset_8_s(i)
        \/ btst_32_r(i) \/ btst_8_r(i) \/ btst_32_s(i) \/ btst_8_s(i)

-----------------------------------------------------------------------------
\* Shifts of a data register by 1 to 8, or by the low six bits of another;
\* of a word in memory by one.
ShiftR(i, z, F(_, _, _, _)) ==
  LET G(d) == F(z, cpu.f, cpu.d[i.x] % (2 * Bits(4)), d) IN Modify(Fetched, z, i.ea, G)
ShiftM(i, F(_, _, _, _)) ==
  LET G(d) == F(2, cpu.f, 1, d) IN Modify(Fetched, 2, i.ea, G)
asr_8_s(i)   == Does(i, "asr", 1, "s", {"d"}) /\ cpu' = Quick(i, 1, Asr)
asr_16_s(i)  == Does(i, "asr", 2, "s", {"d"}) /\ cpu' = Quick(i, 2, Asr)
asr_32_s(i)  == Does(i, "asr", 4, "s", {"d"}) /\ cpu' = Quick(i, 4, Asr)
asr_8_r(i)   == Does(i, "asr", 1, "r", {"d"}) /\ cpu' = ShiftR(i, 1, Asr)
asr_16_r(i)  == Does(i, "asr", 2, "r", {"d"}) /\ cpu' = ShiftR(i, 2, Asr)
asr_32_r(i)  == Does(i, "asr", 4, "r", {"d"}) /\ cpu' = ShiftR(i, 4, Asr)
asr_16(i)    == Does(i, "asr", 2, "", Memory) /\ cpu' = ShiftM(i, Asr)
asl_8_s(i)   == Does(i, "asl", 1, "s", {"d"}) /\ cpu' = Quick(i, 1, Asl)
asl_16_s(i)  == Does(i, "asl", 2, "s", {"d"}) /\ cpu' = Quick(i, 2, Asl)
asl_32_s(i)  == Does(i, "asl", 4, "s", {"d"}) /\ cpu' = Quick(i, 4, Asl)
asl_8_r(i)   == Does(i, "asl", 1, "r", {"d"}) /\ cpu' = ShiftR(i, 1, Asl)
asl_16_r(i)  == Does(i, "asl", 2, "r", {"d"}) /\ cpu' = ShiftR(i, 2, Asl)
asl_32_r(i)  == Does(i, "asl", 4, "r", {"d"}) /\ cpu' = ShiftR(i, 4, Asl)
asl_16(i)    == Does(i, "asl", 2, "", Memory) /\ cpu' = ShiftM(i, Asl)
lsr_8_s(i)   == Does(i, "lsr", 1, "s", {"d"}) /\ cpu' = Quick(i, 1, Lsr)
lsr_16_s(i)  == Does(i, "lsr", 2, "s", {"d"}) /\ cpu' = Quick(i, 2, Lsr)
lsr_32_s(i)  == Does(i, "lsr", 4, "s", {"d"}) /\ cpu' = Quick(i, 4, Lsr)
lsr_8_r(i)   == Does(i, "lsr", 1, "r", {"d"}) /\ cpu' = ShiftR(i, 1, Lsr)
lsr_16_r(i)  == Does(i, "lsr", 2, "r", {"d"}) /\ cpu' = ShiftR(i, 2, Lsr)
lsr_32_r(i)  == Does(i, "lsr", 4, "r", {"d"}) /\ cpu' = ShiftR(i, 4, Lsr)
lsr_16(i)    == Does(i, "lsr", 2, "", Memory) /\ cpu' = ShiftM(i, Lsr)
lsl_8_s(i)   == Does(i, "lsl", 1, "s", {"d"}) /\ cpu' = Quick(i, 1, Lsl)
lsl_16_s(i)  == Does(i, "lsl", 2, "s", {"d"}) /\ cpu' = Quick(i, 2, Lsl)
lsl_32_s(i)  == Does(i, "lsl", 4, "s", {"d"}) /\ cpu' = Quick(i, 4, Lsl)
lsl_8_r(i)   == Does(i, "lsl", 1, "r", {"d"}) /\ cpu' = ShiftR(i, 1, Lsl)
lsl_16_r(i)  == Does(i, "lsl", 2, "r", {"d"}) /\ cpu' = ShiftR(i, 2, Lsl)
lsl_32_r(i)  == Does(i, "lsl", 4, "r", {"d"}) /\ cpu' = ShiftR(i, 4, Lsl)
lsl_16(i)    == Does(i, "lsl", 2, "", Memory) /\ cpu' = ShiftM(i, Lsl)
ror_8_s(i)   == Does(i, "ror", 1, "s", {"d"}) /\ cpu' = Quick(i, 1, Ror)
ror_16_s(i)  == Does(i, "ror", 2, "s", {"d"}) /\ cpu' = Quick(i, 2, Ror)
ror_32_s(i)  == Does(i, "ror", 4, "s", {"d"}) /\ cpu' = Quick(i, 4, Ror)
ror_8_r(i)   == Does(i, "ror", 1, "r", {"d"}) /\ cpu' = ShiftR(i, 1, Ror)
ror_16_r(i)  == Does(i, "ror", 2, "r", {"d"}) /\ cpu' = ShiftR(i, 2, Ror)
ror_32_r(i)  == Does(i, "ror", 4, "r", {"d"}) /\ cpu' = ShiftR(i, 4, Ror)
ror_16(i)    == Does(i, "ror", 2, "", Memory) /\ cpu' = ShiftM(i, Ror)
rol_8_s(i)   == Does(i, "rol", 1, "s", {"d"}) /\ cpu' = Quick(i, 1, Rol)
rol_16_s(i)  == Does(i, "rol", 2, "s", {"d"}) /\ cpu' = Quick(i, 2, Rol)
rol_32_s(i)  == Does(i, "rol", 4, "s", {"d"}) /\ cpu' = Quick(i, 4, Rol)
rol_8_r(i)   == Does(i, "rol", 1, "r", {"d"}) /\ cpu' = ShiftR(i, 1, Rol)
rol_16_r(i)  == Does(i, "rol", 2, "r", {"d"}) /\ cpu' = ShiftR(i, 2, Rol)
rol_32_r(i)  == Does(i, "rol", 4, "r", {"d"}) /\ cpu' = ShiftR(i, 4, Rol)
rol_16(i)    == Does(i, "rol", 2, "", Memory) /\ cpu' = ShiftM(i, Rol)
roxr_8_s(i)  == Does(i, "roxr", 1, "s", {"d"}) /\ cpu' = Quick(i, 1, Roxr)
roxr_16_s(i) == Does(i, "roxr", 2, "s", {"d"}) /\ cpu' = Quick(i, 2, Roxr)
roxr_32_s(i) == Does(i, "roxr", 4, "s", {"d"}) /\ cpu' = Quick(i, 4, Roxr)
roxr_8_r(i)  == Does(i, "roxr", 1, "r", {"d"}) /\ cpu' = ShiftR(i, 1, Roxr)
roxr_16_r(i) == Does(i, "roxr", 2, "r", {"d"}) /\ cpu' = ShiftR(i, 2, Roxr)
roxr_32_r(i) == Does(i, "roxr", 4, "r", {"d"}) /\ cpu' = ShiftR(i, 4, Roxr)
roxr_16(i)   == Does(i, "roxr", 2, "", Memory) /\ cpu' = ShiftM(i, Roxr)
roxl_8_s(i)  == Does(i, "roxl", 1, "s", {"d"}) /\ cpu' = Quick(i, 1, Roxl)
roxl_16_s(i) == Does(i, "roxl", 2, "s", {"d"}) /\ cpu' = Quick(i, 2, Roxl)
roxl_32_s(i) == Does(i, "roxl", 4, "s", {"d"}) /\ cpu' = Quick(i, 4, Roxl)
roxl_8_r(i)  == Does(i, "roxl", 1, "r", {"d"}) /\ cpu' = ShiftR(i, 1, Roxl)
roxl_16_r(i) == Does(i, "roxl", 2, "r", {"d"}) /\ cpu' = ShiftR(i, 2, Roxl)
roxl_32_r(i) == Does(i, "roxl", 4, "r", {"d"}) /\ cpu' = ShiftR(i, 4, Roxl)
roxl_16(i)   == Does(i, "roxl", 2, "", Memory) /\ cpu' = ShiftM(i, Roxl)

Shifting ==
  /\ Running
  /\ LET i == Instr
     IN \/ asr_8_s(i) \/ asr_16_s(i) \/ asr_32_s(i) \/ asr_8_r(i)
        \/ asr_16_r(i) \/ asr_32_r(i) \/ asr_16(i) \/ asl_8_s(i)
        \/ asl_16_s(i) \/ asl_32_s(i) \/ asl_8_r(i) \/ asl_16_r(i)
        \/ asl_32_r(i) \/ asl_16(i) \/ lsr_8_s(i) \/ lsr_16_s(i)
        \/ lsr_32_s(i) \/ lsr_8_r(i) \/ lsr_16_r(i) \/ lsr_32_r(i)
        \/ lsr_16(i) \/ lsl_8_s(i) \/ lsl_16_s(i) \/ lsl_32_s(i) \/ lsl_8_r(i)
        \/ lsl_16_r(i) \/ lsl_32_r(i) \/ lsl_16(i) \/ ror_8_s(i)
        \/ ror_16_s(i) \/ ror_32_s(i) \/ ror_8_r(i) \/ ror_16_r(i)
        \/ ror_32_r(i) \/ ror_16(i) \/ rol_8_s(i) \/ rol_16_s(i)
        \/ rol_32_s(i) \/ rol_8_r(i) \/ rol_16_r(i) \/ rol_32_r(i)
        \/ rol_16(i) \/ roxr_8_s(i) \/ roxr_16_s(i) \/ roxr_32_s(i)
        \/ roxr_8_r(i) \/ roxr_16_r(i) \/ roxr_32_r(i) \/ roxr_16(i)
        \/ roxl_8_s(i) \/ roxl_16_s(i) \/ roxl_32_s(i) \/ roxl_8_r(i)
        \/ roxl_16_r(i) \/ roxl_32_r(i) \/ roxl_16(i)
=============================================================================
