------------------------- MODULE M68kRoutinesProofs -------------------------
(***************************************************************************)
(* What is proved of M68kRoutines: what several instructions do together.  *)
(* Becomes says what a handler leaves of the whole machine; an invariant of*)
(* a routine has a case for every line, and a lemma for every step from one*)
(* line to the next.                                                       *)
(***************************************************************************)
EXTENDS M68kProgramProofs, M68kRoutines

-----------------------------------------------------------------------------
(* The handlers of a routine.                                              *)

\* The instructions of the routines have handlers of their own, by their names.
Own(i) ==
  /\ i.name = "dbf" => dbf_16(i)
  /\ i.name = "bsr" => bsr_8(i) \/ bsr_16(i)
  /\ i.name = "link" => link_16(i) \/ link_16_a7(i)
  /\ i.name = "moveq" => moveq_32(i)
  /\ i.name = "exg" => ExgHandlers(i)
  /\ i.name = "movem" => SaveHandlers(i) \/ RestoreHandlers(i)
  /\ i.name = "unlk" => unlk_32(i) \/ unlk_32_a7(i)
  /\ i.name = "rts" => rts_32(i)
  /\ i.name = "lea" => lea_32(i)
  /\ i.name = "jsr" => jsr_32(i)
  /\ i.name = "jmp" => jmp_32(i)
  /\ i.name = "movea" => movea_16(i) \/ movea_32(i)
  /\ i.name = "bcc" => bcc_8(i) \/ bcc_16(i)
  /\ i.name = "move" => (i.form # "toc" => MoveHandlers(i))
  /\ i.name = "movep" => movep_16_er(i) \/ movep_32_er(i) \/ movep_16_re(i) \/ movep_32_re(i)
  /\ i.name = "addq" => (i.form = "a" => addq_16_a(i) \/ addq_32_a(i))
  /\ i.name = "cmp" => ShowHandlers(i)

\* Several names share a group of handlers.
Grouped(i) ==
  \/ ToAHandlers(i) /\ i.name \in {"adda", "suba", "movea"}
  \/ MoveHandlers(i) /\ i.name = "move"
  \/ ExgHandlers(i) /\ i.name = "exg"
  \/ (SaveHandlers(i) \/ RestoreHandlers(i)) /\ i.name = "movem"
  \/ BranchHandlers(i) /\ i.name \in {"bcc", "bra"}
  \/ LoopHandlers(i) /\ i.name \in {"dbf", "dbcc"}
  \/ ShowHandlers(i) /\ i.name = "cmp"
  \/ OtherHandlers(i)

Single == {"dbf", "bsr", "link", "moveq", "exg", "movem", "unlk", "rts", "lea", "jsr", "jmp",
    "movea", "bcc", "move", "movep", "addq", "cmp"}

\* A handler with one of these names is not in a group of handlers with other names.
LEMMA SingleOnes ==
  ASSUME cpu \in Machine, NEW i, IsInstruction(i), Handlers(i),
         i.name \in Single, i.name = "move" => i.form # "toc", i.name = "addq" => i.form = "a"
  PROVE  Grouped(i)
<1>1. PICK name : name = i.name /\ name \in Single
  OBVIOUS
<1>2. ~ErHandlers(i) /\ ~ReHandlers(i) /\ ~ImmHandlers(i) /\ ~QuickHandlers(i)
  <2>1. ErHandlers(i) \/ ReHandlers(i) \/ ImmHandlers(i)
          => name \in {"add", "sub", "and", "or", "eor", "addi", "subi", "andi", "ori", "eori"}
    BY <1>1, ErIs, ReIs, ImmIs
  <2>2. QuickHandlers(i) => name \in {"addq", "subq"} /\ i.form = ""
    BY <1>1, QuickIs
  <2> QED BY <1>1, <2>1, <2>2 DEF Single
<1>3. ~UnaryHandlers(i) /\ ~BitRHandlers(i) /\ ~BitSHandlers(i)
  <2>1. UnaryHandlers(i) => name \in Onefold \cup {"nbcd", "ext", "swap"}
    BY <1>1, UnaryIs
  <2>2. BitRHandlers(i) \/ BitSHandlers(i) => name \in Bitwise1
    BY <1>1, BitRIs, BitSIs
  <2> QED BY <1>1, <2>1, <2>2 DEF Single, Onefold, Bitwise1
<1>4. (ShowHandlers(i) => name = "cmp") /\ ~AgainstHandlers(i)
  <2>1. ShowHandlers(i) => name \in {"cmp", "cmpa", "tst", "btst", "move"}
        /\ (name = "move" => i.form = "toc")
    BY <1>1, ShowIs
  <2>2. AgainstHandlers(i) => name \in {"cmpi", "btst"}
    BY <1>1, AgainstIs
  <2> QED BY <1>1, <2>1, <2>2 DEF Single
<1>5. ~RrHandlers(i) /\ ~MmHandlers(i) /\ ~LongHandlers(i)
  <2>1. RrHandlers(i) \/ MmHandlers(i) => name \in {"addx", "subx", "abcd", "sbcd"}
    BY <1>1, RrIs, MmIs
  <2>2. LongHandlers(i) => name \in {"mulu", "muls", "divu", "divs"}
    BY <1>1 DEF LongHandlers, Does, mulu_16, muls_16, divu_16, divs_16
  <2> QED BY <1>1, <2>1, <2>2 DEF Single
<1>6. ~ShiftSHandlers(i) /\ ~ShiftRHandlers(i) /\ ~ShiftMHandlers(i)
  <2>1. ShiftSHandlers(i) \/ ShiftRHandlers(i) \/ ShiftMHandlers(i) => name \in Rotated
    BY <1>1, ShiftSIs, ShiftRIs, ShiftMIs
  <2> QED BY <1>1, <2>1 DEF Single, Rotated
<1>7. ~FillHandlers(i)
  <2>1. FillHandlers(i) => name \in {"clr", "st", "sf", "scc"}
    BY <1>1 DEF FillHandlers, Does, clr_8, clr_16, clr_32, st_8, sf_8, scc_8
  <2> QED BY <1>1, <2>1 DEF Single
<1>8. /\ ToAHandlers(i) => i.name \in {"adda", "suba", "movea"}
      /\ ExgHandlers(i) => i.name = "exg"
      /\ MoveHandlers(i) => i.name = "move"
  BY MoveIs
     DEF ToAHandlers, ExgHandlers, Does, adda_16, adda_32, suba_16, suba_32, movea_16,
         movea_32, exg_32_dd, exg_32_aa, exg_32_da
<1>9. /\ SaveHandlers(i) \/ RestoreHandlers(i) => i.name = "movem"
      /\ BranchHandlers(i) => i.name \in {"bcc", "bra"}
      /\ LoopHandlers(i) => i.name \in {"dbf", "dbcc"}
  BY DEF SaveHandlers, RestoreHandlers, BranchHandlers, LoopHandlers, Does, movem_16_re_pd,
         movem_32_re_pd, movem_16_re, movem_32_re, movem_16_er_pi, movem_32_er_pi, movem_16_er,
         movem_32_er, bcc_8, bcc_16, bra_8, bra_16, dbf_16, dbcc_16
<1> QED BY <1>1, <1>2, <1>3, <1>4, <1>5, <1>6, <1>7, <1>8, <1>9 DEF Handlers, Grouped

\* So an instruction of a routine runs the handler of its name.
LEMMA OwnOnes ==
  ASSUME cpu \in Machine, NEW i, IsInstruction(i), Handlers(i),
         i.name = "move" => i.form # "toc", i.name = "addq" => i.form = "a"
  PROVE  Own(i)
<1>1. CASE i.name \notin Single
  BY <1>1 DEF Own, Single
<1>2. CASE Grouped(i)
  <2>1. CASE ~OtherHandlers(i)
    BY <1>2, <2>1
       DEF Grouped, Own, ToAHandlers, BranchHandlers, LoopHandlers, Does, adda_16, adda_32,
           suba_16,
           suba_32, movea_16, movea_32, bcc_8, bcc_16, bra_8, bra_16, dbf_16, dbcc_16
  <2>2. CASE OtherHandlers(i)
    BY <2>2
       DEF Own, OtherHandlers, Does, cmpm_8, cmpm_16, cmpm_32, andi_16_toc, ori_16_toc,
           eori_16_toc, nop,
           trapv, dbt_16, addq_16_a, addq_32_a, subq_16_a, subq_32_a, moveq_32, chk_16, tas_8,
           movep_16_er, movep_32_er, movep_16_re, movep_32_re, lea_32, pea_32, link_16,
               link_16_a7,
           unlk_32, unlk_32_a7, bsr_8, bsr_16, jmp_32, jsr_32, rts_32, rtr_32
  <2> QED BY <2>1, <2>2
<1> QED BY <1>1, <1>2, SingleOnes

\* A step that is not one of a Xosera that does not listen.
LEMMA StepOwn ==
  ASSUME IInv, Next, Running, ~Unready, NEW i, i = Instr
  PROVE  /\ IsInstruction(i) /\ Handlers(i) /\ cpu \in Machine /\ cpu' \in Machine
         /\ (i.name = "move" => i.form # "toc") /\ (i.name = "addq" => i.form = "a") => Own(i)
         /\ Right(i) /\ Quiet
<1>1. Handling /\ Quiet
  BY DEF Next, Handling, Ended
<1>2. IsInstruction(i) /\ Handlers(i) /\ cpu \in Machine
  BY <1>1, InstrIs, HandlersAre DEF IInv, TypeOK
<1>3. Right(i)
  BY StepsRight
<1> QED BY <1>1, <1>2, <1>3, OwnOnes DEF Right

-----------------------------------------------------------------------------
(* What addq, subq and dbf leave.                                          *)

\* A machine with these registers, this memory and this counter.
Becomes(p, ds, as, M, c) == p.d = ds /\ p.a = as /\ p.mem = M /\ p.pc = c

\* The counter is so many bytes further.
Ahead(k) == Masked(4, cpu.pc + k)

\* Skipping words moves the counter.
LEMMA SkippedBecomes ==
  ASSUME cpu \in Machine, NEW v \in Nat, NEW n, n = Skip(Fetched, v) \/ (n = Fetched /\ v = 0)
  PROVE  n \in Machine /\ Becomes(n, cpu.d, cpu.a, cpu.mem, Ahead(2 * (1 + v))) /\ n.f = cpu.f
<1>1. Stepped(cpu, n, {}, 1 + v)
  <2>1. n \in {Skip(Fetched, v), Fetched} /\ (n = Fetched => v = 0 \/ n = Skip(Fetched, v))
    OBVIOUS
  <2> QED BY <2>1, SkippedOn
<1>2. n.a = cpu.a
  <2>1. n.a \in [Registers -> Range0(4)] /\ cpu.a \in [Registers -> Range0(4)]
    BY <1>1, MachineIs DEF Stepped
  <2>2. \A r \in Registers : n.a[r] = cpu.a[r]
    BY <1>1 DEF Stepped
  <2> QED BY <2>1, <2>2
<1> QED BY <1>1, <1>2 DEF Stepped, Becomes, Ahead

\* The counter behind the opcode and one or two words more.
LEMMA WordsBecome ==
  ASSUME cpu \in Machine
  PROVE  /\ Fetched \in Machine /\ Becomes(Fetched, cpu.d, cpu.a, cpu.mem, Ahead(2))
         /\ Skip(Fetched, 1) \in Machine
            /\ Becomes(Skip(Fetched, 1), cpu.d, cpu.a, cpu.mem, Ahead(4))
         /\ Skip(Fetched, 2) \in Machine
            /\ Becomes(Skip(Fetched, 2), cpu.d, cpu.a, cpu.mem, Ahead(6))
<1>1. PICK n0, n1, n2 : n0 = Fetched /\ n1 = Skip(Fetched, 1) /\ n2 = Skip(Fetched, 2)
  OBVIOUS
<1>2. 0 \in Nat /\ 1 \in Nat /\ 2 \in Nat /\ 2 * (1 + 0) = 2 /\ 2 * (1 + 1) = 4
      /\ 2 * (1 + 2) = 6
  OBVIOUS
<1>3. n0 \in Machine /\ Becomes(n0, cpu.d, cpu.a, cpu.mem, Ahead(2 * (1 + 0)))
  BY <1>1, <1>2, SkippedBecomes
<1>4. n1 \in Machine /\ Becomes(n1, cpu.d, cpu.a, cpu.mem, Ahead(2 * (1 + 1)))
  BY <1>1, <1>2, SkippedBecomes
<1>5. n2 \in Machine /\ Becomes(n2, cpu.d, cpu.a, cpu.mem, Ahead(2 * (1 + 2)))
  BY <1>1, <1>2, SkippedBecomes
<1> QED BY <1>1, <1>2, <1>3, <1>4, <1>5

\* PutD, with the flags set before, in the parts of the machine.
LEMMA PutBecomes ==
  ASSUME NEW n \in Machine, NEW z \in Sizes, NEW f \in Flags, NEW r \in Registers,
         NEW v \in Range0(z),
         NEW p, p = PutD([n EXCEPT !.f = f], z, r, v)
  PROVE  Becomes(p, [n.d EXCEPT ![r] = @ - Masked(z, @) + v], n.a, n.mem, n.pc) /\ p.f = f
BY DEF PutD, Machine, Becomes

\* A long replaces all of a register.
LEMMA LongBecomes ==
  ASSUME NEW n \in Machine, NEW f \in Flags, NEW r \in Registers, NEW v \in Range0(4),
         NEW p, p = PutD([n EXCEPT !.f = f], 4, r, v)
  PROVE  Becomes(p, [n.d EXCEPT ![r] = v], n.a, n.mem, n.pc) /\ p.f = f
<1>1. Becomes(p, [n.d EXCEPT ![r] = @ - Masked(4, @) + v], n.a, n.mem, n.pc) /\ p.f = f
  BY PutBecomes, SizeIs
<1>2. Masked(4, n.d[r]) = n.d[r] /\ n.d[r] \in Int /\ v \in Int
  BY MachineIs, LongIs
<1>3. n.d[r] - Masked(4, n.d[r]) + v = v
  BY <1>2
<1> QED BY <1>1, <1>3

\* dbf: the word in a register counts down, and the counter turns back until
\* it is all ones.
LEMMA DbfBecomes ==
  ASSUME cpu \in Machine, NEW i, IsInstruction(i), dbf_16(i), NEW r, r = i.ea.r,
         NEW count, count = Masked(2, cpu.d[r] - 1)
  PROVE  /\ r \in Registers /\ count \in Range0(2)
         /\ Becomes(cpu', [cpu.d EXCEPT ![r] = @ - Masked(2, @) + count], cpu.a, cpu.mem,
                    IF count # Mod(2) - 1 THEN Ahead(2 + Signed(2, i.q)) ELSE Ahead(4))
<1>1. i.z = 2 /\ i.ea.mode = "d" /\ cpu' = Loop(i)
  BY DEF dbf_16, Does
<1>2. r \in Registers /\ i.q \in Range0(2)
  BY <1>1 DEF IsInstruction, IsOperand
<1>3. count \in Range0(2)
  BY <1>2, MachineIs, MaskedRange, SizeIs
<1>4. PICK n : n = IF count # Mod(2) - 1 THEN Branch(Fetched, 2, i) ELSE Passed
  OBVIOUS
<1>5. cpu' = PutD(n, 2, r, count)
  BY <1>1, <1>4 DEF Loop
<1>6. PICK c : c = IF count # Mod(2) - 1 THEN Ahead(2 + Signed(2, i.q)) ELSE Ahead(4)
  OBVIOUS
<1>7. n \in Machine /\ Becomes(n, cpu.d, cpu.a, cpu.mem, c)
  <2>1. CASE count # Mod(2) - 1
    <3>1. PICK v \in Nat : v = 0
      OBVIOUS
    <3>2. Fetched \in Machine /\ Becomes(Fetched, cpu.d, cpu.a, cpu.mem, Ahead(2 * (1 + v)))
      BY <3>1, SkippedBecomes
    <3>3. PICK a : a = Masked(4, Fetched.pc + MakeInt(2, i.q))
      OBVIOUS
    <3>4. a = Masked(4, cpu.pc + 2 + Signed(2, i.q)) /\ a \in Range0(4)
      BY <1>2, <3>3, AimIs, SizeIs
    <3>5. a = c
      <4>1. PICK s \in Int, t \in Int : s = Signed(2, i.q) /\ t = cpu.pc
        BY <1>2, SignedIs, SizeIs, MachineIs
      <4>2. t + 2 + s = t + (2 + s)
        BY <4>1
      <4> QED BY <1>6, <2>1, <3>4, <4>1, <4>2 DEF Ahead
    <3>6. n = [Fetched EXCEPT !.pc = a]
      BY <1>4, <2>1, <3>3 DEF Branch
    <3> QED BY <3>2, <3>4, <3>5, <3>6 DEF Becomes, Machine
  <2>2. CASE count = Mod(2) - 1
    <3>1. PICK v \in Nat : v = 1 /\ 2 * (1 + v) = 4
      OBVIOUS
    <3>2. n = Skip(Fetched, v)
      BY <1>4, <2>2, <3>1 DEF Passed
    <3> QED BY <1>6, <2>2, <3>1, <3>2, SkippedBecomes
  <2> QED BY <2>1, <2>2
<1>8. PICK f \in Flags : f = n.f
  BY <1>7, MachineIs
<1>9. n = [n EXCEPT !.f = f]
  BY <1>7, <1>8 DEF Machine
<1>10. Becomes(cpu', [n.d EXCEPT ![r] = @ - Masked(2, @) + count], n.a, n.mem, n.pc)
  BY <1>2, <1>3, <1>5, <1>7, <1>9, PutBecomes, SizeIs
<1> QED BY <1>2, <1>3, <1>6, <1>7, <1>10 DEF Becomes

\* addq.l and subq.l on a data register.
QuickSum(i) == IF i.name = "addq" THEN cpu.d[i.ea.r] + i.q ELSE cpu.d[i.ea.r] - i.q
QuickTotals(i, s, d) == IF i.name = "addq" THEN d + s ELSE d - s

\* Longs are integers.
LEMMA LongsAreInt == \A v \in Range0(4) : v \in Int
BY LongIs

\* The parts of a pair.
LEMMA PairIs == ASSUME NEW x, NEW y, NEW o, o = <<x, y>> PROVE o[1] = x /\ o[2] = y
OBVIOUS

\* What addq and subq add are integers.
LEMMA QuickSumIs ==
  ASSUME cpu \in Machine, NEW i, i.ea.r \in Registers, i.q \in Range0(4)
  PROVE  QuickSum(i) \in Int /\ cpu.d[i.ea.r] \in Int /\ i.q \in Int
<1>1. PICK s \in Int, d \in Int : s = i.q /\ d = cpu.d[i.ea.r]
  BY MachineIs, LongIs
<1> QED BY <1>1 DEF QuickSum

\* addq.l or subq.l on a data register, or on memory.
QuickOne(i) == i.name \in {"addq", "subq"} /\ i.z = 4 /\ i.form = ""

\* What InIntegers says of a sum or difference without a carry.
LEMMA PlainOutcome ==
  ASSUME NEW i, InIntegers(i), QuickOne(i), NEW o, o = Operands(i)
  PROVE  /\ Outcome(i) = Low1(4, Total(i, o[1], o[2], 0))
         /\ (cpu'.f.z = 1) <=> Outcome(i) = 0
BY DEF InIntegers, Comparing, Chaining, CarryIn, QuickOne

\* addq.l and subq.l read a data register and a value in the opcode.
LEMMA QuickOperands ==
  ASSUME NEW i, QuickOne(i)
  PROVE  /\ Operands(i) = <<i.q, Low1(4, cpu.d[i.ea.r])>>
         /\ Outcome(i) = Low1(4, cpu'.d[i.ea.r])
BY DEF Operands, Outcome, QuickOne

\* The result of addq.l and subq.l is the sum or the difference, around the longs.
LEMMA QuickTotal ==
  ASSUME NEW i, QuickOne(i), NEW s \in Int, NEW d \in Int
  PROVE  Total(i, s, d, 0) = QuickTotals(i, s, d)
<1>1. d + s + 0 = d + s /\ d - s - 0 = d - s
  OBVIOUS
<1>2. CASE i.name = "addq"
  <2>1. Total(i, s, d, 0) = d + s + 0
    BY <1>2 DEF Total, Adding
  <2>2. QuickTotals(i, s, d) = d + s
    BY <1>2 DEF QuickTotals
  <2> QED BY <1>1, <2>1, <2>2
<1>3. CASE i.name = "subq"
  <2>1. Total(i, s, d, 0) = d - s - 0
    BY <1>3 DEF Total, Adding
  <2>2. QuickTotals(i, s, d) = d - s
    BY <1>3 DEF QuickTotals
  <2> QED BY <1>1, <2>1, <2>2
<1> QED BY <1>2, <1>3 DEF QuickOne

\* A long is its own low long.
Whole4(v) == v \in Int /\ Low1(4, v) = v

\* What they leave: the result and its flags.
LEMMA QuickOutcome ==
  ASSUME NEW i, QuickOne(i), InIntegers(i), Whole4(cpu.d[i.ea.r]), i.q \in Int,
         Whole4(cpu'.d[i.ea.r])
  PROVE  /\ cpu'.d[i.ea.r] = Low1(4, QuickSum(i))
         /\ (cpu'.f.z = 1) <=> cpu'.d[i.ea.r] = 0
<1>1. PICK o, x, y, v, w : o = Operands(i) /\ x = i.q /\ y = cpu.d[i.ea.r]
      /\ v = cpu'.d[i.ea.r] /\ w = Outcome(i)
  OBVIOUS
<1>2. o = <<x, Low1(4, y)>> /\ w = Low1(4, v)
  BY <1>1, QuickOperands
<1>3. x \in Int /\ y \in Int /\ Low1(4, y) = y /\ Low1(4, v) = v
  BY <1>1 DEF Whole4
<1>4. o[1] = x /\ o[2] = y /\ w = v
  BY <1>2, <1>3, PairIs
<1>5. w = Low1(4, Total(i, o[1], o[2], 0)) /\ ((cpu'.f.z = 1) <=> w = 0)
  BY <1>1, PlainOutcome
<1>6. Total(i, x, y, 0) = QuickTotals(i, x, y)
  BY <1>3, QuickTotal
<1>7. QuickTotals(i, x, y) = QuickSum(i)
  BY <1>1 DEF QuickTotals, QuickSum
<1> QED BY <1>1, <1>4, <1>5, <1>6, <1>7

\* addq.l and subq.l on a data register change it, and nothing else but the flags.
LEMMA QuickBecomes ==
  ASSUME cpu \in Machine, NEW i, IsInstruction(i), Handlers(i), i.name \in {"addq", "subq"},
         i.z = 4,
         i.ea.mode = "d", i.form = ""
  PROVE  /\ i.ea.r \in Registers /\ Masked(4, QuickSum(i)) \in Range0(4)
         /\ Becomes(cpu', [cpu.d EXCEPT ![i.ea.r] = Masked(4, QuickSum(i))], cpu.a, cpu.mem,
                Ahead(2))
         /\ (cpu'.f.z = 1) <=> Masked(4, QuickSum(i)) = 0
<1>0. PICK r, v : r = i.ea.r /\ v = Masked(4, QuickSum(i))
  OBVIOUS
<1>1. Binary(i)
  BY DEF Binary
<1>2. Exact(i)
  BY <1>1, BinaryExact
<1>3. QuickHandlers(i)
  <2>1. Computing(i)
    BY <1>1, BinaryHandlers
  <2>2. ~ErHandlers(i) /\ ~ImmHandlers(i) /\ ~UnaryHandlers(i) /\ ~RrHandlers(i)
        /\ ~MmHandlers(i)
    <3>1. /\ ErHandlers(i) => i.name \in {"add", "sub", "and", "or"}
          /\ ImmHandlers(i) => i.name \in {"addi", "subi", "andi", "ori", "eori"}
          /\ RrHandlers(i) \/ MmHandlers(i) => i.name \in {"addx", "subx", "abcd", "sbcd"}
      BY ErIs, ImmIs, RrIs, MmIs
    <3>2. UnaryHandlers(i) => i.name \in Onefold \cup {"nbcd", "ext", "swap"}
      BY UnaryIs
    <3> QED BY <3>1, <3>2 DEF Onefold
  <2>3. ~ShowHandlers(i) /\ ~AgainstHandlers(i)
    <3>1. ShowHandlers(i) => i.name \in {"cmp", "cmpa", "tst", "btst", "move"}
      BY ShowIs
    <3>2. AgainstHandlers(i) => i.name \in {"cmpi", "btst"}
      BY AgainstIs
    <3> QED BY <3>1, <3>2
  <2> QED BY <2>1, <2>2, <2>3 DEF Computing
<1>4. r \in Registers /\ i.q \in Range0(4) /\ cpu.d[r] \in Range0(4)
  <2>1. r \in Registers /\ i.q \in Range0(4)
    BY <1>0 DEF IsInstruction, IsOperand
  <2> QED BY <2>1, MachineIs
<1>5. PICK s \in Int, d \in Int, t \in Int : s = i.q /\ d = cpu.d[r] /\ t = QuickSum(i)
  BY <1>0, <1>4, QuickSumIs
<1>6. v \in Range0(4)
  BY <1>0, <1>5, MaskedRange, SizeIs
<1>7. PICK q : q = Op(i.name, i.z, cpu.f, i.q, Target(Fetched, i.z, i.ea))
  OBVIOUS
<1>8. cpu' = Placed(Fetched, i.z, i.ea, q)
  BY <1>3, <1>7, QuickIs
<1>9. PICK n : n = Fetched
  OBVIOUS
<1>10. n \in Machine /\ Becomes(n, cpu.d, cpu.a, cpu.mem, Ahead(2))
  BY <1>9, WordsBecome
<1>11. cpu' = PutD([n EXCEPT !.f = q.f], 4, r, q.v)
  BY <1>0, <1>8, <1>9 DEF Placed
<1>12. Typed(4, q)
  <2>1. Target(n, 4, i.ea) \in Range0(4)
    BY <1>10, SizeIs, TargetRange DEF IsInstruction, Alterable
  <2>2. cpu.f \in Flags
    BY MachineIs
  <2>3. OpBounds(i.name, 4, i.q)
    BY <1>4 DEF OpBounds, Twofold
  <2> QED BY <1>7, <1>9, <2>1, <2>2, <2>3, SizeIs, OpTyped
<1>13. q.f \in Flags /\ q.v \in Range0(4)
  BY <1>12 DEF Typed
<1>14. Becomes(cpu', [cpu.d EXCEPT ![r] = q.v], cpu.a, cpu.mem, Ahead(2))
  <2>1. PICK f \in Flags, u \in Range0(4) : f = q.f /\ u = q.v
    BY <1>13
  <2>2. cpu' = PutD([n EXCEPT !.f = f], 4, r, u)
    BY <1>11, <2>1
  <2>3. PICK p : p = cpu' /\ p = PutD([n EXCEPT !.f = f], 4, r, u)
    BY <2>2
  <2>4. Becomes(p, [n.d EXCEPT ![r] = u], n.a, n.mem, n.pc)
    BY <1>4, <1>10, <2>3, LongBecomes
  <2> QED BY <1>10, <2>1, <2>3, <2>4 DEF Becomes
<1>15. InIntegers(i)
  BY <1>2 DEF Exact
<1>16. cpu'.d[r] = q.v
  BY <1>4, <1>14, MachineIs DEF Becomes
<1>17. q.v = Masked(4, QuickSum(i)) /\ ((cpu'.f.z = 1) <=> q.v = 0)
  <2>1. Low1(4, q.v) = q.v /\ Low1(4, cpu.d[r]) = cpu.d[r]
    BY <1>4, <1>13, LongIs DEF Masked, Low1
  <2>2. QuickOne(i) /\ Whole4(cpu.d[i.ea.r]) /\ i.q \in Int /\ Whole4(cpu'.d[i.ea.r])
    <3>1. QuickOne(i)
      BY DEF QuickOne
    <3>2. q.v \in Int
      BY <1>13, LongsAreInt
    <3>3. cpu.d[r] \in Int /\ i.q \in Int
      BY <1>5
    <3> QED BY <1>0, <1>16, <2>1, <3>1, <3>2, <3>3 DEF Whole4
  <2>3. cpu'.d[i.ea.r] = Low1(4, QuickSum(i)) /\ ((cpu'.f.z = 1) <=> cpu'.d[i.ea.r] = 0)
    BY <1>15, <2>2, QuickOutcome
  <2>4. Low1(4, QuickSum(i)) = Masked(4, QuickSum(i))
    BY DEF Low1, Masked
  <2> QED BY <1>0, <1>16, <2>3, <2>4
<1> QED BY <1>0, <1>4, <1>6, <1>14, <1>17

-----------------------------------------------------------------------------
(* Distances.                                                              *)

\* A byte has two digits, and holds a short distance.
LEMMA BytesHold == Half[1] \in Nat /\ Half[1] >= 8 /\ Mod(1) = 2 * Half[1]
<1>1. PICK b \in Nat, m \in Nat, h \in Nat : b = Nibble /\ m = Mod(1) /\ h = Half[1]
  BY Widths, DecimalAssumption DEF Sizes
<1>2. b >= 3 /\ b * b = m /\ m = 2 * h
  BY <1>1, Widths, DecimalAssumption DEF Sizes
<1>3. b # 3
  <2>1. SUFFICES ASSUME b = 3 PROVE FALSE
    OBVIOUS
  <2>2. 9 = 2 * h
    BY <1>2, <2>1
  <2> QED BY <2>2
<1>4. m >= 16
  <2>1. PICK c \in Nat : b = 4 + c
    <3>1. b - 4 \in Nat /\ b = 4 + (b - 4)
      BY <1>1, <1>2, <1>3
    <3> QED BY <3>1
  <2>2. (4 + c) * (4 + c) >= 16
    OBVIOUS
  <2> QED BY <1>2, <2>1, <2>2
<1> QED BY <1>1, <1>2, <1>4

\* A word has two bytes: it holds the distances in a routine.
LEMMA WordsHold == /\ Half[2] \in Nat /\ Half[2] >= 128 /\ Mod(2) = 2 * Half[2]
                   /\ Mod(4) \in Nat /\ Mod(4) >= 65536
<1>1. PICK m \in Nat : m = Mod(1)
  BY Widths DEF Sizes
<1>4. m >= 16
  BY <1>1, BytesHold
<1>5. PICK w \in Nat, l \in Nat : w = m * m /\ l = w * w
  <2>1. m * m \in Nat /\ (m * m) * (m * m) \in Nat
    OBVIOUS
  <2> QED BY <2>1
<1>6. w >= 256
  <2>1. PICK c \in Nat : m = 16 + c
    <3>1. m - 16 \in Nat /\ m = 16 + (m - 16)
      BY <1>4
    <3> QED BY <3>1
  <2>2. (16 + c) * (16 + c) >= 256
    OBVIOUS
  <2> QED BY <1>5, <2>1, <2>2
<1>7. l >= 65536
  <2>1. PICK c \in Nat : w = 256 + c
    <3>1. w - 256 \in Nat /\ w = 256 + (w - 256)
      BY <1>6
    <3> QED BY <3>1
  <2>2. (256 + c) * (256 + c) >= 65536
    OBVIOUS
  <2> QED BY <1>5, <2>1, <2>2
<1>8. Mod(2) = w /\ Mod(4) = l
  BY <1>1, <1>5, Widths
<1>9. PICK g \in Nat : g = Half[2]
  BY Widths DEF Sizes
<1>10. w = 2 * g
  BY <1>8, <1>9, Widths DEF Sizes
<1>11. g >= 128
  BY <1>6, <1>10
<1> QED BY <1>5, <1>7, <1>8, <1>9, <1>10, <1>11

\* A distance backwards, as the word of a branch.
LEMMA BackIs ==
  ASSUME NEW k \in 1..128
  PROVE  Masked(2, -k) \in Range0(2) /\ Signed(2, Masked(2, -k)) = -k
<1>1. PICK g \in Nat, m \in Nat \ {0} : g = Half[2] /\ m = Mod(2)
  BY WordsHold
<1>2. g >= 128 /\ m = 2 * g
  BY <1>1, WordsHold
<1>3. (-k) % m = m - k
  <2>1. -k = m * (-1) + (m - k) /\ m - k \in 0..(m - 1) /\ -k \in Int
    BY <1>2
  <2> QED BY <2>1, DivMod
<1>4. m - k >= g /\ m - k - m = -k /\ ~(m - k < g) /\ m - k \in 0..(m - 1)
  BY <1>2
<1> QED BY <1>1, <1>3, <1>4 DEF Masked, Signed, Range0

-----------------------------------------------------------------------------
(* A loop that counts.                                                     *)

\* The addresses of a routine's lines: they are longs.
LEMMA LineAddress ==
  ASSUME code \in Programs, NEW k \in Nat, Org + k \in DOMAIN code
  PROVE  Org \in Int /\ Org + k \in Range0(4) /\ Masked(4, Org + k) = Org + k
<1>1. Org + k \in Range0(4) /\ Org \in Range0(4)
  BY ProgramAssumption
<1> QED BY <1>1, LongsAreInt, LongIs

\* The first address behind a short routine is not one in it.
LEMMA BehindLines ==
  ASSUME code \in Programs, Org + 2 \in DOMAIN code
  PROVE  Masked(4, Org + 6) \notin {Org, Org + 2}
<1>1. PICK o \in Int, l \in Nat \ {0} : o = Org /\ l = Mod(4)
  BY ProgramAssumption, LongsAreInt, LongIs
<1>2. o \in 0..(l - 1) /\ l >= 65536
  BY <1>1, WordsHold, ProgramAssumption DEF Range0
<1>4. CASE o + 6 < l
  <2>1. (o + 6) % l = o + 6
    BY <1>2, <1>4
  <2> QED BY <1>1, <2>1 DEF Masked
<1>5. CASE o + 6 >= l
  <2>1. PICK k \in Int, v \in Int : k = 1 /\ v = o + 6
    OBVIOUS
  <2>2. k * l <= v /\ v < k * l + l
    BY <1>2, <1>5, <2>1
  <2>4. v % l = v - k * l
    BY <2>2, DivIs
  <2>5. v - k * l = o + 6 - 1 * l
    BY <2>1
  <2>3. o + 6 - 1 * l # o /\ o + 6 - 1 * l # o + 2
    BY <1>2
  <2> QED BY <1>1, <2>1, <2>3, <2>4, <2>5 DEF Masked
<1> QED BY <1>2, <1>4, <1>5

\* A step of a routine that is not the test program.
LEMMA RoutineStep ==
  ASSUME IInv, Next, code # TestCode
  PROVE  start' = start /\ code' = code /\ (cpu' = cpu \/ (Running /\ ~Unready /\ Quiet))
<1>1. CASE Ended
  BY <1>1 DEF Ended
<1>2. CASE ~Ended
  <2>1. ~Unready
    BY DEF Unready
  <2>2. Running /\ Quiet
    BY <1>2, <2>1, HandlersAre DEF Next, Handling
  <2> QED BY <2>1, <2>2 DEF Quiet
<1> QED BY <1>1, <1>2

-----------------------------------------------------------------------------
\* The loop of Counting: n rounds are left after j of them, and one more.
Rounds == start.d[2] % Mod(2)
Counted(j, more) ==
  /\ cpu.d[2] = start.d[2] - j
  /\ cpu.d[3] = Masked(4, start.d[3] + j + more)
CountEnd ==
  /\ cpu.d[3] = Masked(4, start.d[3] + Rounds + 1)
  /\ cpu.d[2] = start.d[2] - Rounds + Mod(2) - 1
CountInv ==
  code = Counting =>
    \/ cpu.pc = Org /\ \E j \in 0..Rounds : Counted(j, 0)
    \/ cpu.pc = Org + 2 /\ \E j \in 0..Rounds : Counted(j, 1)
    \/ cpu.pc = Masked(4, Org + 6) /\ CountEnd

\* The two lines of Counting.
LEMMA CountingLines ==
  ASSUME code = Counting
  PROVE  /\ DOMAIN code = {Org, Org + 2}
         /\ cpu.pc = Org => Instr = OneMore("addq", 1, D(3))
         /\ cpu.pc = Org + 2 => Instr = Dbf(2, 0, 2)
<1>1. Org \in Int
  BY ProgramAssumption, LongsAreInt
<1>2. Org + 2 # Org
  BY <1>1
<1> QED BY <1>2 DEF Counting, Instr

\* Counting is not the test program.
LEMMA CountingIsNotTest == Counting # TestCode
<1>1. PICK o \in Int : o = Org
  BY ProgramAssumption, LongsAreInt
<1>2. Org + 70 \in DOMAIN TestCode
  BY DEF TestCode, Lines
<1>3. Org + 70 \notin DOMAIN Counting
  <2>1. o + 70 # o /\ o + 70 # o + 2
    OBVIOUS
  <2> QED BY <1>1, <2>1 DEF Counting
<1> QED BY <1>2, <1>3

\* The start of the program: its registers are longs.
LEMMA StartIs ==
  ASSUME TypeOK
  PROVE  /\ start \in Machine /\ start.d[2] \in Range0(4) /\ start.d[2] \in Nat
            /\ start.d[3] \in Nat
         /\ Rounds \in 0..(Mod(2) - 1) /\ Rounds \in Nat
<1>1. start \in Machine /\ 2 \in Registers /\ 3 \in Registers
  BY DEF TypeOK, Registers
<1>2. start.d[2] \in Range0(4) /\ start.d[3] \in Range0(4)
  BY <1>1, MachineIs
<1>3. start.d[2] \in Nat /\ start.d[3] \in Nat
  BY <1>2, LongIs
<1>4. Rounds \in Range0(2)
  <2>1. PICK v \in Int : v = start.d[2]
    BY <1>3
  <2> QED BY <2>1, MaskedRange, SizeIs DEF Rounds, Masked
<1>5. Range0(2) = 0..(Mod(2) - 1) /\ Mod(2) \in Int
  BY WordsHold DEF Range0
<1> QED BY <1>1, <1>2, <1>3, <1>4, <1>5

\* The word in the counter register, after j rounds.
Turns(d, m, n, j) == n = d % m /\ j \in 0..n
TurnsLeft(d, m, n, j) ==
  /\ (d - j) % m = n - j
  /\ j < n => (d - j - 1) % m = n - j - 1
  /\ j = n => (d - j - 1) % m = m - 1

\* The remainder of a number that counts down, until it is below 0.
LEMMA RoundsLeft ==
  ASSUME NEW d \in Nat, NEW m \in Nat \ {0}, NEW n, NEW j, Turns(d, m, n, j)
  PROVE  TurnsLeft(d, m, n, j)
<1>0. n = d % m /\ j \in 0..n
  BY DEF Turns
<1>1. PICK q \in Int, r \in 0..(m - 1) : r = n /\ d = q * m + r
  <2>1. PICK q \in Int, r \in 0..(m - 1) : q = d \div m /\ r = d % m /\ d = q * m + r
        /\ q * m \in Int
    BY DivMod
  <2> QED BY <1>0, <2>1
<1>2. PICK p \in Int : p = q * m /\ d = p + r
  BY <1>1
<1>3. j \in 0..r
  BY <1>0, <1>1
<1>4. (d - j) % m = r - j
  <2>1. d - j \in Int /\ q * m <= d - j /\ d - j < q * m + m
    BY <1>2, <1>3
  <2>2. d - j - q * m = r - j
    BY <1>2, <1>3
  <2> QED BY <2>1, <2>2, DivIs
<1>5. ASSUME j < r PROVE (d - j - 1) % m = r - j - 1
  <2>1. d - j - 1 \in Int /\ q * m <= d - j - 1 /\ d - j - 1 < q * m + m
    BY <1>2, <1>3, <1>5
  <2>2. d - j - 1 - q * m = r - j - 1
    BY <1>2, <1>3
  <2> QED BY <2>1, <2>2, DivIs
<1>6. ASSUME j = r PROVE (d - j - 1) % m = m - 1
  <2>1. (q - 1) * m = p - m
    BY <1>2
  <2>2. d - j - 1 \in Int /\ (q - 1) * m <= d - j - 1 /\ d - j - 1 < (q - 1) * m + m
    BY <1>2, <1>3, <1>6, <2>1
  <2>3. d - j - 1 - (q - 1) * m = m - 1
    BY <1>2, <1>3, <1>6, <2>1
  <2>4. q - 1 \in Int
    OBVIOUS
  <2> QED BY <2>2, <2>3, <2>4, DivIs
<1> QED BY <1>1, <1>4, <1>5, <1>6 DEF TurnsLeft

-----------------------------------------------------------------------------
\* One round: addq.l #1,d3.
LEMMA CountsOne ==
  ASSUME IInv, TypeOK', Next, Running, ~Unready, code = Counting, start' = start,
         cpu.pc = Org, NEW j \in 0..Rounds, Counted(j, 0)
  PROVE  cpu'.pc = Org + 2 /\ Counted(j, 1)'
<1>1. PICK i : i = Instr
  OBVIOUS
<1>2. i = OneMore("addq", 1, D(3))
  BY <1>1, CountingLines
<1>3. /\ i.name = "addq" /\ i.z = 4 /\ i.form = "" /\ i.ea.mode = "d" /\ i.ea.r = 3 /\ i.q = 1
  BY <1>2 DEF OneMore, Plain, D, None
<1>4. IsInstruction(i) /\ Handlers(i) /\ cpu \in Machine
  BY <1>1, StepOwn
<1>5. Becomes(cpu', [cpu.d EXCEPT ![i.ea.r] = Masked(4, QuickSum(i))], cpu.a, cpu.mem, Ahead(2))
  BY <1>3, <1>4, QuickBecomes
<1>6. QuickSum(i) = cpu.d[3] + 1
  BY <1>3 DEF QuickSum
<1>7. cpu.d \in [Registers -> Range0(4)] /\ 2 \in Registers /\ 3 \in Registers
  BY <1>4, MachineIs DEF Registers
<1>8. /\ cpu'.d[3] = Masked(4, cpu.d[3] + 1) /\ cpu'.d[2] = cpu.d[2]
      /\ cpu'.pc = Ahead(2)
  <2>1. PICK v, ds : v = Masked(4, QuickSum(i)) /\ ds = [cpu.d EXCEPT ![3] = v]
    OBVIOUS
  <2>2. cpu'.d = ds /\ cpu'.pc = Ahead(2)
    BY <1>3, <1>5, <2>1 DEF Becomes
  <2>3. ds[3] = v /\ ds[2] = cpu.d[2]
    BY <1>7, <2>1
  <2> QED BY <1>6, <2>1, <2>2, <2>3
<1>9. cpu'.pc = Org + 2
  BY <1>8, LineAddress, CountingLines DEF Ahead, IInv
<1>10. PICK a \in Int, k \in Int : a = start.d[3] /\ k = j
  BY StartIs DEF IInv
<1>11. Masked(4, Masked(4, a + k + 0) + 1) = Masked(4, a + k + 1)
  <2>1. PICK u \in Int : u = a + k + 0
    OBVIOUS
  <2>2. Masked(4, Masked(4, u) + 1) = Masked(4, u + 1)
    BY SizeIs, MaskedSum
  <2>3. u + 1 = a + k + 1
    BY <2>1
  <2> QED BY <2>1, <2>2, <2>3
<1>12. cpu'.d[3] = Masked(4, start'.d[3] + j + 1) /\ cpu'.d[2] = start'.d[2] - j
  BY <1>8, <1>10, <1>11 DEF Counted
<1> QED BY <1>9, <1>12 DEF Counted

\* The end of a round: dbf d2.
LEMMA CountsDown ==
  ASSUME IInv, TypeOK', Next, Running, ~Unready, code = Counting, start' = start,
         cpu.pc = Org + 2, NEW j \in 0..Rounds, Counted(j, 1)
  PROVE  \/ j < Rounds /\ cpu'.pc = Org /\ Counted(j + 1, 0)'
         \/ j = Rounds /\ cpu'.pc = Masked(4, Org + 6) /\ CountEnd'
<1>1. PICK i : i = Instr
  OBVIOUS
<1>2. i = Dbf(2, 0, 2)
  BY <1>1, CountingLines
<1>3. i.name = "dbf" /\ i.ea.r = 2 /\ i.q = Masked(2, -4)
  <2>1. 0 - 2 - 2 = -4
    OBVIOUS
  <2> QED BY <1>2, <2>1 DEF Dbf, Plain, D, None
<1>4. IsInstruction(i) /\ dbf_16(i) /\ cpu \in Machine
  BY <1>1, <1>3, StepOwn DEF Own
<1>5. PICK m \in Nat \ {0}, n \in Nat, d \in Nat, h \in Nat : m = Mod(2) /\ n = Rounds
      /\ d = start.d[2] /\ h = start.d[3]
  BY WordsHold, StartIs DEF IInv
<1>6. n = d % m /\ j \in 0..n /\ cpu.d[2] = d - j
  BY <1>5 DEF Counted, Rounds
<1>7. PICK c : c = Masked(2, cpu.d[2] - 1)
  OBVIOUS
<1>8. c = (d - j - 1) % m
  BY <1>5, <1>6, <1>7 DEF Masked
<1>9. TurnsLeft(d, m, n, j)
  <2>1. Turns(d, m, n, j)
    BY <1>6 DEF Turns
  <2> QED BY <2>1, RoundsLeft
<1>10. /\ Masked(2, cpu.d[2]) = n - j
       /\ j < n => c = n - j - 1
       /\ j = n => c = m - 1
  BY <1>5, <1>6, <1>8, <1>9 DEF Masked, TurnsLeft
<1>11. Becomes(cpu', [cpu.d EXCEPT ![2] = @ - Masked(2, @) + c], cpu.a, cpu.mem,
               IF c # Mod(2) - 1 THEN Ahead(2 + Signed(2, i.q)) ELSE Ahead(4))
  BY <1>3, <1>4, <1>7, DbfBecomes
<1>12. cpu.d \in [Registers -> Range0(4)] /\ 2 \in Registers /\ 3 \in Registers
  BY <1>4, MachineIs DEF Registers
<1>13. /\ cpu'.d[2] = d - j - (n - j) + c /\ cpu'.d[3] = cpu.d[3]
       /\ cpu'.pc = IF c # Mod(2) - 1 THEN Ahead(2 + Signed(2, i.q)) ELSE Ahead(4)
  BY <1>6, <1>10, <1>11, <1>12 DEF Becomes
<1>14. PICK o \in Int : o = Org
  BY ProgramAssumption, LongsAreInt
<1>15. CASE j < n
  <2>1. n < m
    BY <1>5, StartIs DEF IInv
  <2>2. c = n - j - 1 /\ c # m - 1 /\ d - j - (n - j) + c = d - (j + 1)
    BY <1>6, <1>10, <1>15, <2>1
  <2>3. cpu'.d[2] = start.d[2] - (j + 1)
    BY <1>5, <1>13, <2>2
  <2>4. cpu'.d[3] = Masked(4, start.d[3] + (j + 1) + 0)
    <3>1. h + j + 1 = h + (j + 1) + 0
      BY <1>6
    <3> QED BY <1>5, <1>13, <3>1 DEF Counted
  <2>5. cpu'.pc = Org
    <3>1. -4 \in Int /\ 4 \in 1..128
      OBVIOUS
    <3>2. Signed(2, i.q) = -4
      BY <1>3, <3>1, BackIs
    <3>3. o + 2 + (2 + -4) = o
      BY <1>14
    <3>4. cpu'.pc = Masked(4, o + 2 + (2 + -4))
      BY <1>5, <1>13, <1>14, <2>2, <3>2 DEF Ahead
    <3>5. Masked(4, o) = o
      BY <1>14, ProgramAssumption, LongIs
    <3> QED BY <1>14, <3>3, <3>4, <3>5
  <2> QED BY <1>5, <1>15, <2>3, <2>4, <2>5 DEF Counted
<1>16. CASE j = n
  <2>1. c = m - 1 /\ d - j - (n - j) + c = d - n + m - 1
    BY <1>6, <1>10, <1>16
  <2>2. cpu'.d[2] = start.d[2] - Rounds + Mod(2) - 1
    BY <1>5, <1>13, <2>1
  <2>3. cpu'.d[3] = Masked(4, start.d[3] + Rounds + 1)
    BY <1>5, <1>13, <1>16 DEF Counted
  <2>4. cpu'.pc = Masked(4, Org + 6)
    <3>1. o + 2 + 4 = o + 6
      BY <1>14
    <3> QED BY <1>5, <1>13, <1>14, <2>1, <3>1 DEF Ahead
  <2> QED BY <1>5, <1>16, <2>2, <2>3, <2>4 DEF CountEnd, Rounds
<1> QED BY <1>5, <1>6, <1>15, <1>16

-----------------------------------------------------------------------------
\* The loop begins with no round done.
LEMMA CountStarts == ASSUME InitTest PROVE CountInv
<1>1. SUFFICES ASSUME code = Counting PROVE cpu.pc = Org /\ \E j \in 0..Rounds : Counted(j, 0)
  BY DEF CountInv
<1>2. IInv
  BY Initially
<1>3. start = cpu /\ cpu.pc = Org
  <2>1. PICK m \in Images(code) : cpu = [m EXCEPT !.pc = Org]
    BY DEF InitTest, Init
  <2>2. m \in Machine
    BY <1>2, ProgramAssumption DEF IInv
  <2> QED BY <2>1, <2>2 DEF Machine, InitTest, Init
<1>4. PICK d \in Nat, h \in Nat : d = start.d[2] /\ h = start.d[3]
  BY <1>2, StartIs DEF IInv
<1>5. 0 \in 0..Rounds /\ d - 0 = d /\ h + 0 + 0 = h
  BY <1>2, <1>4, StartIs DEF IInv
<1>6. Masked(4, h) = h
  <2>1. start.d[3] \in Range0(4)
    BY <1>2, MachineIs DEF IInv, TypeOK, Registers
  <2> QED BY <1>4, <2>1, LongIs
<1>7. Counted(0, 0)
  BY <1>3, <1>4, <1>5, <1>6 DEF Counted
<1> QED BY <1>3, <1>5, <1>7

\* Every step keeps CountInv.
LEMMA CountStays == ASSUME IInv, IInv', CountInv, [Next]_vars PROVE CountInv'
<1>1. CASE UNCHANGED vars
  BY <1>1 DEF CountInv, Counted, CountEnd, Rounds, vars
<1>2. CASE Next
  <2>1. SUFFICES ASSUME code' = Counting PROVE CountInv'
    BY DEF CountInv
  <2>2. code = Counting /\ start' = start
    <3>1. CASE Running
      BY <1>2, <2>1, <3>1, StepsRight
    <3>2. CASE ~Running
      <4>1. Ended
        BY <1>2, <3>2, HandlersAre DEF Next, Handling, Unready
      <4> QED BY <2>1, <4>1 DEF Ended
    <3> QED BY <3>1, <3>2
  <2>3. CASE cpu' = cpu
    BY <2>2, <2>3 DEF CountInv, Counted, CountEnd, Rounds
  <2>4. CASE Running /\ ~Unready
    <3>1. Rounds' = Rounds
      BY <2>2 DEF Rounds
    <3>2. CASE cpu.pc = Org /\ \E j \in 0..Rounds : Counted(j, 0)
      <4>1. PICK j \in 0..Rounds : Counted(j, 0)
        BY <3>2
      <4>2. cpu'.pc = Org + 2 /\ Counted(j, 1)'
        BY <1>2, <2>2, <2>4, <3>2, <4>1, CountsOne DEF IInv
      <4> QED BY <3>1, <4>2 DEF CountInv
    <3>3. CASE cpu.pc = Org + 2 /\ \E j \in 0..Rounds : Counted(j, 1)
      <4>1. PICK j \in 0..Rounds : Counted(j, 1)
        BY <3>3
      <4>2. \/ j < Rounds /\ cpu'.pc = Org /\ Counted(j + 1, 0)'
            \/ j = Rounds /\ cpu'.pc = Masked(4, Org + 6) /\ CountEnd'
        BY <1>2, <2>2, <2>4, <3>3, <4>1, CountsDown DEF IInv
      <4>3. j < Rounds => j + 1 \in 0..Rounds
        BY StartIs DEF IInv
      <4> QED BY <3>1, <4>2, <4>3 DEF CountInv
    <3>4. CASE cpu.pc = Masked(4, Org + 6) /\ CountEnd
      <4>1. cpu.pc \in {Org, Org + 2}
        BY <2>2, <2>4, CountingLines DEF Running
      <4>2. Masked(4, Org + 6) \notin {Org, Org + 2}
        BY <2>2, CountingLines, BehindLines DEF IInv
      <4> QED BY <3>4, <4>1, <4>2
    <3> QED BY <2>2, <3>2, <3>3, <3>4 DEF CountInv
  <2>5. code # TestCode
    BY <2>2, CountingIsNotTest
  <2> QED BY <1>2, <2>3, <2>4, <2>5, RoutineStep
<1> QED BY <1>1, <1>2

\* Behind the loop CountInv is CountsRight.
LEMMA CountHolds == ASSUME IInv, CountInv PROVE CountsRight
<1>1. SUFFICES ASSUME code = Counting, cpu.pc = AfterLoop
               PROVE  CountEnd
  BY DEF CountsRight, CountEnd, Rounds
<1>2. PICK o \in Int : o = Org
  BY ProgramAssumption, LongsAreInt
<1>3. o + 6 # o /\ o + 6 # o + 2
  OBVIOUS
<1> QED BY <1>1, <1>2, <1>3 DEF CountInv, AfterLoop

\* CountsRight holds of every program, width and start: dbf goes around once more than the word
\* of its register says (M68KMAKE_OP(dbf, 16, ., .)).
THEOREM Counts == Spec => []CountsRight
<1>1. InitTest => CountInv
  BY CountStarts
<1>2. IInv /\ IInv' /\ CountInv /\ [Next]_vars => CountInv'
  BY CountStays
<1>3. IInv /\ CountInv => CountsRight
  BY CountHolds
<1> QED BY <1>1, <1>2, <1>3, Invariant, PTL DEF Spec

-----------------------------------------------------------------------------
(* Bytes and longs in the memory.                                          *)

\* The long at an address, and a memory that another one becomes when at most z
\* bytes are written, from an address on.
LongIn(M, at) == Read([mem |-> M], 4, at)
Wrote(M, N, z, at) ==
  /\ N \in [Space -> Range0(1)]
  /\ \A b \in Space : N[b] = M[b] \/ (b - at) % AddressSpace < z
WroteLong(M, N, at, v) == Wrote(M, N, 4, at) /\ LongIn(N, at) = v

\* A long does not overlap z bytes that are written, around the address space.
Apart(at, z, c) == c - at \in z..(AddressSpace - 4) \/ at - c \in 4..(AddressSpace - z)

\* A long of a machine is one of its memory.
LEMMA ReadsLong == ASSUME NEW m, NEW at PROVE Read(m, 4, at) = LongIn(m.mem, at)
<1>1. PICK n : n = [mem |-> m.mem]
  OBVIOUS
<1>2. n.mem = m.mem
  BY <1>1
<1> QED BY <1>1, <1>2, SameRead DEF LongIn

\* Bytes from an address on, seen from another one.
LEMMA Distance ==
  ASSUME NEW a \in Nat \ {0}, NEW at \in Int, NEW c \in Int, NEW z \in Nat, NEW k \in 0..3,
         c - at \in z..(a - 4) \/ at - c \in 4..(a - z)
  PROVE  (((c + k) % a) - at) % a >= z
<1>1. PICK x \in Int, y \in Int, w \in Int : x = c + k /\ y = -at /\ w = x + y
  OBVIOUS
<1>2. ((x % a) + y) % a = w % a /\ x % a \in Int
  <2>1. ((x % a) + y) % a = (x + y) % a
    BY ModSum
  <2>2. x % a \in Int
    BY Remainder
  <2> QED BY <1>1, <2>1, <2>2
<1>3. (x % a) - at = (x % a) + y
  BY <1>1, <1>2
<1>4. w % a >= z
  <2>1. CASE c - at \in z..(a - 4)
    <3>1. PICK q \in Int : q = 0
      OBVIOUS
    <3>2. q * a = 0
      BY <3>1
    <3>3. w >= z /\ w < a
      BY <1>1, <2>1
    <3>4. q * a <= w /\ w < q * a + a
      BY <3>2, <3>3
    <3>5. w % a = w - q * a
      BY <3>4, DivIs
    <3> QED BY <3>2, <3>3, <3>5
  <2>2. CASE at - c \in 4..(a - z)
    <3>1. PICK q \in Int : q = -1
      OBVIOUS
    <3>2. q * a = -a
      BY <3>1
    <3>3. w + a >= z /\ w < 0
      BY <1>1, <2>2
    <3>4. q * a <= w /\ w < q * a + a
      BY <3>2, <3>3
    <3>5. w % a = w - q * a
      BY <3>4, DivIs
    <3> QED BY <3>2, <3>3, <3>5
  <2> QED BY <2>1, <2>2
<1> QED BY <1>1, <1>2, <1>3, <1>4

\* A byte that a write does not reach is what it was.
LEMMA ByteApart ==
  ASSUME NEW M, NEW N, NEW at \in Int, NEW z \in Nat, NEW c \in Int, Wrote(M, N, z, at),
         Apart(at, z, c), NEW k \in 0..3
  PROVE  N[(c + k) % AddressSpace] = M[(c + k) % AddressSpace]
<1>1. PICK a \in Nat \ {0} : a = AddressSpace
  BY SpaceIs
<1>2. c - at \in z..(a - 4) \/ at - c \in 4..(a - z)
  BY <1>1 DEF Apart
<1>3. PICK b \in Int : b = (c + k) % a /\ b \in 0..(a - 1)
  <2>1. PICK x \in Int : x = c + k
    OBVIOUS
  <2>2. x % a \in 0..(a - 1)
    BY Remainder
  <2>3. x % a \in Int
    BY <2>2
  <2> QED BY <2>1, <2>2, <2>3
<1>4. (b - at) % a >= z /\ (b - at) % a \in Int
  <2>1. (((c + k) % a) - at) % a >= z
    BY <1>2, Distance
  <2> QED BY <1>3, <2>1
<1>5. b \in Space /\ ~((b - at) % AddressSpace < z)
  BY <1>1, <1>3, <1>4 DEF Space
<1> QED BY <1>1, <1>3, <1>5 DEF Wrote

\* So is a long.
LEMMA LongApart ==
  ASSUME NEW M, NEW N, NEW at \in Int, NEW z \in Nat, NEW c \in Int, Wrote(M, N, z, at),
         Apart(at, z, c)
  PROVE  LongIn(N, c) = LongIn(M, c)
<1>1. PICK m, n : m = [mem |-> M] /\ n = [mem |-> N]
  OBVIOUS
<1>2. \A k \in 0..3 : ByteAt(n, c + k) = ByteAt(m, c + k)
  BY <1>1, ByteApart DEF ByteAt
<1>3. /\ ByteAt(n, c) = ByteAt(m, c) /\ ByteAt(n, c + 1) = ByteAt(m, c + 1)
      /\ ByteAt(n, c + 2 * 1) = ByteAt(m, c + 2 * 1)
      /\ ByteAt(n, c + 2 * 1 + 1) = ByteAt(m, c + 2 * 1 + 1)
  <2>1. c + 0 = c /\ c + 2 * 1 + 1 = c + 3 /\ c + 2 * 1 = c + 2
    OBVIOUS
  <2>2. /\ ByteAt(n, c + 0) = ByteAt(m, c + 0) /\ ByteAt(n, c + 1) = ByteAt(m, c + 1)
        /\ ByteAt(n, c + 2) = ByteAt(m, c + 2) /\ ByteAt(n, c + 3) = ByteAt(m, c + 3)
    BY <1>2
  <2> QED BY <2>1, <2>2
<1> QED BY <1>1, <1>3 DEF Read, ReadEvery, LongIn

\* What a write leaves in the memory.
LEMMA WriteWrote ==
  ASSUME NEW n \in Machine, NEW z \in Sizes, NEW at \in Int, NEW v \in Range0(z),
         NEW p, p = Write(n, z, at, v)
  PROVE  /\ p \in Machine /\ Becomes(p, n.d, n.a, p.mem, n.pc) /\ p.f = n.f
         /\ Wrote(n.mem, p.mem, z, at) /\ (z = 4 => LongIn(p.mem, at) = v)
<1>1. v \in Int
  BY MaskedSame
<1>2. /\ p \in Machine /\ p.d = n.d /\ p.a = n.a /\ p.pc = n.pc /\ p.f = n.f
      /\ \A b \in Space : p.mem[b] = IF (b - at) % AddressSpace < z
                                      THEN ByteOf(z, v, (b - at) % AddressSpace)
                                      ELSE n.mem[b]
  BY <1>1, WriteIs
<1>3. p.mem \in [Space -> Range0(1)]
  BY <1>2, MachineIs
<1>4. Wrote(n.mem, p.mem, z, at)
  BY <1>2, <1>3 DEF Wrote
<1>5. z = 4 => LongIn(p.mem, at) = v
  <2>1. Read(p, z, at) = v
    BY ReadAgain
  <2> QED BY <2>1, ReadsLong
<1> QED BY <1>2, <1>4, <1>5 DEF Becomes

\* An address and the same around the address space.
LEMMA LongAround ==
  ASSUME NEW M \in [Space -> Range0(1)], NEW u \in Int
  PROVE  LongIn(M, Masked(4, u)) = LongIn(M, u)
<1>1. PICK m, v : m = [mem |-> M] /\ v = Masked(4, u)
  OBVIOUS
<1>2. v \in Int
  BY <1>1, LongsAreInt, SizeIs, MaskedRange
<1>3. \A k \in Int : ByteAt(m, v + k) = ByteAt(m, u + k)
  BY <1>1, AroundIs DEF ByteAt
<1>4. /\ ByteAt(m, v) = ByteAt(m, u) /\ ByteAt(m, v + 1) = ByteAt(m, u + 1)
      /\ ByteAt(m, v + 2 * 1) = ByteAt(m, u + 2 * 1)
      /\ ByteAt(m, v + 2 * 1 + 1) = ByteAt(m, u + 2 * 1 + 1)
  <2>1. v + 0 = v /\ u + 0 = u /\ v + 2 * 1 + 1 = v + 3 /\ u + 2 * 1 + 1 = u + 3
        /\ v + 2 * 1 = v + 2 /\ u + 2 * 1 = u + 2
    BY <1>2
  <2>2. /\ ByteAt(m, v + 0) = ByteAt(m, u + 0) /\ ByteAt(m, v + 1) = ByteAt(m, u + 1)
        /\ ByteAt(m, v + 2) = ByteAt(m, u + 2) /\ ByteAt(m, v + 3) = ByteAt(m, u + 3)
    BY <1>3
  <2> QED BY <2>1, <2>2
<1> QED BY <1>1, <1>4 DEF Read, ReadEvery, LongIn

-----------------------------------------------------------------------------
(* Around the address space, and the stack.                                *)

\* Whole rounds do not change a remainder.
LEMMA Multiples ==
  ASSUME NEW x \in Int, NEW k \in Int, NEW a \in Nat \ {0}
  PROVE  (x + k * a) % a = x % a
<1>1. PICK q \in Int, r \in 0..(a - 1) : q = x \div a /\ r = x % a /\ x = q * a + r
      /\ q * a \in Int
  BY DivMod
<1>2. PICK j \in Int, y \in Int, w \in Int : j = q + k /\ w = k * a /\ y = x + w
  OBVIOUS
<1>3. j * a = q * a + w
  BY <1>2
<1>4. j * a <= y /\ y < j * a + a /\ r = y - j * a
  BY <1>1, <1>2, <1>3
<1>5. y % a = r
  BY <1>4, DivIs
<1> QED BY <1>1, <1>2, <1>5

\* Around the address space, seen from a byte.
LEMMA AroundLess ==
  ASSUME NEW b \in Int, NEW u \in Int
  PROVE  (b - Masked(4, u)) % AddressSpace = (b - u) % AddressSpace
<1>1. PICK a \in Nat \ {0}, r \in Int : a = AddressSpace /\ r = Masked(4, u)
  BY SpaceIs, LongsAreInt, SizeIs, MaskedRange
<1>2. r % a = u % a
  <2>1. PICK k \in Int : k = 0
    OBVIOUS
  <2>2. (r + k) % a = (u + k) % a
    BY <1>1, AroundIs
  <2>3. r + k = r /\ u + k = u
    BY <2>1
  <2> QED BY <2>2, <2>3
<1>3. PICK p \in Int, t \in 0..(a - 1) : p = r \div a /\ t = r % a /\ r = p * a + t
      /\ p * a \in Int
  BY DivMod
<1>4. PICK q \in Int, s \in 0..(a - 1) : q = u \div a /\ s = u % a /\ u = q * a + s
      /\ q * a \in Int
  BY DivMod
<1>5. PICK x \in Int, y \in Int, k \in Int : x = b - u /\ y = b - r /\ k = q - p
  OBVIOUS
<1>6. k * a = q * a - p * a
  BY <1>5
<1>7. y = x + k * a
  BY <1>2, <1>3, <1>4, <1>5, <1>6
<1>8. (x + k * a) % a = x % a
  BY Multiples
<1> QED BY <1>1, <1>5, <1>7, <1>8

\* What was written at a masked address was written at the address.
LEMMA WroteAround ==
  ASSUME NEW M, NEW N, NEW z, NEW u \in Int, Wrote(M, N, z, Masked(4, u))
  PROVE  Wrote(M, N, z, u)
<1>1. \A b \in Space : b \in Int
  BY SpaceIs DEF Space
<1>2. \A b \in Space : (b - Masked(4, u)) % AddressSpace = (b - u) % AddressSpace
  BY <1>1, AroundLess
<1> QED BY <1>2 DEF Wrote

\* The machine after a push, and the address registers.
StackedA(a, k) == [a EXCEPT ![7] = Masked(4, a[7] + k)]

\* A push moves the stack pointer, and writes below it.
LEMMA PushBecomes ==
  ASSUME NEW n \in Machine, NEW v \in Range0(4), NEW p, p = Push(n, v)
  PROVE  /\ p \in Machine /\ Becomes(p, n.d, StackedA(n.a, -4), p.mem, n.pc) /\ p.f = n.f
         /\ WroteLong(n.mem, p.mem, n.a[7] - 4, v)
<1>1. PICK u \in Int : u = n.a[7] - 4
  BY MachineIs DEF Registers
<1>2. PICK s, t : s \in Range0(4) /\ s = Masked(4, u) /\ t = [n EXCEPT !.a[7] = s]
  BY SizeIs, MaskedRange
<1>3. t \in Machine /\ t.d = n.d /\ t.mem = n.mem /\ t.pc = n.pc /\ t.f = n.f
      /\ t.a = [n.a EXCEPT ![7] = s]
  BY <1>2 DEF Machine, Registers
<1>4. p = Write(t, 4, s, v)
  BY <1>1, <1>2 DEF Push
<1>5. s \in Int
  BY <1>2, LongsAreInt
<1>6. /\ p \in Machine /\ Becomes(p, t.d, t.a, p.mem, t.pc) /\ p.f = t.f
      /\ Wrote(t.mem, p.mem, 4, s) /\ LongIn(p.mem, s) = v
  BY <1>3, <1>4, <1>5, SizeIs, WriteWrote
<1>7. Wrote(n.mem, p.mem, 4, u)
  BY <1>2, <1>3, <1>6, WroteAround
<1>8. LongIn(p.mem, u) = v
  BY <1>2, <1>6, LongAround, MachineIs
<1>9. StackedA(n.a, -4) = t.a
  <2>1. PICK w \in Int : w = n.a[7]
    BY MachineIs DEF Registers
  <2>2. w + -4 = w - 4
    OBVIOUS
  <2> QED BY <1>1, <1>2, <1>3, <2>1, <2>2 DEF StackedA
<1> QED BY <1>1, <1>3, <1>6, <1>7, <1>8, <1>9 DEF WroteLong

\* The counter of a machine is set.
LEMMA GoneBecomes ==
  ASSUME NEW n \in Machine, NEW ds, NEW as, NEW M, NEW c, Becomes(n, ds, as, M, c),
         NEW e, NEW p, p = [n EXCEPT !.pc = e]
  PROVE  Becomes(p, ds, as, M, e) /\ p.f = n.f
BY DEF Machine, Becomes

\* A register list, an address register, or the room on a stack.
LEMMA PutABecomes ==
  ASSUME NEW n \in Machine, NEW ds, NEW as, NEW M, NEW c, Becomes(n, ds, as, M, c),
         NEW r, NEW v, NEW p, p = PutA(n, r, v)
  PROVE  Becomes(p, ds, [as EXCEPT ![r] = Masked(4, v)], M, c) /\ p.f = n.f
BY DEF Machine, Becomes, PutA

\* An address register takes a long.
LEMMA PutATyped ==
  ASSUME NEW n \in Machine, NEW r \in Registers, NEW v \in Int, NEW p, p = PutA(n, r, v)
  PROVE  p \in Machine
<1>1. Masked(4, v) \in Range0(4)
  BY SizeIs, MaskedRange
<1> QED BY <1>1 DEF PutA, Machine

-----------------------------------------------------------------------------
(* What calls, returns and link leave.                                     *)

\* What a subroutine is called with, and returns with.
CallBecomes(after, aim) ==
  /\ Becomes(cpu', cpu.d, StackedA(cpu.a, -4), cpu'.mem, aim)
  /\ WroteLong(cpu.mem, cpu'.mem, cpu.a[7] - 4, after)

\* bsr with a distance of 8 bits.
LEMMA BsrBecomes ==
  ASSUME cpu \in Machine, NEW i, IsInstruction(i), bsr_8(i)
  PROVE  CallBecomes(Ahead(2), Ahead(2 + Signed(1, i.q)))
<1>1. PICK n : n = Fetched
  OBVIOUS
<1>2. n \in Machine /\ Becomes(n, cpu.d, cpu.a, cpu.mem, Ahead(2))
  BY <1>1, WordsBecome
<1>3. i.q \in Range0(1)
  BY DEF IsInstruction, bsr_8, Does
<1>4. PICK v \in Range0(4) : v = n.pc /\ v = Ahead(2)
  BY <1>2, MachineIs DEF Becomes
<1>5. PICK p : p = Push(n, v)
  OBVIOUS
<1>6. /\ p \in Machine /\ Becomes(p, n.d, StackedA(n.a, -4), p.mem, n.pc)
      /\ WroteLong(n.mem, p.mem, n.a[7] - 4, v)
  BY <1>2, <1>5, PushBecomes
<1>7. PICK c : c = Masked(4, Fetched.pc + MakeInt(1, i.q))
  OBVIOUS
<1>8. c = Ahead(2 + Signed(1, i.q))
  <2>1. c = Masked(4, cpu.pc + 2 + Signed(1, i.q))
    BY <1>3, <1>7, AimIs, SizeIs
  <2>2. PICK s \in Int, t \in Int : s = Signed(1, i.q) /\ t = cpu.pc
    BY <1>3, SignedIs, SizeIs, MachineIs
  <2>3. t + 2 + s = t + (2 + s)
    BY <2>2
  <2> QED BY <2>1, <2>2, <2>3 DEF Ahead
<1>9. cpu' = [p EXCEPT !.pc = c]
  BY <1>1, <1>4, <1>5, <1>7 DEF bsr_8, Branch
<1>10. Becomes(cpu', n.d, StackedA(n.a, -4), p.mem, c)
  BY <1>6, <1>9, GoneBecomes
<1> QED BY <1>2, <1>4, <1>6, <1>8, <1>10 DEF Becomes, CallBecomes

\* A long behind the opcode is an address.
LEMMA AbsoluteIs ==
  ASSUME NEW m \in Machine, NEW z, NEW o, o.mode = "al", o.e \in Range0(4)
  PROVE  Ea(m, z, o) = [at |-> o.e, m |-> Skip(m, 2)]
<1>1. Masked(4, o.e) = o.e
  BY LongIs
<1> QED BY <1>1 DEF Ea

\* jsr to an absolute address.
LEMMA JsrBecomes ==
  ASSUME cpu \in Machine, NEW i, IsInstruction(i), jsr_32(i), i.ea.mode = "al"
  PROVE  CallBecomes(Ahead(6), i.ea.e)
<1>1. PICK n, e : n = Skip(Fetched, 2) /\ e = Ea(Fetched, 4, i.ea)
  OBVIOUS
<1>2. n \in Machine /\ Becomes(n, cpu.d, cpu.a, cpu.mem, Ahead(6))
  BY <1>1, WordsBecome
<1>3. i.ea.e \in Range0(4)
  BY DEF IsInstruction, IsOperand
<1>4. e = [at |-> i.ea.e, m |-> n]
  BY <1>1, <1>3, AbsoluteIs, WordsBecome
<1>5. PICK v \in Range0(4) : v = n.pc /\ v = Ahead(6)
  BY <1>2, MachineIs DEF Becomes
<1>6. PICK p : p = Push(n, v)
  OBVIOUS
<1>7. /\ p \in Machine /\ Becomes(p, n.d, StackedA(n.a, -4), p.mem, n.pc)
      /\ WroteLong(n.mem, p.mem, n.a[7] - 4, v)
  BY <1>2, <1>6, PushBecomes
<1>8. cpu' = [Push(e.m, e.m.pc) EXCEPT !.pc = e.at]
  BY <1>1 DEF jsr_32
<1>9. cpu' = [p EXCEPT !.pc = i.ea.e]
  BY <1>4, <1>5, <1>6, <1>8
<1>10. Becomes(cpu', n.d, StackedA(n.a, -4), p.mem, i.ea.e)
  BY <1>7, <1>9, GoneBecomes
<1> QED BY <1>2, <1>5, <1>7, <1>10 DEF Becomes, CallBecomes

\* rts goes where the long on the stack says.
LEMMA RtsBecomes ==
  ASSUME cpu \in Machine, NEW i, rts_32(i)
  PROVE  Becomes(cpu', cpu.d, StackedA(cpu.a, 4), cpu.mem, LongIn(cpu.mem, cpu.a[7]))
<1>1. PICK n : n = Fetched
  OBVIOUS
<1>2. n \in Machine /\ Becomes(n, cpu.d, cpu.a, cpu.mem, Ahead(2))
  BY <1>1, WordsBecome
<1>3. cpu' = [Pulled(n, 4) EXCEPT !.pc = Read(n, 4, n.a[7])]
  BY <1>1 DEF rts_32, Return
<1>4. PICK v : v = Read(n, 4, n.a[7])
  OBVIOUS
<1>5. v = LongIn(cpu.mem, cpu.a[7])
  BY <1>2, <1>4, ReadsLong DEF Becomes
<1>6. cpu' = [[n EXCEPT !.a[7] = Masked(4, @ + 4)] EXCEPT !.pc = v]
  BY <1>3, <1>4 DEF Pulled
<1>7. Becomes(cpu', n.d, [n.a EXCEPT ![7] = Masked(4, @ + 4)], n.mem, v)
  BY <1>2, <1>6 DEF Machine, Becomes
<1> QED BY <1>2, <1>5, <1>7 DEF Becomes, StackedA

\* A frame: the register is kept, points to where it is, and the stack is
\* below.
LEMMA LinkBecomes ==
  ASSUME cpu \in Machine, NEW i, IsInstruction(i), link_16(i), NEW r, r = i.ea.r
  PROVE  /\ Becomes(cpu', cpu.d,
                    [cpu.a EXCEPT ![r] = Masked(4, cpu.a[7] - 4),
                                  ![7] = Masked(4, cpu.a[7] - 4 + Signed(2, i.q))],
                    cpu'.mem, Ahead(4))
         /\ WroteLong(cpu.mem, cpu'.mem, cpu.a[7] - 4, cpu.a[r])
<1>1. PICK n : n = Fetched
  OBVIOUS
<1>2. n \in Machine /\ Becomes(n, cpu.d, cpu.a, cpu.mem, Ahead(2))
  BY <1>1, WordsBecome
<1>3. i.q \in Range0(2) /\ i.z = 2 /\ r \in Registers /\ r # 7
  BY DEF IsInstruction, IsOperand, link_16, Does
<1>4. PICK v \in Range0(4) : v = cpu.a[r]
  BY <1>3, MachineIs
<1>5. PICK m : m = Push(n, v)
  OBVIOUS
<1>6. /\ m \in Machine /\ Becomes(m, n.d, StackedA(n.a, -4), m.mem, n.pc)
      /\ WroteLong(n.mem, m.mem, n.a[7] - 4, v)
  BY <1>2, <1>5, PushBecomes
<1>7. PICK t \in Int, s \in Int, j \in Int : t = cpu.a[7] - 4 /\ s = Masked(4, t)
      /\ j = MakeInt(2, i.q)
  <2>1. PICK t \in Int : t = cpu.a[7] - 4
    BY MachineIs DEF Registers
  <2>2. Masked(4, t) \in Int
    BY SizeIs, MaskedRange, LongsAreInt
  <2>3. MakeInt(2, i.q) \in Int
    BY <1>3, SignedIs, SizeIs
  <2> QED BY <2>1, <2>2, <2>3
<1>8. m.a = [cpu.a EXCEPT ![7] = s] /\ m.a[7] = s
  <2>1. m.a = StackedA(cpu.a, -4)
    BY <1>2, <1>6 DEF Becomes
  <2>2. PICK u \in Int : u = cpu.a[7]
    BY MachineIs DEF Registers
  <2>3. u + -4 = u - 4
    OBVIOUS
  <2>4. m.a = [cpu.a EXCEPT ![7] = s]
    BY <1>7, <2>1, <2>2, <2>3 DEF StackedA
  <2>5. cpu.a \in [Registers -> Range0(4)] /\ 7 \in Registers
    BY MachineIs DEF Registers
  <2> QED BY <2>4, <2>5
<1>9. Masked(4, s) = s
  <2>1. s \in Range0(4)
    BY <1>7, SizeIs, MaskedRange
  <2> QED BY <2>1, LongIs
<1>10. PICK p : p = PutA(m, r, s)
  OBVIOUS
<1>11. p \in Machine /\ Becomes(p, m.d, [m.a EXCEPT ![r] = s], m.mem, m.pc)
  <2>1. Becomes(m, m.d, m.a, m.mem, m.pc)
    BY DEF Becomes
  <2> QED BY <1>3, <1>6, <1>9, <1>10, <2>1, PutABecomes, PutATyped
<1>12. PICK q : q = Skip(p, 1)
  OBVIOUS
<1>13. PICK k \in Nat : k = 1 /\ 2 * k = 2
  OBVIOUS
<1>14. q \in Machine /\ Becomes(q, p.d, p.a, p.mem, Masked(4, p.pc + 2))
  <2>1. q \in Machine
    BY <1>11, <1>12, <1>13, SkipSteps
  <2>2. q = [p EXCEPT !.pc = Masked(4, p.pc + 2)]
    BY <1>12, <1>13 DEF Skip
  <2> QED BY <1>11, <2>1, <2>2, GoneBecomes DEF Becomes
<1>15. p.a[7] = s
  BY <1>3, <1>6, <1>8, <1>11, MachineIs DEF Becomes, Registers
<1>16. cpu' = PutA(q, 7, s + j)
  BY <1>1, <1>4, <1>5, <1>7, <1>8, <1>10, <1>12, <1>15 DEF link_16, Room
<1>17. Becomes(cpu', q.d, [q.a EXCEPT ![7] = Masked(4, s + j)], q.mem, q.pc)
  <2>1. Becomes(q, q.d, q.a, q.mem, q.pc)
    BY DEF Becomes
  <2> QED BY <1>14, <1>16, <2>1, PutABecomes
<1>18. Masked(4, s + j) = Masked(4, cpu.a[7] - 4 + Signed(2, i.q))
  <2>1. Masked(4, Masked(4, t) + j) = Masked(4, t + j)
    BY SizeIs, MaskedSum
  <2>2. j = Signed(2, i.q)
    BY <1>3, <1>7, SignedIs, SizeIs
  <2> QED BY <1>7, <2>1, <2>2
<1>19. Masked(4, p.pc + 2) = Ahead(4)
  <2>1. PICK c \in Int : c = cpu.pc
    BY MachineIs
  <2>2. p.pc = Masked(4, c + 2)
    BY <1>2, <1>6, <1>11, <2>1 DEF Becomes, Ahead
  <2>3. Masked(4, Masked(4, c + 2) + 2) = Masked(4, c + 2 + 2)
    <3>1. PICK x \in Int, y \in Int : x = c + 2 /\ y = 2
      OBVIOUS
    <3>2. Masked(4, Masked(4, x) + y) = Masked(4, x + y)
      BY SizeIs, MaskedSum
    <3> QED BY <3>1, <3>2
  <2>4. c + 2 + 2 = c + 4
    OBVIOUS
  <2> QED BY <2>1, <2>2, <2>3, <2>4 DEF Ahead
<1>20. q.a = [[cpu.a EXCEPT ![7] = s] EXCEPT ![r] = s]
  BY <1>8, <1>11, <1>14 DEF Becomes
<1>21. [q.a EXCEPT ![7] = Masked(4, s + j)] = [cpu.a EXCEPT ![r] = s, ![7] = Masked(4, s + j)]
  BY <1>3, <1>20, MachineIs DEF Registers
<1> QED BY <1>2, <1>4, <1>6, <1>7, <1>11, <1>14, <1>17, <1>18, <1>19, <1>21 DEF Becomes

-----------------------------------------------------------------------------
(* What unlk, moveq, exg and lea leave.                                    *)

\* A frame is left: the stack is where it was, and the register has its value.
LEMMA UnlkBecomes ==
  ASSUME cpu \in Machine, NEW i, IsInstruction(i), unlk_32(i), NEW r, r = i.ea.r
  PROVE  Becomes(cpu', cpu.d,
                 [cpu.a EXCEPT ![7] = Masked(4, cpu.a[r] + 4), ![r] = LongIn(cpu.mem, cpu.a[r])],
                 cpu.mem, Ahead(2))
<1>1. PICK n : n = Fetched
  OBVIOUS
<1>2. n \in Machine /\ Becomes(n, cpu.d, cpu.a, cpu.mem, Ahead(2))
  BY <1>1, WordsBecome
<1>3. r \in Registers /\ r # 7 /\ 7 \in Registers
  <2>1. r \in Registers /\ r # 7
    BY DEF IsInstruction, IsOperand, unlk_32, Does
  <2>2. 7 \in Registers
    BY DEF Registers
  <2> QED BY <2>1, <2>2
<1>4. PICK v \in Range0(4) : v = cpu.a[r]
  BY <1>3, MachineIs
<1>5. v \in Int /\ Masked(4, v) = v
  BY LongIs, LongsAreInt
<1>6. PICK m : m = PutA(n, 7, v)
  OBVIOUS
<1>7. m \in Machine /\ Becomes(m, cpu.d, [cpu.a EXCEPT ![7] = v], cpu.mem, Ahead(2))
  BY <1>2, <1>3, <1>5, <1>6, PutABecomes, PutATyped
<1>8. m.a[7] = v
  BY <1>3, <1>7, MachineIs DEF Becomes
<1>9. PICK w \in Range0(4) : w = Masked(4, v + 4)
  <2>1. PICK x \in Int : x = v + 4
    BY <1>5
  <2> QED BY <2>1, SizeIs, MaskedRange
<1>10. PICK p : p = Pulled(m, 4)
  OBVIOUS
<1>11. p = [m EXCEPT !.a[7] = w]
  BY <1>8, <1>9, <1>10 DEF Pulled
<1>12. p \in Machine /\ Becomes(p, cpu.d, [cpu.a EXCEPT ![7] = w], cpu.mem, Ahead(2))
  <2>1. p \in Machine /\ Becomes(p, m.d, [m.a EXCEPT ![7] = w], m.mem, m.pc)
    BY <1>3, <1>7, <1>11 DEF Machine, Becomes
  <2>2. [[cpu.a EXCEPT ![7] = v] EXCEPT ![7] = w] = [cpu.a EXCEPT ![7] = w]
    OBVIOUS
  <2> QED BY <1>7, <2>1, <2>2 DEF Becomes
<1>13. PICK u : u = Read(m, 4, v)
  OBVIOUS
<1>14. u = LongIn(cpu.mem, v) /\ u \in Range0(4)
  <2>1. u = LongIn(cpu.mem, v)
    BY <1>7, <1>13, ReadsLong DEF Becomes
  <2>2. PICK k \in Nat : k = 1
    OBVIOUS
  <2>3. ReadEvery(m, 4, v, k) \in Range0(4)
    BY <1>5, <1>7, SizeIs, ReadRange
  <2> QED BY <1>13, <2>1, <2>2, <2>3 DEF Read
<1>15. cpu' = PutA(p, r, u)
  BY <1>1, <1>4, <1>6, <1>8, <1>10, <1>13 DEF unlk_32
<1>16. Becomes(cpu', cpu.d, [[cpu.a EXCEPT ![7] = w] EXCEPT ![r] = Masked(4, u)], cpu.mem,
          Ahead(2))
  BY <1>12, <1>15, PutABecomes
<1>17. Masked(4, u) = u
  BY <1>14, LongIs
<1> QED BY <1>4, <1>9, <1>14, <1>16, <1>17

\* moveq changes one data register.
LEMMA MoveqBecomes ==
  ASSUME cpu \in Machine, NEW i, IsInstruction(i), moveq_32(i)
  PROVE  /\ i.x \in Registers
         /\ \E v : Becomes(cpu', [cpu.d EXCEPT ![i.x] = v], cpu.a, cpu.mem, Ahead(2))
<1>1. PICK n : n = Fetched
  OBVIOUS
<1>2. n \in Machine /\ Becomes(n, cpu.d, cpu.a, cpu.mem, Ahead(2))
  BY <1>1, WordsBecome
<1>3. i.name = "moveq" /\ i.z = 4
  BY DEF moveq_32, Does
<1>4. PICK r \in Registers : r = i.x
  BY <1>3 DEF IsInstruction, HasX
<1>5. PICK v \in Range0(4) : v = Extended(1, i.q)
  <2>1. i.q \in Int
    BY <1>3, LongsAreInt DEF IsInstruction
  <2> QED BY <2>1, SizeIs, ExtendedType
<1>6. PICK f \in Flags : f = Logical(4, cpu.f, v).f
  <2>1. cpu.f \in Flags
    BY MachineIs
  <2> QED BY <2>1, LogicalTyped, SizeIs DEF Typed
<1>7. cpu' = PutD([n EXCEPT !.f = f], 4, r, v)
  BY <1>1, <1>4, <1>5, <1>6 DEF moveq_32, WithFlags
<1>8. PICK p : p = cpu' /\ p = PutD([n EXCEPT !.f = f], 4, r, v)
  BY <1>7
<1>9. Becomes(p, [n.d EXCEPT ![r] = v], n.a, n.mem, n.pc)
  BY <1>2, <1>8, LongBecomes
<1> QED BY <1>2, <1>4, <1>8, <1>9 DEF Becomes

\* exg of a data and an address register.
LEMMA ExgBecomes ==
  ASSUME cpu \in Machine, NEW i, exg_32_da(i)
  PROVE  Becomes(cpu', [cpu.d EXCEPT ![i.x] = cpu.a[i.ea.r]],
            [cpu.a EXCEPT ![i.ea.r] = cpu.d[i.x]],
                 cpu.mem, Ahead(2))
<1>1. PICK n : n = Fetched
  OBVIOUS
<1>2. n \in Machine /\ Becomes(n, cpu.d, cpu.a, cpu.mem, Ahead(2))
  BY <1>1, WordsBecome
<1>3. cpu' = [n EXCEPT !.d[i.x] = cpu.a[i.ea.r], !.a[i.ea.r] = cpu.d[i.x]]
  BY <1>1 DEF exg_32_da
<1> QED BY <1>2, <1>3 DEF Becomes, Machine

\* lea of an absolute address.
LEMMA LeaBecomes ==
  ASSUME cpu \in Machine, NEW i, IsInstruction(i), lea_32(i), i.ea.mode = "al"
  PROVE  Becomes(cpu', cpu.d, [cpu.a EXCEPT ![i.x] = i.ea.e], cpu.mem, Ahead(6))
<1>1. PICK n, e : n = Skip(Fetched, 2) /\ e = Ea(Fetched, 4, i.ea)
  OBVIOUS
<1>2. n \in Machine /\ Becomes(n, cpu.d, cpu.a, cpu.mem, Ahead(6))
  BY <1>1, WordsBecome
<1>3. i.ea.e \in Range0(4)
  BY DEF IsInstruction, IsOperand
<1>4. e = [at |-> i.ea.e, m |-> n]
  BY <1>1, <1>3, AbsoluteIs, WordsBecome
<1>5. cpu' = PutA(e.m, i.x, e.at)
  BY <1>1 DEF lea_32
<1>6. cpu' = PutA(n, i.x, i.ea.e)
  BY <1>4, <1>5
<1>7. Becomes(cpu', cpu.d, [cpu.a EXCEPT ![i.x] = Masked(4, i.ea.e)], cpu.mem, Ahead(6))
  BY <1>2, <1>6, PutABecomes
<1>8. Masked(4, i.ea.e) = i.ea.e
  BY <1>3, LongIs
<1> QED BY <1>7, <1>8

-----------------------------------------------------------------------------
(* What move leaves.                                                       *)

\* Two distances ahead are one.
LEMMA AheadOn ==
  ASSUME cpu \in Machine, NEW k \in Int, NEW j \in Int
  PROVE  Masked(4, Ahead(k) + j) = Ahead(k + j) /\ Ahead(k) \in Range0(4)
<1>1. PICK c \in Int, x \in Int : c = cpu.pc /\ x = c + k
  BY MachineIs
<1>2. Masked(4, Masked(4, x) + j) = Masked(4, x + j) /\ Masked(4, x) \in Range0(4)
  BY SizeIs, MaskedSum, MaskedRange
<1>3. x + j = c + (k + j)
  BY <1>1
<1> QED BY <1>1, <1>2, <1>3 DEF Ahead

\* What an instruction has read: a value, and the machine behind its words.
Sourced(s, z, v, k) ==
  s.m \in Machine /\ Becomes(s.m, cpu.d, cpu.a, cpu.mem, Ahead(k)) /\ s.v = v /\ v \in Range0(z)

\* A data register is read.
LEMMA FromRegister ==
  ASSUME cpu \in Machine, NEW z \in Sizes, NEW o, o.mode = "d", o.r \in Registers,
         NEW s, s = Operand(Fetched, z, o)
  PROVE  Sourced(s, z, Masked(z, cpu.d[o.r]), 2)
<1>1. PICK n : n = Fetched
  OBVIOUS
<1>2. n \in Machine /\ Becomes(n, cpu.d, cpu.a, cpu.mem, Ahead(2))
  BY <1>1, WordsBecome
<1>3. s = [v |-> Masked(z, n.d[o.r]), m |-> n]
  BY <1>1 DEF Operand
<1>4. Masked(z, cpu.d[o.r]) \in Range0(z)
  <2>1. cpu.d[o.r] \in Int
    BY MachineIs, LongsAreInt
  <2> QED BY <2>1, MaskedRange
<1> QED BY <1>2, <1>3, <1>4 DEF Sourced, Becomes

\* A long behind the opcode is read.
LEMMA FromValue ==
  ASSUME cpu \in Machine, NEW o, o.mode = "i", o.e \in Range0(4),
         NEW s, s = Operand(Fetched, 4, o)
  PROVE  Sourced(s, 4, o.e, 6)
<1>1. PICK n : n = Skip(Fetched, 2)
  OBVIOUS
<1>2. n \in Machine /\ Becomes(n, cpu.d, cpu.a, cpu.mem, Ahead(6))
  BY <1>1, WordsBecome
<1>3. s = [v |-> Masked(4, o.e), m |-> n]
  BY <1>1 DEF Operand, ImmWords
<1>4. Masked(4, o.e) = o.e
  BY LongIs
<1> QED BY <1>2, <1>3, <1>4 DEF Sourced

\* An address that is so many bytes from an address register.
Near(o) == cpu.a[o.r] + Signed(2, o.e)

\* d16(An) is such an address.
LEMMA NearIs ==
  ASSUME NEW m \in Machine, NEW z, NEW o, o.mode = "di", o.r \in Registers, o.e \in Range0(2),
         m.a = cpu.a
  PROVE  /\ Near(o) \in Int
         /\ Ea(m, z, o) = [at |-> Masked(4, Near(o)), m |-> Skip(m, 1)]
<1>1. MakeInt(2, o.e) = Signed(2, o.e) /\ Signed(2, o.e) \in Int
  BY SignedIs, SizeIs
<1>2. m.a[o.r] \in Int
  BY MachineIs, LongsAreInt
<1>3. Near(o) \in Int
  BY <1>1, <1>2 DEF Near
<1>4. Ea(m, z, o) = [at |-> Masked(4, m.a[o.r] + MakeInt(2, o.e)), m |-> Skip(m, 1)]
  BY DEF Ea
<1> QED BY <1>1, <1>3, <1>4 DEF Near

\* A long at d16(An) is read.
LEMMA FromMemory ==
  ASSUME cpu \in Machine, NEW o, o.mode = "di", o.r \in Registers, o.e \in Range0(2),
         NEW s, s = Operand(Fetched, 4, o)
  PROVE  Sourced(s, 4, LongIn(cpu.mem, Near(o)), 4)
<1>1. PICK n, m : n = Fetched /\ m = Skip(n, 1)
  OBVIOUS
<1>2. /\ n \in Machine /\ Becomes(n, cpu.d, cpu.a, cpu.mem, Ahead(2))
      /\ m \in Machine /\ Becomes(m, cpu.d, cpu.a, cpu.mem, Ahead(4))
  BY <1>1, WordsBecome
<1>3. PICK u \in Int : u = Near(o)
  BY <1>2, NearIs DEF Becomes
<1>4. Ea(n, 4, o) = [at |-> Masked(4, u), m |-> m]
  BY <1>1, <1>2, <1>3, NearIs DEF Becomes
<1>5. PICK at \in Int : at = Masked(4, u)
  BY SizeIs, MaskedRange, LongsAreInt
<1>6. s = [v |-> Read(m, 4, at), m |-> m]
  BY <1>1, <1>4, <1>5 DEF Operand
<1>7. Read(m, 4, at) = LongIn(cpu.mem, u)
  <2>1. Read(m, 4, at) = LongIn(cpu.mem, at)
    BY <1>2, ReadsLong DEF Becomes
  <2>2. LongIn(cpu.mem, at) = LongIn(cpu.mem, u)
    BY <1>5, LongAround, MachineIs
  <2> QED BY <2>1, <2>2
<1>8. Read(m, 4, at) \in Range0(4)
  <2>1. PICK k \in Nat : k = 1
    OBVIOUS
  <2>2. ReadEvery(m, 4, at, k) \in Range0(4)
    BY <1>2, SizeIs, ReadRange
  <2> QED BY <2>1, <2>2 DEF Read
<1> QED BY <1>2, <1>3, <1>6, <1>7, <1>8 DEF Sourced

-----------------------------------------------------------------------------
\* Where it goes: Moved says that a machine n, with other flags, stores v.
Moved(z, o, n, v) ==
  \E f \in Flags : cpu' = Store([n EXCEPT !.f = f], z, o, v)

\* move puts what it has read where its handler says.
LEMMA MovesIt ==
  ASSUME cpu \in Machine, NEW i, MoveHandlers(i), IsInstruction(i),
         NEW s, s = Operand(Fetched, i.z, i.ea), NEW v, NEW k, Sourced(s, i.z, v, k)
  PROVE  Moved(i.z, i.to, s.m, v)
<1>1. cpu' = Store(WithFlags(s.m, Logical(i.z, cpu.f, v)), i.z, i.to, v)
  BY MoveIs DEF Sourced
<1>2. PICK f \in Flags : f = Logical(i.z, cpu.f, v).f
  <2>1. cpu.f \in Flags /\ i.z \in Sizes /\ v \in Range0(i.z)
    BY MachineIs DEF IsInstruction, Sourced
  <2> QED BY <2>1, LogicalTyped DEF Typed
<1> QED BY <1>1, <1>2 DEF WithFlags, Moved

\* To a data register.
LEMMA ToRegister ==
  ASSUME NEW n \in Machine, NEW o, o.mode = "d", o.r \in Registers, NEW v \in Range0(4),
         Moved(4, o, n, v)
  PROVE  Becomes(cpu', [n.d EXCEPT ![o.r] = v], n.a, n.mem, n.pc)
<1>1. PICK f \in Flags : cpu' = Store([n EXCEPT !.f = f], 4, o, v)
  BY DEF Moved
<1>2. PICK r, p : r \in Registers /\ r = o.r /\ p = cpu'
  OBVIOUS
<1>3. p = PutD([n EXCEPT !.f = f], 4, r, v)
  BY <1>1, <1>2 DEF Store
<1> QED BY <1>2, <1>3, LongBecomes

\* To the stack.
LEMMA ToStack ==
  ASSUME NEW n \in Machine, NEW o, o.mode = "pd", o.r = 7, NEW v \in Range0(4),
         Moved(4, o, n, v)
  PROVE  /\ Becomes(cpu', n.d, StackedA(n.a, -4), cpu'.mem, n.pc)
         /\ WroteLong(n.mem, cpu'.mem, n.a[7] - 4, v)
<1>1. PICK f \in Flags : cpu' = Store([n EXCEPT !.f = f], 4, o, v)
  BY DEF Moved
<1>2. PICK m, p : m = [n EXCEPT !.f = f] /\ p = cpu'
  OBVIOUS
<1>3. m \in Machine /\ m.d = n.d /\ m.a = n.a /\ m.mem = n.mem /\ m.pc = n.pc
  BY <1>2 DEF Machine
<1>4. PICK l : l = Masked(4, m.a[7] - 4)
  OBVIOUS
<1>5. Ea(m, 4, o) = [at |-> l, m |-> [m EXCEPT !.a[7] = l]]
  BY <1>4 DEF Ea, Step
<1>6. p = Write([m EXCEPT !.a[7] = l], 4, l, v)
  BY <1>1, <1>2, <1>5 DEF Store
<1>7. p = Push(m, v)
  BY <1>4, <1>6 DEF Push
<1>8. /\ Becomes(p, m.d, StackedA(m.a, -4), p.mem, m.pc)
      /\ WroteLong(m.mem, p.mem, m.a[7] - 4, v)
  BY <1>3, <1>7, PushBecomes
<1> QED BY <1>2, <1>3, <1>8

\* To d16(An), a byte or a long.
LEMMA ToMemory ==
  ASSUME NEW n \in Machine, n.a = cpu.a, NEW z \in Sizes, NEW o, o.mode = "di",
         o.r \in Registers,
         o.e \in Range0(2), NEW v \in Range0(z), Moved(z, o, n, v)
  PROVE  /\ Becomes(cpu', n.d, n.a, cpu'.mem, Masked(4, n.pc + 2))
         /\ Wrote(n.mem, cpu'.mem, z, Near(o)) /\ (z = 4 => LongIn(cpu'.mem, Near(o)) = v)
         /\ z = 1 => cpu'.mem[Near(o) % AddressSpace] = v
<1>1. PICK f \in Flags : cpu' = Store([n EXCEPT !.f = f], z, o, v)
  BY DEF Moved
<1>2. PICK m, p : m = [n EXCEPT !.f = f] /\ p = cpu'
  OBVIOUS
<1>3. m \in Machine /\ m.d = n.d /\ m.a = n.a /\ m.mem = n.mem /\ m.pc = n.pc
  BY <1>2 DEF Machine
<1>4. PICK u \in Int : u = Near(o)
  BY <1>3, NearIs
<1>5. PICK at \in Int : at = Masked(4, u)
  BY SizeIs, MaskedRange, LongsAreInt
<1>6. PICK t : t = Skip(m, 1)
  OBVIOUS
<1>7. Ea(m, z, o) = [at |-> at, m |-> t]
  BY <1>3, <1>4, <1>5, <1>6, NearIs
<1>8. p = Write(t, z, at, v)
  BY <1>1, <1>2, <1>7 DEF Store
<1>9. PICK k \in Nat : k = 1 /\ 2 * k = 2
  OBVIOUS
<1>10. t \in Machine /\ Becomes(t, n.d, n.a, n.mem, Masked(4, n.pc + 2))
  <2>1. t \in Machine
    BY <1>3, <1>6, <1>9, SkipSteps
  <2>2. t = [m EXCEPT !.pc = Masked(4, m.pc + 2)]
    BY <1>6, <1>9 DEF Skip
  <2> QED BY <1>3, <2>1, <2>2 DEF Machine, Becomes
<1>11. /\ p \in Machine /\ Becomes(p, t.d, t.a, p.mem, t.pc)
       /\ Wrote(t.mem, p.mem, z, at) /\ (z = 4 => LongIn(p.mem, at) = v)
  <2>1. t \in Machine /\ z \in Sizes /\ at \in Int /\ v \in Range0(z) /\ p = Write(t, z, at, v)
    BY <1>5, <1>8, <1>10
  <2> QED BY <2>1, WriteWrote
<1>12. Wrote(n.mem, p.mem, z, u)
  BY <1>5, <1>10, <1>11, WroteAround DEF Becomes
<1>13. z = 4 => LongIn(p.mem, u) = v
  BY <1>5, <1>11, LongAround, MachineIs
<1>14. ASSUME z = 1 PROVE p.mem[u % AddressSpace] = v
  <2>1. Read(p, z, at) = v
    BY <1>8, <1>10, ReadAgain
  <2>2. Read(p, z, at) = ByteAt(p, at)
    BY <1>14 DEF Read, ReadEvery
  <2>3. at % AddressSpace = u % AddressSpace
    <3>1. PICK j \in Int : j = 0 /\ at + j = at /\ u + j = u
      OBVIOUS
    <3>2. (Masked(4, u) + j) % AddressSpace = (u + j) % AddressSpace
      BY AroundIs
    <3> QED BY <1>5, <3>1, <3>2
  <2> QED BY <2>1, <2>2, <2>3 DEF ByteAt
<1> QED BY <1>2, <1>4, <1>10, <1>11, <1>12, <1>13, <1>14 DEF Becomes

-----------------------------------------------------------------------------
(* Lists of registers.                                                     *)

\* Byte k of a list of registers in the memory, whichever register that is.
Within(b, at, z) == (b - at) % AddressSpace < z
OfRegister(p, b, at, z, r) ==
  /\ Within(b, at, z)
  /\ p.mem[b] = ByteOf(z, Masked(z, Register(cpu, r)), (b - at) % AddressSpace)
StoredList(n, p, R, place, z) ==
  /\ p \in Machine /\ Becomes(p, n.d, n.a, p.mem, n.pc) /\ p.f = n.f
  /\ \A b \in Space :
       \/ \E r \in R : OfRegister(p, b, place[r], z, r)
       \/ p.mem[b] = n.mem[b] /\ \A r \in R : ~Within(b, place[r], z)

\* What the memory becomes, byte by byte.
AllStored(n, R, z, at) ==
  [b \in Space |->
     IF \E r \in R : (b - (at + z * Rank(R, r))) % AddressSpace < z
     THEN LET r == CHOOSE r \in R : (b - (at + z * Rank(R, r))) % AddressSpace < z
          IN ByteOf(z, Masked(z, Register(cpu, r)), (b - (at + z * Rank(R, r))) % AddressSpace)
     ELSE n.mem[b]]
AllPlaced(n, R, z, place) ==
  [b \in Space |->
     IF \E r \in R : (b - place[r]) % AddressSpace < z
     THEN LET r == CHOOSE r \in R : (b - place[r]) % AddressSpace < z
          IN ByteOf(z, Masked(z, Register(cpu, r)), (b - place[r]) % AddressSpace)
     ELSE n.mem[b]]

\* A list of registers is put in the memory at once.
LEMMA StoreAllShape ==
  ASSUME NEW n \in Machine, NEW i, NEW z, NEW at, NEW p, p = StoreAll(i, n, z, at), NEW R,
         R = i.regs
  PROVE  p = [n EXCEPT !.mem = AllStored(n, R, z, at)]
<1>1. DOMAIN n.mem = Space
  BY MachineIs
<1> QED BY <1>1, Zenon DEF StoreAll, StoreAt, AllStored

\* The same with the places of the registers as a function.
LEMMA PlacesAre ==
  ASSUME NEW n, NEW R, NEW z, NEW at, NEW place, \A r \in R : place[r] = at + z * Rank(R, r)
  PROVE  AllStored(n, R, z, at) = AllPlaced(n, R, z, place)
<1>1. ASSUME NEW b \in Space
      PROVE  AllStored(n, R, z, at)[b] = AllPlaced(n, R, z, place)[b]
  <2>1. (\E r \in R : (b - (at + z * Rank(R, r))) % AddressSpace < z)
          <=> (\E r \in R : (b - place[r]) % AddressSpace < z)
    OBVIOUS
  <2>2. (CHOOSE r \in R : (b - (at + z * Rank(R, r))) % AddressSpace < z)
          = (CHOOSE r \in R : (b - place[r]) % AddressSpace < z)
    OBVIOUS
  <2>3. CASE \E r \in R : (b - place[r]) % AddressSpace < z
    <3>1. PICK c : c = (CHOOSE r \in R : (b - place[r]) % AddressSpace < z)
      OBVIOUS
    <3>2. c \in R
      BY <2>3, <3>1
    <3>3. place[c] = at + z * Rank(R, c)
      BY <3>2
    <3>4. AllPlaced(n, R, z, place)[b]
            = ByteOf(z, Masked(z, Register(cpu, c)), (b - place[c]) % AddressSpace)
      BY <2>3, <3>1, Zenon DEF AllPlaced
    <3>5. AllStored(n, R, z, at)[b]
            = ByteOf(z, Masked(z, Register(cpu, c)), (b - (at + z * Rank(R, c))) % AddressSpace)
      <4>1. c = (CHOOSE r \in R : (b - (at + z * Rank(R, r))) % AddressSpace < z)
        BY <2>2, <3>1
      <4>2. \E r \in R : (b - (at + z * Rank(R, r))) % AddressSpace < z
        BY <2>1, <2>3
      <4> QED BY <4>1, <4>2, Zenon DEF AllStored
    <3> QED BY <3>3, <3>4, <3>5
  <2>4. CASE ~\E r \in R : (b - place[r]) % AddressSpace < z
    BY <2>1, <2>4, Zenon DEF AllStored, AllPlaced
  <2> QED BY <2>3, <2>4
<1> QED BY <1>1, Zenon DEF AllStored, AllPlaced

\* So every byte is one of a register, or what it was.
LEMMA StoreAllIs ==
  ASSUME cpu \in Machine, NEW n \in Machine, NEW i, i.regs \subseteq 0..15, NEW z \in Sizes,
         NEW at \in Int, NEW p, p = StoreAll(i, n, z, at), NEW R, R = i.regs,
         NEW place, place = [r \in R |-> at + z * Rank(R, r)]
  PROVE  StoredList(n, p, R, place, z)
<1>1. place \in [R -> Int]
  <2>1. \A r \in R : Rank(R, r) \in Nat
    BY ListIs
  <2>2. \A r \in R : at + z * Rank(R, r) \in Int
    BY <2>1 DEF Sizes
  <2> QED BY <2>2
<1>4. PICK mem : mem = AllPlaced(n, R, z, place)
  OBVIOUS
<1>5. p = [n EXCEPT !.mem = mem]
  <2>1. p = [n EXCEPT !.mem = AllStored(n, R, z, at)]
    BY StoreAllShape
  <2>2. \A r \in R : place[r] = at + z * Rank(R, r)
    OBVIOUS
  <2>3. AllStored(n, R, z, at) = AllPlaced(n, R, z, place)
    BY <2>2, PlacesAre
  <2> QED BY <1>4, <2>1, <2>3
<1>6. ASSUME NEW b \in Space
      PROVE  /\ mem[b] \in Range0(1)
             /\ \/ \E r \in R : /\ Within(b, place[r], z)
                                /\ mem[b] = ByteOf(z, Masked(z, Register(cpu, r)),
                                       (b - place[r]) % AddressSpace)
                \/ mem[b] = n.mem[b] /\ \A r \in R : ~Within(b, place[r], z)
  <2>1. n.mem[b] \in Range0(1)
    BY MachineIs
  <2>2. CASE \E r \in R : (b - place[r]) % AddressSpace < z
    <3>1. PICK r \in R : r = (CHOOSE q \in R : (b - place[q]) % AddressSpace < z)
                         /\ (b - place[r]) % AddressSpace < z
      BY <2>2
    <3>2. PICK a \in Int : a = place[r]
      BY <1>1
    <3>3. PICK k \in Nat : k = (b - a) % AddressSpace
      <4>1. b - a \in Int
        BY DEF Space
      <4> QED BY <4>1, SpaceIs, Remainder
    <3>4. k \in 0..(z - 1)
      BY <3>1, <3>2, <3>3 DEF Sizes
    <3>5. PICK v \in Int : v = Masked(z, Register(cpu, r))
      <4>1. Register(cpu, r) \in Int
        BY RegisterIs
      <4>2. Masked(z, Register(cpu, r)) \in Range0(z)
        BY <4>1, MaskedRange
      <4> QED BY <4>2, MaskedSame
    <3>6. mem[b] = ByteOf(z, v, k)
      BY <1>4, <2>2, <3>1, <3>2, <3>3, <3>5, Zenon DEF AllPlaced
    <3>7. mem[b] \in Range0(1)
      BY <3>4, <3>6, ByteOfRange
    <3> QED BY <3>1, <3>2, <3>3, <3>5, <3>6, <3>7 DEF Within
  <2>3. CASE ~(\E r \in R : (b - place[r]) % AddressSpace < z)
    <3>1. mem[b] = n.mem[b]
      BY <1>4, <2>3, Zenon DEF AllPlaced
    <3> QED BY <2>1, <2>3, <3>1 DEF Within
  <2> QED BY <2>2, <2>3
<1>7. mem \in [Space -> Range0(1)]
  BY <1>4, <1>6 DEF AllPlaced
<1>8. p.mem = mem /\ p.d = n.d /\ p.a = n.a /\ p.pc = n.pc /\ p.f = n.f
  BY <1>5 DEF Machine
<1>9. p \in Machine
  BY <1>5, <1>7 DEF Machine, Space
<1>10. \A b \in Space :
       \/ \E r \in R : OfRegister(p, b, place[r], z, r)
       \/ p.mem[b] = n.mem[b] /\ \A r \in R : ~Within(b, place[r], z)
  BY <1>6, <1>8 DEF OfRegister
<1> QED BY <1>8, <1>9, <1>10 DEF StoredList, Becomes

\* No byte is in two longs that are apart.
LEMMA NotInTwo ==
  ASSUME NEW a \in Nat \ {0}, NEW b \in Int, NEW u \in Int, NEW w \in Int, w - u \in 4..(a - 4),
         (b - u) % a < 4, (b - w) % a < 4
  PROVE  FALSE
<1>1. PICK x \in Int, y \in Int : x = b - u /\ y = b - w
  OBVIOUS
<1>2. PICK q \in Int, r \in 0..(a - 1) : q = x \div a /\ r = x % a /\ x = q * a + r
      /\ q * a \in Int
  BY DivMod
<1>3. PICK p \in Int, s \in 0..(a - 1) : p = y \div a /\ s = y % a /\ y = p * a + s
      /\ p * a \in Int
  BY DivMod
<1>4. PICK g \in Int : g = q - p
  OBVIOUS
<1>5. g * a = q * a - p * a
  BY <1>4
<1>6. r < 4 /\ s < 4
  BY <1>1, <1>2, <1>3
<1>7. PICK h \in Int : h = g * a
  OBVIOUS
<1>8. h > 0 /\ h < a
  BY <1>1, <1>2, <1>3, <1>5, <1>6, <1>7
<1>9. CASE g >= 1
  <2>1. 1 * a <= g * a
    BY <1>9, Times
  <2> QED BY <1>7, <1>8, <2>1
<1>10. CASE g <= 0
  <2>1. g * a <= 0 * a
    BY <1>10, Times
  <2> QED BY <1>7, <1>8, <2>1
<1> QED BY <1>9, <1>10

-----------------------------------------------------------------------------
\* Three registers of a list, in the order of their addresses.
InOrder(R, x, y, w) == R = {x, y, w} /\ x \in 0..15 /\ y \in 0..15 /\ w \in 0..15 /\ x < y
/\ y < w

\* A set with one element more.
LEMMA OneMoreCounts ==
  ASSUME NEW S, IsFiniteSet(S), NEW x, x \notin S
  PROVE  IsFiniteSet(S \cup {x}) /\ Cardinality(S \cup {x}) = Cardinality(S) + 1
BY FS_AddElement

\* The ranks of three registers.
LEMMA Ranks ==
  ASSUME NEW R, NEW x, NEW y, NEW w, InOrder(R, x, y, w)
  PROVE  /\ Rank(R, x) = 0 /\ Rank(R, y) = 1 /\ Rank(R, w) = 2 /\ Cardinality(R) = 3
         /\ R \subseteq 0..15
<1>1. R = {x, y, w} /\ x \in Int /\ y \in Int /\ w \in Int /\ x < y /\ y < w
  BY DEF InOrder
<1>2. x # y /\ x # w /\ y # w
  BY <1>1
<1>3. {q \in R : q < x} = {} /\ {q \in R : q < y} = {x} /\ {q \in R : q < w} = {x, y}
  BY <1>1
<1>4. /\ Cardinality({}) = 0 /\ Cardinality({x}) = 1 /\ Cardinality({x, y}) = 2
      /\ Cardinality({x, y, w}) = 3
  <2>1. Cardinality({}) = 0
    BY FS_EmptySet
  <2>2. Cardinality({x}) = 1 /\ IsFiniteSet({x})
    BY FS_Singleton
  <2>3. {x, y} = {x} \cup {y} /\ y \notin {x} /\ {x, y, w} = {x, y} \cup {w} /\ w \notin {x, y}
    BY <1>2
  <2>4. Cardinality({x, y}) = 2 /\ IsFiniteSet({x, y})
    <3>1. IsFiniteSet({x} \cup {y}) /\ Cardinality({x} \cup {y}) = Cardinality({x}) + 1
      BY <2>2, <2>3, OneMoreCounts
    <3> QED BY <2>2, <2>3, <3>1
  <2>5. Cardinality({x, y, w}) = 3
    <3>1. Cardinality({x, y} \cup {w}) = Cardinality({x, y}) + 1
      BY <2>3, <2>4, OneMoreCounts
    <3> QED BY <2>3, <2>4, <3>1
  <2> QED BY <2>1, <2>2, <2>4, <2>5
<1>5. R \subseteq 0..15
  BY DEF InOrder
<1> QED BY <1>1, <1>3, <1>4, <1>5 DEF Rank

\* Two longs with the same bytes.
LEMMA LongFromBytes ==
  ASSUME NEW m, NEW n, NEW c \in Int, \A k \in 0..3 : ByteAt(n, c + k) = ByteAt(m, c + k)
  PROVE  LongIn(n.mem, c) = LongIn(m.mem, c)
<1>1. /\ ByteAt(n, c) = ByteAt(m, c) /\ ByteAt(n, c + 1) = ByteAt(m, c + 1)
      /\ ByteAt(n, c + 2 * 1) = ByteAt(m, c + 2 * 1)
      /\ ByteAt(n, c + 2 * 1 + 1) = ByteAt(m, c + 2 * 1 + 1)
  <2>1. c + 0 = c /\ c + 2 * 1 + 1 = c + 3 /\ c + 2 * 1 = c + 2
    OBVIOUS
  <2>2. /\ ByteAt(n, c + 0) = ByteAt(m, c + 0) /\ ByteAt(n, c + 1) = ByteAt(m, c + 1)
        /\ ByteAt(n, c + 2) = ByteAt(m, c + 2) /\ ByteAt(n, c + 3) = ByteAt(m, c + 3)
    OBVIOUS
  <2> QED BY <2>1, <2>2
<1>2. Read(n, 4, c) = Read(m, 4, c)
  BY <1>1 DEF Read, ReadEvery
<1> QED BY <1>2, ReadsLong

\* A byte of a long is in the long.
LEMMA InLong ==
  ASSUME NEW a \in Nat \ {0}, NEW u \in Int, NEW k \in 0..3, a >= 64
  PROVE  (((u + k) % a) - u) % a = k /\ (u + k) % a \in 0..(a - 1)
<1>1. PICK x \in Int, y \in Int : x = u + k /\ y = -u
  OBVIOUS
<1>2. PICK q \in Int, r \in 0..(a - 1) : q = x \div a /\ r = x % a /\ x = q * a + r
      /\ q * a \in Int
  BY DivMod
<1>3. PICK j \in Int, d \in Int : j = -q /\ d = j * a
  OBVIOUS
<1>4. d = -(q * a)
  BY <1>3
<1>5. r - u = k + d
  BY <1>1, <1>2, <1>4
<1>6. (k + j * a) % a = k % a
  <2>1. k \in Int
    OBVIOUS
  <2> QED BY <2>1, Multiples
<1>7. k % a = k
  <2>1. 0 * a <= k /\ k < 0 * a + a
    OBVIOUS
  <2>2. PICK g \in Int, e \in Int : g = 0 /\ e = k
    OBVIOUS
  <2>3. e % a = e - g * a
    BY <2>1, <2>2, DivIs
  <2> QED BY <2>2, <2>3
<1> QED BY <1>1, <1>2, <1>3, <1>5, <1>6, <1>7

\* Every other register of the list goes elsewhere.
Aside(R, place, r) ==
  \A q \in R \ {r} : \/ place[q] - place[r] \in 4..(AddressSpace - 4)
                     \/ place[r] - place[q] \in 4..(AddressSpace - 4)

\* A byte of a register in the list is where the list puts it.
LEMMA ListedByte ==
  ASSUME NEW n, NEW p, NEW R, NEW place \in [R -> Int], StoredList(n, p, R, place, 4),
         NEW r \in R,
         Aside(R, place, r),
         NEW k \in 0..3
  PROVE  ByteAt(p, place[r] + k) = ByteOf(4, Masked(4, Register(cpu, r)), k)
<1>1. PICK a \in Nat \ {0}, u \in Int : a = AddressSpace /\ u = place[r] /\ a >= 64
  BY SpaceIs
<1>2. PICK b \in Int : b = (u + k) % a
  <2>1. (u + k) % a \in 0..(a - 1)
    BY <1>1, InLong
  <2> QED BY <2>1
<1>3. (b - u) % a = k /\ b \in Space
  <2>1. (((u + k) % a) - u) % a = k /\ (u + k) % a \in 0..(a - 1)
    BY <1>1, InLong
  <2> QED BY <1>1, <1>2, <2>1 DEF Space
<1>4. Within(b, place[r], 4)
  <2>1. k < 4
    OBVIOUS
  <2> QED BY <1>1, <1>3, <2>1 DEF Within
<1>5. ASSUME NEW q \in R, Within(b, place[q], 4), q # r
      PROVE  FALSE
  <2>1. PICK w \in Int : w = place[q]
    OBVIOUS
  <2>2. (b - w) % a < 4 /\ (b - u) % a < 4
    BY <1>1, <1>4, <1>5, <2>1 DEF Within
  <2>3. w - u \in 4..(a - 4) \/ u - w \in 4..(a - 4)
    BY <1>1, <1>5, <2>1 DEF Aside
  <2> QED BY <2>2, <2>3, NotInTwo
<1>6. OfRegister(p, b, place[r], 4, r)
  BY <1>3, <1>4, <1>5 DEF StoredList, OfRegister
<1> QED BY <1>1, <1>2, <1>3, <1>6 DEF OfRegister, ByteAt

\* The sixteen registers are longs.
LEMMA RegisterLong ==
  ASSUME cpu \in Machine, NEW r \in 0..15
  PROVE  Register(cpu, r) \in Range0(4) /\ Masked(4, Register(cpu, r)) = Register(cpu, r)
<1>1. CASE r < 8
  BY <1>1, MachineIs, LongIs DEF Register, Registers
<1>2. CASE ~(r < 8)
  BY <1>2, MachineIs, LongIs DEF Register, Registers
<1> QED BY <1>1, <1>2

Laid(n, p, R, place, r) ==
  /\ cpu \in Machine /\ place \in [R -> Int] /\ StoredList(n, p, R, place, 4)
  /\ r \in R /\ r \in 0..15 /\ Aside(R, place, r)

\* So is the whole register.
LEMMA ListedLong ==
  ASSUME NEW n, NEW p, NEW R, NEW place, NEW r, Laid(n, p, R, place, r)
  PROVE  LongIn(p.mem, place[r]) = Register(cpu, r)
<1>0. /\ cpu \in Machine /\ place \in [R -> Int] /\ StoredList(n, p, R, place, 4)
      /\ r \in R /\ r \in 0..15 /\ Aside(R, place, r)
  BY DEF Laid
<1>1. PICK v \in Range0(4), c \in Int : v = Register(cpu, r) /\ Masked(4, v) = v /\ c = place[r]
  BY <1>0, RegisterLong
<1>2. PICK s : s = Write(cpu, 4, c, v)
  OBVIOUS
<1>3. Read(s, 4, c) = v
  BY <1>0, <1>2, SizeIs, ReadAgain
<1>4. \A k \in 0..3 : ByteAt(s, c + k) = ByteOf(4, v, k)
  <2>1. v \in Int
    BY LongsAreInt
  <2>2. ASSUME NEW k \in 0..3
        PROVE  k \in Nat /\ k < 4
    OBVIOUS
  <2> QED BY <1>0, <1>2, <2>1, <2>2, SizeIs, ByteAgain
<1>5. \A k \in 0..3 : ByteAt(p, c + k) = ByteOf(4, v, k)
  <2>1. \A k \in 0..3 : ByteAt(p, place[r] + k) = ByteOf(4, Masked(4, Register(cpu, r)), k)
    <3> SUFFICES ASSUME NEW k \in 0..3
                 PROVE  ByteAt(p, place[r] + k) = ByteOf(4, Masked(4, Register(cpu, r)), k)
      OBVIOUS
    <3>1. /\ place \in [R -> Int] /\ StoredList(n, p, R, place, 4) /\ r \in R
          /\ Aside(R, place, r) /\ k \in 0..3
      BY <1>0
    <3> QED BY ONLY <3>1, ListedByte
  <2> QED BY <1>1, <2>1
<1>6. LongIn(p.mem, c) = LongIn(s.mem, c)
  BY <1>4, <1>5, LongFromBytes
<1> QED BY <1>1, <1>3, <1>6, ReadsLong

-----------------------------------------------------------------------------
(* What movem leaves.                                                      *)

\* A long at a distance from a masked address.
LEMMA LongNear ==
  ASSUME NEW M \in [Space -> Range0(1)], NEW u \in Int, NEW k \in Int
  PROVE  LongIn(M, Masked(4, u) + k) = LongIn(M, u + k)
<1>1. PICK s \in Int : s = Masked(4, u)
  BY SizeIs, MaskedRange, LongsAreInt
<1>2. PICK x \in Int, y \in Int : x = s + k /\ y = u + k
  OBVIOUS
<1>3. Masked(4, x) = Masked(4, y)
  <2>1. Masked(4, Masked(4, u) + k) = Masked(4, u + k)
    BY SizeIs, MaskedSum
  <2> QED BY <1>1, <1>2, <2>1
<1>4. LongIn(M, Masked(4, x)) = LongIn(M, x) /\ LongIn(M, Masked(4, y)) = LongIn(M, y)
  BY LongAround
<1> QED BY <1>1, <1>2, <1>3, <1>4

\* Bytes in the second or third of three longs.
LEMMA InThree ==
  ASSUME NEW a \in Nat \ {0}, a >= 64, NEW b \in Int, NEW u \in Int, NEW k \in {0, 4, 8},
         (b - (u + k)) % a < 4
  PROVE  (b - u) % a < 12
<1>1. PICK x \in Int, y \in Int : x = b - (u + k) /\ y = b - u /\ y = x + k
  OBVIOUS
<1>2. PICK q \in Int, r \in 0..(a - 1) : q = x \div a /\ r = x % a /\ x = q * a + r
      /\ q * a \in Int
  BY DivMod
<1>3. r < 4
  BY <1>1, <1>2
<1>4. q * a <= y /\ y < q * a + a /\ y - q * a < 12
  BY <1>1, <1>2, <1>3
<1>5. y % a = y - q * a
  BY <1>4, DivIs
<1> QED BY <1>1, <1>4, <1>5

\* Three registers go to three longs, one behind the other.
StoredThree(p, at, x, y, w) ==
  /\ LongIn(p.mem, at) = Register(cpu, x) /\ LongIn(p.mem, at + 4) = Register(cpu, y)
  /\ LongIn(p.mem, at + 8) = Register(cpu, w)

\* Three registers are stored, whichever they are.
LEMMA StoreThree ==
  ASSUME cpu \in Machine, NEW n \in Machine, NEW i, NEW x, NEW y, NEW w, InOrder(i.regs, x, y,
         w),
         NEW at \in Int, NEW p, p = StoreAll(i, n, 4, at)
  PROVE  /\ p \in Machine /\ Becomes(p, n.d, n.a, p.mem, n.pc) /\ p.f = n.f
         /\ Wrote(n.mem, p.mem, 12, at) /\ StoredThree(p, at, x, y, w)
<1>1. PICK R : R = i.regs
  OBVIOUS
<1>2. /\ Rank(R, x) = 0 /\ Rank(R, y) = 1 /\ Rank(R, w) = 2 /\ R \subseteq 0..15
      /\ x \in R /\ y \in R /\ w \in R /\ R = {x, y, w} /\ x # y /\ y # w /\ x # w
  <2>1. InOrder(R, x, y, w)
    BY <1>1
  <2>2. /\ Rank(R, x) = 0 /\ Rank(R, y) = 1 /\ Rank(R, w) = 2 /\ Cardinality(R) = 3
        /\ R \subseteq 0..15
    BY <2>1, Ranks
  <2> QED BY <2>1, <2>2 DEF InOrder
<1>3. PICK place : place = [r \in R |-> at + 4 * Rank(R, r)]
  OBVIOUS
<1>4. place[x] = at /\ place[y] = at + 4 /\ place[w] = at + 8
  <2>1. place[x] = at + 4 * 0 /\ place[y] = at + 4 * 1 /\ place[w] = at + 4 * 2
    BY <1>2, <1>3
  <2> QED BY <2>1
<1>5. place \in [R -> Int]
  BY <1>2, <1>3, <1>4
<1>6. StoredList(n, p, R, place, 4)
  BY <1>1, <1>2, <1>3, SizeIs, StoreAllIs
<1>7. PICK a \in Nat \ {0} : a = AddressSpace /\ a >= 64
  BY SpaceIs
<1>8. Aside(R, place, x) /\ Aside(R, place, y) /\ Aside(R, place, w)
  <2>1. /\ (at + 4) - at \in 4..(a - 4) /\ (at + 8) - at \in 4..(a - 4)
        /\ (at + 8) - (at + 4) \in 4..(a - 4)
    BY <1>7
  <2>2. Aside(R, place, x)
    BY <1>2, <1>4, <1>7, <2>1 DEF Aside
  <2>3. Aside(R, place, y)
    BY <1>2, <1>4, <1>7, <2>1 DEF Aside
  <2>4. Aside(R, place, w)
    BY <1>2, <1>4, <1>7, <2>1 DEF Aside
  <2> QED BY <2>2, <2>3, <2>4
<1>9. StoredThree(p, at, x, y, w)
  <2>1. ASSUME NEW r \in R, Aside(R, place, r)
        PROVE  LongIn(p.mem, place[r]) = Register(cpu, r)
    <3>1. Laid(n, p, R, place, r)
      BY <1>2, <1>5, <1>6, <2>1 DEF Laid
    <3> QED BY ONLY <3>1, ListedLong
  <2> QED BY <1>2, <1>4, <1>8, <2>1 DEF StoredThree
<1>10. Wrote(n.mem, p.mem, 12, at)
  <2>1. ASSUME NEW b \in Space, p.mem[b] # n.mem[b]
        PROVE  (b - at) % AddressSpace < 12
    <3>1. PICK r \in R : Within(b, place[r], 4)
      BY <1>6, <2>1 DEF StoredList, OfRegister
    <3>2. PICK k \in {0, 4, 8} : place[r] = at + k
      <4>1. at = at + 0
        OBVIOUS
      <4> QED BY <1>2, <1>4, <4>1
    <3>3. b \in Int
      BY SpaceIs DEF Space
    <3>4. (b - (at + k)) % a < 4
      BY <1>7, <3>1, <3>2 DEF Within
    <3>5. (b - at) % a < 12
      BY <1>7, <3>3, <3>4, InThree
    <3> QED BY <1>7, <3>5
  <2>2. p.mem \in [Space -> Range0(1)]
    BY <1>6, MachineIs DEF StoredList
  <2> QED BY <2>1, <2>2 DEF Wrote
<1> QED BY <1>6, <1>9, <1>10 DEF StoredList

\* Three registers go to the stack.
SavesThree(x, y, w) ==
  /\ Becomes(cpu', cpu.d, StackedA(cpu.a, -12), cpu'.mem, Ahead(4))
  /\ Wrote(cpu.mem, cpu'.mem, 12, cpu.a[7] - 12)
  /\ StoredThree(cpu', cpu.a[7] - 12, x, y, w)

\* movem.l of three registers to -(a7).
LEMMA SaveBecomes ==
  ASSUME cpu \in Machine, NEW i, movem_32_re_pd(i), i.ea.r = 7,
         NEW x, NEW y, NEW w, InOrder(i.regs, x, y, w)
  PROVE  SavesThree(x, y, w)
<1>1. PICK n : n = Listed
  OBVIOUS
<1>2. n \in Machine /\ Becomes(n, cpu.d, cpu.a, cpu.mem, Ahead(4))
  BY <1>1, WordsBecome DEF Listed
<1>3. PICK u \in Int, s \in Int : u = cpu.a[7] - 12 /\ s = Masked(4, u) /\ s \in Range0(4)
  <2>1. PICK u \in Int : u = cpu.a[7] - 12
    BY MachineIs DEF Registers
  <2>2. Masked(4, u) \in Range0(4) /\ Masked(4, u) \in Int
    BY SizeIs, MaskedRange, LongsAreInt
  <2> QED BY <2>1, <2>2
<1>4. Length(i, 4) = 12
  <2>1. Cardinality(i.regs) = 3
    BY Ranks
  <2> QED BY <2>1 DEF Length
<1>5. PICK p : p = StoreAll(i, n, 4, s)
  OBVIOUS
<1>6. /\ p \in Machine /\ Becomes(p, n.d, n.a, p.mem, n.pc) /\ p.f = n.f
      /\ Wrote(n.mem, p.mem, 12, s) /\ StoredThree(p, s, x, y, w)
  BY <1>2, <1>3, <1>5, StoreThree
<1>7. cpu' = PutA(p, 7, s)
  BY <1>1, <1>3, <1>4, <1>5 DEF movem_32_re_pd, SaveDown
<1>8. Becomes(cpu', cpu.d, [cpu.a EXCEPT ![7] = s], p.mem, Ahead(4))
  <2>1. Becomes(p, cpu.d, cpu.a, p.mem, Ahead(4))
    BY <1>2, <1>6 DEF Becomes
  <2>2. Masked(4, s) = s
    BY <1>3, LongIs
  <2> QED BY <1>6, <1>7, <2>1, <2>2, PutABecomes
<1>9. StackedA(cpu.a, -12) = [cpu.a EXCEPT ![7] = s]
  <2>1. PICK v \in Int : v = cpu.a[7]
    BY MachineIs DEF Registers
  <2>2. v + -12 = v - 12
    OBVIOUS
  <2> QED BY <1>3, <2>1, <2>2 DEF StackedA
<1>10. Wrote(cpu.mem, p.mem, 12, u)
  BY <1>2, <1>3, <1>6, WroteAround DEF Becomes
<1>11. StoredThree(p, u, x, y, w)
  <2>1. p.mem \in [Space -> Range0(1)]
    BY <1>6, MachineIs
  <2>2. LongIn(p.mem, s) = LongIn(p.mem, u)
    BY <1>3, <2>1, LongAround
  <2>3. LongIn(p.mem, s + 4) = LongIn(p.mem, u + 4)
        /\ LongIn(p.mem, s + 8) = LongIn(p.mem, u + 8)
    <3>1. PICK j \in Int, k \in Int : j = 4 /\ k = 8
      OBVIOUS
    <3>2. LongIn(p.mem, Masked(4, u) + j) = LongIn(p.mem, u + j)
      BY <2>1, LongNear
    <3>3. LongIn(p.mem, Masked(4, u) + k) = LongIn(p.mem, u + k)
      BY <2>1, LongNear
    <3> QED BY <1>3, <3>1, <3>2, <3>3
  <2> QED BY <1>6, <2>2, <2>3 DEF StoredThree
<1> QED BY <1>3, <1>8, <1>9, <1>10, <1>11 DEF SavesThree, Becomes, StoredThree

-----------------------------------------------------------------------------
\* A long is extended to itself.
LEMMA LongStays == ASSUME NEW v \in Range0(4) PROVE Extended(4, v) = v
<1>1. PICK h \in Nat \ {0}, w \in Int : h = Half[4] /\ w = Mod(4) /\ w = 2 * h
  BY SizeIs, Widths
<1>2. v \in 0..(w - 1)
  BY <1>1 DEF Range0
<1>3. PICK j \in Int : j = MakeInt(4, v) /\ j = IF v < h THEN v ELSE v - w
  BY <1>1, SizeIs, SignedIs DEF Signed
<1>4. Masked(4, j) = IF j < 0 THEN j + w ELSE IF j < w THEN j ELSE j - w
  <2>2. -Mod(4) <= j /\ j < 2 * Mod(4)
    BY <1>1, <1>2, <1>3
  <2>3. Masked(4, j) = IF j < 0 THEN j + Mod(4) ELSE IF j < Mod(4) THEN j ELSE j - Mod(4)
    BY <2>2, SizeIs, Bits2
  <2> QED BY <1>1, <2>3
<1> QED BY <1>1, <1>2, <1>3, <1>4 DEF Extended

\* Three registers from three longs, one behind the other, and the stack above
\* them.
TakesThree(R, x, y, w) ==
  /\ cpu'.mem = cpu.mem /\ cpu'.pc = Ahead(4) /\ cpu'.a[7] = Masked(4, cpu.a[7] + 12)
  /\ \A r \in Registers : r \notin R => cpu'.d[r] = cpu.d[r]
  /\ \A r \in Registers \ {7} : r + 8 \notin R => cpu'.a[r] = cpu.a[r]
  /\ Register(cpu', x) = LongIn(cpu.mem, cpu.a[7])
  /\ Register(cpu', y) = LongIn(cpu.mem, cpu.a[7] + 4)
  /\ Register(cpu', w) = LongIn(cpu.mem, cpu.a[7] + 8)

\* A long loaded is the long in the memory.
LEMMA LoadedLong ==
  ASSUME NEW n \in Machine, NEW at \in Int
  PROVE  Extended(4, Read(n, 4, at)) = LongIn(n.mem, at) /\ LongIn(n.mem, at) \in Range0(4)
<1>1. Read(n, 4, at) \in Range0(4)
  BY SizeIs, ReadRange DEF Read
<1> QED BY <1>1, LongStays, ReadsLong

\* A list of registers is loaded.
LEMMA LoadAllIs ==
  ASSUME NEW n \in Machine, NEW i, NEW at, NEW p, p = LoadAll(i, n, 4, at), NEW R, R = i.regs,
         NEW g, g = [r \in R |-> Extended(4, Read(n, 4, at + 4 * Rank(R, r)))]
  PROVE  /\ Becomes(p, p.d, p.a, n.mem, n.pc)
         /\ \A r \in Registers : p.d[r] = IF r \in R THEN g[r] ELSE n.d[r]
         /\ \A r \in Registers : p.a[r] = IF r + 8 \in R THEN g[r + 8] ELSE n.a[r]
<1>1. p = [n EXCEPT
         !.d = [r \in Registers |-> IF r \in R THEN Extended(4, Read(n, 4, at + 4 * Rank(R, r)))
                                    ELSE n.d[r]],
         !.a = [r \in Registers |-> IF r + 8 \in R
                                    THEN Extended(4, Read(n, 4, at + 4 * Rank(R, r + 8)))
                                    ELSE n.a[r]]]
  BY MachineIs DEF LoadAll
<1>2. \A r \in R : g[r] = Extended(4, Read(n, 4, at + 4 * Rank(R, r)))
  OBVIOUS
<1>3. /\ p.mem = n.mem /\ p.pc = n.pc
      /\ p.d = [r \in Registers |-> IF r \in R THEN Extended(4, Read(n, 4, at + 4 * Rank(R, r)))
                                    ELSE n.d[r]]
      /\ p.a = [r \in Registers |-> IF r + 8 \in R
                                    THEN Extended(4, Read(n, 4, at + 4 * Rank(R, r + 8)))
                                    ELSE n.a[r]]
  BY <1>1 DEF Machine
<1> QED BY <1>2, <1>3 DEF Becomes

\* movem.l (a7)+ to three registers, none of them a7.
LEMMA RestoreBecomes ==
  ASSUME cpu \in Machine, NEW i, movem_32_er_pi(i), i.ea.r = 7,
         NEW x, NEW y, NEW w, InOrder(i.regs, x, y, w), w # 15
  PROVE  TakesThree(i.regs, x, y, w)
<1>1. PICK n, R : n = Listed /\ R = i.regs
  OBVIOUS
<1>2. n \in Machine /\ Becomes(n, cpu.d, cpu.a, cpu.mem, Ahead(4))
  BY <1>1, WordsBecome DEF Listed
<1>3. /\ Rank(R, x) = 0 /\ Rank(R, y) = 1 /\ Rank(R, w) = 2 /\ Cardinality(R) = 3
      /\ R \subseteq 0..15
  <2>1. InOrder(R, x, y, w)
    BY <1>1
  <2> QED BY <2>1, Ranks
<1>4. /\ x \in R /\ y \in R /\ w \in R /\ 15 \notin R
      /\ x \in 0..15 /\ y \in 0..15 /\ w \in 0..15
  BY <1>1 DEF InOrder
<1>5. Length(i, 4) = 12
  BY <1>1, <1>3 DEF Length
<1>6. PICK at \in Range0(4) : at = cpu.a[7]
  BY MachineIs DEF Registers
<1>7. at \in Int
  BY LongsAreInt
<1>8. PICK p : p = LoadAll(i, n, 4, at)
  OBVIOUS
<1>9. cpu' = PutA(p, 7, at + 12)
  BY <1>1, <1>5, <1>6, <1>8 DEF movem_32_er_pi, RestoreUp
<1>10. PICK g : g = [r \in R |-> Extended(4, Read(n, 4, at + 4 * Rank(R, r)))]
  OBVIOUS
<1>11. /\ Becomes(p, p.d, p.a, n.mem, n.pc)
       /\ \A r \in Registers : p.d[r] = IF r \in R THEN g[r] ELSE n.d[r]
       /\ \A r \in Registers : p.a[r] = IF r + 8 \in R THEN g[r + 8] ELSE n.a[r]
  BY <1>1, <1>2, <1>8, <1>10, LoadAllIs
<1>12. p \in Machine
  <2>1. PICK Ds, Bs : Ds = i.regs \cap Registers /\ Bs = {r \in Registers : r + 8 \in i.regs}
    OBVIOUS
  <2>2. Takes(n, p, Ds, Bs)
    <3>1. i.regs \subseteq 0..15
      BY <1>1, <1>3
    <3> QED BY <1>2, <1>7, <1>8, <2>1, <3>1, SizeIs, LoadAllTakes
  <2> QED BY <1>2, <2>2 DEF Takes, Machine
<1>13. Becomes(cpu', p.d, [p.a EXCEPT ![7] = Masked(4, at + 12)], cpu.mem, Ahead(4))
  <2>1. Becomes(p, p.d, p.a, cpu.mem, Ahead(4))
    BY <1>2, <1>11 DEF Becomes
  <2> QED BY <1>9, <1>12, <2>1, PutABecomes
<1>14. /\ g[x] = LongIn(cpu.mem, at) /\ g[y] = LongIn(cpu.mem, at + 4)
       /\ g[w] = LongIn(cpu.mem, at + 8)
  <2>1. PICK j \in Int, k \in Int : j = at + 4 /\ k = at + 8
    BY <1>7
  <2>2. at + 4 * 0 = at /\ at + 4 * 1 = j /\ at + 4 * 2 = k
    BY <1>7, <2>1
  <2>3. g[x] = Extended(4, Read(n, 4, at)) /\ g[y] = Extended(4, Read(n, 4, j))
        /\ g[w] = Extended(4, Read(n, 4, k))
    BY <1>3, <1>4, <1>10, <2>2
  <2>4. n.mem = cpu.mem
    BY <1>2 DEF Becomes
  <2> QED BY <1>2, <1>7, <2>1, <2>3, <2>4, LoadedLong
<1>15. p.a \in [Registers -> Range0(4)] /\ 7 \in Registers
  BY <1>12, MachineIs DEF Registers
<1>16. /\ cpu'.d = p.d /\ cpu'.mem = cpu.mem /\ cpu'.pc = Ahead(4)
       /\ cpu'.a[7] = Masked(4, at + 12) /\ \A r \in Registers \ {7} : cpu'.a[r] = p.a[r]
  BY <1>13, <1>15 DEF Becomes
<1>17. /\ \A r \in Registers : r \notin R => cpu'.d[r] = cpu.d[r]
       /\ \A r \in Registers \ {7} : r + 8 \notin R => cpu'.a[r] = cpu.a[r]
  BY <1>2, <1>11, <1>16 DEF Becomes
<1>18. ASSUME NEW r \in R
       PROVE  Register(cpu', r) = g[r]
  <2>1. CASE r < 8
    <3>1. r \in Registers
      BY <1>3, <2>1 DEF Registers
    <3> QED BY <1>11, <1>16, <2>1, <3>1 DEF Register
  <2>2. CASE ~(r < 8)
    <3>1. PICK q \in Registers \ {7} : q = r - 8 /\ q + 8 = r
      <4>1. r \in 0..15 /\ r # 15
        BY <1>3, <1>4
      <4> QED BY <2>2, <4>1 DEF Registers
    <3> QED BY <1>11, <1>16, <2>2, <3>1 DEF Register
  <2> QED BY <2>1, <2>2
<1> QED BY <1>1, <1>4, <1>6, <1>14, <1>16, <1>17, <1>18 DEF TakesThree

-----------------------------------------------------------------------------
(* The stack of a routine.                                                 *)

\* The stack of the program's start, k bytes further down, and a long there.
StackAt(k) == Masked(4, start.a[7] - k)
OnStack(k) == LongIn(cpu.mem, start.a[7] - k)

\* The stack is at a long, and begins where the program did.
LEMMA StackIs == ASSUME start \in Machine, NEW k \in Int
  PROVE  /\ start.a[7] \in Int /\ start.a[7] - k \in Int
         /\ StackAt(k) \in Range0(4) /\ StackAt(k) \in Int /\ StackAt(0) = start.a[7]
<1>1. start.a[7] \in Range0(4)
  BY MachineIs DEF Registers
<1>2. PICK u \in Int : u = start.a[7] /\ Masked(4, u) = u
  BY <1>1, LongsAreInt, LongIs
<1>3. PICK x \in Int : x = u - k
  OBVIOUS
<1>4. Masked(4, x) \in Range0(4) /\ Masked(4, x) \in Int
  BY SizeIs, MaskedRange, LongsAreInt
<1>5. u - 0 = u
  OBVIOUS
<1> QED BY <1>2, <1>3, <1>4, <1>5 DEF StackAt

\* The stack moves from k bytes further down to l.
Moves1(k, l, x) == k \in Int /\ l \in Int /\ x \in Int /\ x = StackAt(k) + k - l

\* The stack pointer after a move.
LEMMA StackMoves == ASSUME start \in Machine, NEW k, NEW l, NEW x, Moves1(k, l, x)
  PROVE  Masked(4, x) = StackAt(l)
<1>1. k \in Int /\ l \in Int /\ x = StackAt(k) + k - l /\ StackAt(k) \in Int
  BY StackIs DEF Moves1
<1>2. PICK u \in Int, j \in Int, w \in Int : u = start.a[7] - k /\ j = k - l
      /\ w = start.a[7] - l /\ w = u + j
  BY <1>1, StackIs
<1>3. x = Masked(4, u) + j
  BY <1>1, <1>2 DEF StackAt
<1>4. Masked(4, Masked(4, u) + j) = Masked(4, u + j)
  BY SizeIs, MaskedSum
<1> QED BY <1>2, <1>3, <1>4 DEF StackAt

\* A long on the stack, seen from the stack pointer.
LEMMA StackReads ==
  ASSUME start \in Machine, NEW k, NEW l, NEW x, Moves1(k, l, x), NEW M \in [Space -> Range0(1)]
  PROVE  LongIn(M, x) = LongIn(M, start.a[7] - l)
<1>1. Masked(4, x) = StackAt(l) /\ x \in Int /\ l \in Int
  BY StackMoves DEF Moves1
<1>2. PICK w \in Int : w = start.a[7] - l /\ Masked(4, w) = StackAt(l)
  BY <1>1, StackIs DEF StackAt
<1>3. LongIn(M, Masked(4, x)) = LongIn(M, x) /\ LongIn(M, Masked(4, w)) = LongIn(M, w)
  BY <1>1, LongAround
<1> QED BY <1>1, <1>2, <1>3

\* A write on the stack, seen from the stack pointer.
LEMMA StackWrites ==
  ASSUME start \in Machine, NEW k, NEW l, NEW x, Moves1(k, l, x), NEW M, NEW N, NEW z,
         Wrote(M, N, z, x)
  PROVE  Wrote(M, N, z, start.a[7] - l)
<1>1. Masked(4, x) = StackAt(l) /\ x \in Int /\ l \in Int
  BY StackMoves DEF Moves1
<1>2. PICK w \in Int : w = start.a[7] - l /\ Masked(4, w) = StackAt(l)
  BY <1>1, StackIs DEF StackAt
<1>3. \A b \in Space : b \in Int
  BY SpaceIs DEF Space
<1>4. \A b \in Space : (b - x) % AddressSpace = (b - w) % AddressSpace
  <2>1. SUFFICES ASSUME NEW b \in Int PROVE (b - x) % AddressSpace = (b - w) % AddressSpace
    BY <1>3
  <2>2. (b - Masked(4, x)) % AddressSpace = (b - x) % AddressSpace
    BY <1>1, AroundLess
  <2>3. (b - Masked(4, w)) % AddressSpace = (b - w) % AddressSpace
    BY AroundLess
  <2> QED BY <1>1, <1>2, <2>2, <2>3
<1> QED BY <1>2, <1>4 DEF Wrote

\* A long of the stack that is not overwritten.
Clear(k, z, j) ==
  k \in Int /\ j \in Int /\ z \in 1..12 /\ (k - j \in z..60 \/ j - k \in 4..(64 - z))

\* A long on the stack that a write does not reach.
LEMMA StackKept ==
  ASSUME start \in Machine, start' = start, NEW k, NEW z, NEW j, Clear(k, z, j),
         Wrote(cpu.mem, cpu'.mem, z, start.a[7] - k)
  PROVE  OnStack(j)' = OnStack(j)
<1>1. k \in Int /\ j \in Int /\ z \in Nat
  BY DEF Clear
<1>2. PICK at \in Int, c \in Int, a \in Nat :
        /\ at = start.a[7] - k /\ c = start.a[7] - j /\ a = AddressSpace /\ a >= 64
        /\ c - at = k - j /\ at - c = j - k
  BY <1>1, StackIs, SpaceIs
<1>3. c - at \in z..(a - 4) \/ at - c \in 4..(a - z)
  BY <1>2 DEF Clear
<1>4. Apart(at, z, c)
  BY <1>2, <1>3 DEF Apart
<1>5. LongIn(cpu'.mem, c) = LongIn(cpu.mem, c)
  BY <1>1, <1>2, <1>4, LongApart
<1> QED BY <1>2, <1>5 DEF OnStack

-----------------------------------------------------------------------------
(* A subroutine.                                                           *)

\* A push below k bytes of the stack.
Pushed(k, l, v) ==
  /\ k \in 0..40 /\ l = k + 4 /\ cpu.a[7] = StackAt(k) /\ start \in Machine /\ start' = start
  /\ cpu' \in Machine /\ WroteLong(cpu.mem, cpu'.mem, cpu.a[7] - 4, v)

\* What is pushed is on the stack.
LEMMA StackPushed == ASSUME NEW k, NEW l, NEW v, Pushed(k, l, v)
  PROVE  /\ OnStack(l)' = v /\ Masked(4, cpu.a[7] - 4) = StackAt(l)
         /\ Wrote(cpu.mem, cpu'.mem, 4, start.a[7] - l)
<1>1. start \in Machine /\ start' = start /\ cpu' \in Machine /\ l \in Int /\ k \in Int
  BY DEF Pushed
<1>2. PICK x \in Int : x = cpu.a[7] - 4 /\ x = StackAt(k) + k - l
  BY <1>1, StackIs DEF Pushed
<1>3. Moves1(k, l, x)
  BY <1>1, <1>2 DEF Moves1
<1>4. Wrote(cpu.mem, cpu'.mem, 4, x) /\ LongIn(cpu'.mem, x) = v
  BY <1>2 DEF Pushed, WroteLong
<1>5. Masked(4, x) = StackAt(l) /\ Wrote(cpu.mem, cpu'.mem, 4, start.a[7] - l)
  BY <1>1, <1>3, <1>4, StackMoves, StackWrites
<1>6. LongIn(cpu'.mem, start.a[7] - l) = v
  <2>1. cpu'.mem \in [Space -> Range0(1)]
    BY <1>1, MachineIs
  <2> QED BY <1>1, <1>3, <1>4, <2>1, StackReads
<1> QED BY <1>1, <1>2, <1>5, <1>6 DEF OnStack

-----------------------------------------------------------------------------
\* What a call leaves on the stack and in the registers, from bsr to rts.
CallSame == cpu.d = start.d /\ cpu.a = start.a
CallInside ==
  /\ cpu.d = start.d /\ cpu.a = [start.a EXCEPT ![7] = StackAt(4)]
  /\ OnStack(4) = Org + 2
CallFramed ==
  /\ cpu.d = start.d /\ cpu.a = [start.a EXCEPT ![2] = StackAt(8), ![7] = StackAt(12)]
  /\ OnStack(4) = Org + 2 /\ OnStack(8) = start.a[2]
CallSaved ==
  /\ \A r \in Registers \ {2, 3} : cpu.d[r] = start.d[r]
  /\ \A r \in Registers \ {2, 3, 7} : cpu.a[r] = start.a[r]
  /\ cpu.a[2] = StackAt(8) /\ cpu.a[7] = StackAt(24)
  /\ OnStack(4) = Org + 2 /\ OnStack(8) = start.a[2]
  /\ OnStack(24) = start.d[2] /\ OnStack(20) = start.d[3] /\ OnStack(16) = start.a[3]
CallInv ==
  code = Calling =>
    \/ cpu.pc \in {Org, Org + 2} /\ CallSame
    \/ cpu.pc \in {Org + 8, Org + 30} /\ CallInside
    \/ cpu.pc \in {Org + 12, Org + 28} /\ CallFramed
    \/ cpu.pc \in {Org + 16, Org + 18, Org + 20, Org + 24} /\ CallSaved

CallOffsets == {0, 8, 12, 16, 18, 20, 24, 28, 30}

\* The lines of Calling.
LEMMA CallingLines ==
  ASSUME code = Calling
  PROVE  /\ DOMAIN code = {Org + k : k \in CallOffsets}
         /\ \A k \in CallOffsets : cpu.pc = Org + k => Instr = Called(k)
<1>1. Org \in Int
  BY ProgramAssumption, LongsAreInt
<1>2. ASSUME NEW k \in CallOffsets PROVE Org + k - Org = k
      /\ Org + k \in {Org + j : j \in CallOffsets}
  BY <1>1, <1>2 DEF CallOffsets
<1>3. code = [at \in {Org + k : k \in CallOffsets} |-> Called(at - Org)]
  BY DEF Calling, CallOffsets
<1>4. PICK O : O = {Org + k : k \in CallOffsets}
  OBVIOUS
<1>5. code = [at \in O |-> Called(at - Org)] /\ DOMAIN code = O
  BY <1>3, <1>4
<1>6. ASSUME NEW k \in CallOffsets, cpu.pc = Org + k PROVE Instr = Called(k)
  <2>1. Org + k - Org = k /\ Org + k \in O
    BY <1>2, <1>4
  <2>2. PICK at, c : at = Org + k /\ c = at - Org
    OBVIOUS
  <2>3. code[at] = Called(c)
    BY <1>5, <2>1, <2>2
  <2>4. c = k
    BY <1>1, <2>2 DEF CallOffsets
  <2>5. code[at] = Called(k)
    BY <2>3, <2>4, Zenon
  <2> QED BY <1>6, <2>2, <2>5 DEF Instr
<1> QED BY <1>4, <1>5, <1>6

\* The next line is the next one but for the end of the address space.
LEMMA CallingNext ==
  ASSUME code \in Programs, code = Calling, NEW k \in CallOffsets, cpu.pc = Org + k,
         NEW j, NEW l \in CallOffsets \cup {2}, l = k + j, j \in Nat
  PROVE  Ahead(j) = Org + l
<1>1. Org \in Int /\ k \in Nat /\ l \in Nat
  BY ProgramAssumption, LongsAreInt DEF CallOffsets
<1>2. Org + 30 \in Range0(4)
  <2>1. Org + 30 \in DOMAIN code
    BY CallingLines DEF CallOffsets
  <2> QED BY <2>1, LineAddress
<1>3. PICK o \in Int, m \in Nat : o = Org /\ m = Mod(4) /\ o \in 0..(m - 1)
      /\ o + 30 \in 0..(m - 1)
  BY <1>1, <1>2, ProgramAssumption, LongIs DEF Range0
<1>4. l \in 0..30
  BY DEF CallOffsets
<1>5. PICK x \in Int : x = o + l
  BY <1>4
<1>6. x \in Range0(4)
  BY <1>3, <1>4, <1>5 DEF Range0
<1>7. Masked(4, x) = x
  BY <1>6, LongIs
<1>8. cpu.pc + j = x
  BY <1>1, <1>3, <1>5
<1> QED BY <1>3, <1>5, <1>7, <1>8 DEF Ahead

\* Calling is not the test program.
LEMMA CallingIsNotTest == Calling # TestCode
<1>1. PICK o \in Int : o = Org
  BY ProgramAssumption, LongsAreInt
<1>2. Org + 70 \in DOMAIN TestCode
  BY DEF TestCode, Lines
<1>3. Org + 70 \notin DOMAIN Calling
  <2>1. \A k \in CallOffsets : o + 70 # o + k
    BY DEF CallOffsets
  <2>2. DOMAIN Calling = {Org + k : k \in CallOffsets}
    BY DEF Calling, CallOffsets
  <2> QED BY <1>1, <2>1, <2>2
<1> QED BY <1>2, <1>3

-----------------------------------------------------------------------------
\* The lines, one by one.
LEMMA CalledIs ==
  /\ Called(0) = [Plain EXCEPT !.name = "bsr", !.z = 1, !.q = 6]
  /\ Called(8) = [Plain EXCEPT !.name = "link", !.z = 2, !.ea = A(2), !.q = Mod(2) - 4]
  /\ Called(12) = Movem("re", Pd(7), {2, 3, 11})
  /\ Called(16) = [Plain EXCEPT !.name = "moveq", !.x = 2, !.q = Mod(1) - 1]
  /\ Called(18) = [Plain EXCEPT !.name = "exg", !.form = "da", !.x = 3, !.ea = A(3)]
  /\ Called(20) = Move_(4, D(2), Di(Mod(2) - 4, 2))
  /\ Called(24) = Movem("er", Pi(7), {2, 3, 11})
  /\ Called(28) = [Plain EXCEPT !.name = "unlk", !.ea = A(2)]
  /\ Called(30) = [Plain EXCEPT !.name = "rts"]
BY DEF Called

\* What the lines are.
CalledAs(k, i) ==
  /\ k = 0 => i.name = "bsr" /\ i.z = 1 /\ i.q = 6
  /\ k = 8 => i.name = "link" /\ i.z = 2 /\ i.q = Mod(2) - 4 /\ i.ea = A(2)
  /\ k = 12 => i.name = "movem" /\ i.z = 4 /\ i.form = "re" /\ i.ea = Pd(7)
     /\ i.regs = {2, 3, 11}
  /\ k = 16 => i.name = "moveq" /\ i.x = 2
  /\ k = 18 => i.name = "exg" /\ i.form = "da" /\ i.x = 3 /\ i.ea = A(3)
  /\ k = 20 => i.name = "move" /\ i.z = 4 /\ i.form = "di" /\ i.ea = D(2)
     /\ i.to = Di(Mod(2) - 4, 2)
  /\ k = 24 => i.name = "movem" /\ i.z = 4 /\ i.form = "er" /\ i.ea = Pi(7)
     /\ i.regs = {2, 3, 11}
  /\ k = 28 => i.name = "unlk" /\ i.ea = A(2)
  /\ k = 30 => i.name = "rts"

\* The fields of the lines that their handlers look at.
LEMMA CalledNames == ASSUME NEW k \in CallOffsets, NEW i, i = Called(k)
  PROVE  CalledAs(k, i) /\ (i.name = "move" => i.form = "di") /\ i.name # "addq"
<1>1. CASE k = 0
  <2>1. i = [Plain EXCEPT !.name = "bsr", !.z = 1, !.q = 6]
    BY <1>1, CalledIs
  <2>2. i.name = "bsr" /\ i.z = 1 /\ i.q = 6
    BY <2>1 DEF Plain
  <2> QED BY <1>1, <2>2 DEF CalledAs
<1>2. CASE k = 8
  <2>1. i = [Plain EXCEPT !.name = "link", !.z = 2, !.ea = A(2), !.q = Mod(2) - 4]
    BY <1>2, CalledIs
  <2>2. i.name = "link" /\ i.z = 2 /\ i.q = Mod(2) - 4 /\ i.ea = A(2)
    BY <2>1 DEF Plain
  <2> QED BY <1>2, <2>2 DEF CalledAs
<1>3. CASE k = 12
  <2>1. i = Movem("re", Pd(7), {2, 3, 11})
    BY <1>3, CalledIs
  <2>2. i.name = "movem" /\ i.z = 4 /\ i.form = "re" /\ i.ea = Pd(7) /\ i.regs = {2, 3, 11}
    BY <2>1 DEF Movem, Plain
  <2> QED BY <1>3, <2>2 DEF CalledAs
<1>4. CASE k = 16
  <2>1. i = [Plain EXCEPT !.name = "moveq", !.x = 2, !.q = Mod(1) - 1]
    BY <1>4, CalledIs
  <2>2. i.name = "moveq" /\ i.x = 2
    BY <2>1 DEF Plain
  <2> QED BY <1>4, <2>2 DEF CalledAs
<1>5. CASE k = 18
  <2>1. i = [Plain EXCEPT !.name = "exg", !.form = "da", !.x = 3, !.ea = A(3)]
    BY <1>5, CalledIs
  <2>2. i.name = "exg" /\ i.form = "da" /\ i.x = 3 /\ i.ea = A(3)
    BY <2>1 DEF Plain
  <2> QED BY <1>5, <2>2 DEF CalledAs
<1>6. CASE k = 20
  <2>1. i = Move_(4, D(2), Di(Mod(2) - 4, 2))
    BY <1>6, CalledIs
  <2>2. i.name = "move" /\ i.z = 4 /\ i.form = "di" /\ i.ea = D(2) /\ i.to = Di(Mod(2) - 4, 2)
    BY <2>1 DEF Move_, Di, Plain
  <2> QED BY <1>6, <2>2 DEF CalledAs
<1>7. CASE k = 24
  <2>1. i = Movem("er", Pi(7), {2, 3, 11})
    BY <1>7, CalledIs
  <2>2. i.name = "movem" /\ i.z = 4 /\ i.form = "er" /\ i.ea = Pi(7) /\ i.regs = {2, 3, 11}
    BY <2>1 DEF Movem, Plain
  <2> QED BY <1>7, <2>2 DEF CalledAs
<1>8. CASE k = 28
  <2>1. i = [Plain EXCEPT !.name = "unlk", !.ea = A(2)]
    BY <1>8, CalledIs
  <2>2. i.name = "unlk" /\ i.ea = A(2)
    BY <2>1 DEF Plain
  <2> QED BY <1>8, <2>2 DEF CalledAs
<1>9. CASE k = 30
  <2>1. i = [Plain EXCEPT !.name = "rts"]
    BY <1>9, CalledIs
  <2>2. i.name = "rts"
    BY <2>1 DEF Plain
  <2> QED BY <1>9, <2>2 DEF CalledAs
<1> QED BY <1>1, <1>2, <1>3, <1>4, <1>5, <1>6, <1>7, <1>8, <1>9 DEF CallOffsets

\* A step of the routine, on line k.
CallStep(k) ==
  /\ IInv /\ TypeOK' /\ Next /\ Running /\ ~Unready /\ code = Calling /\ start' = start
  /\ k \in CallOffsets /\ cpu.pc = Org + k

\* A line runs the handler of its name.
LEMMA CallOwn == ASSUME NEW k, CallStep(k), NEW i, i = Called(k)
  PROVE  /\ IsInstruction(i) /\ Own(i) /\ cpu \in Machine /\ cpu' \in Machine
         /\ start \in Machine /\ start' = start
<1>1. i = Instr
  BY CallingLines DEF CallStep
<1>2. (i.name = "move" => i.form # "toc") /\ (i.name = "addq" => i.form = "a")
  <2>1. (i.name = "move" => i.form = "di") /\ i.name # "addq"
    BY CalledNames DEF CallStep
  <2> QED BY <2>1
<1> QED BY <1>1, <1>2, StepOwn DEF CallStep, IInv, TypeOK

\* The address of a line ahead.
LEMMA CallGoes ==
  ASSUME NEW k, CallStep(k), NEW j \in Nat, NEW l \in CallOffsets \cup {2}, l = k + j
  PROVE  Ahead(j) = Org + l
BY CallingNext DEF CallStep, IInv

\* The registers of a machine, for reading and overwriting them.
LEMMA SpIs == ASSUME NEW m \in Machine
  PROVE  /\ m.a[7] \in Int /\ m.a \in [Registers -> Range0(4)]
            /\ m.d \in [Registers -> Range0(4)]
         /\ 2 \in Registers /\ 3 \in Registers /\ 7 \in Registers
         /\ \A r \in Registers : m.a[r] \in Int
BY MachineIs, LongsAreInt DEF Registers

\* bsr.
LEMMA CallOnce == ASSUME CallStep(0), CallSame PROVE cpu'.pc = Org + 8 /\ CallInside'
<1>1. PICK i : i = Called(0)
  OBVIOUS
<1>2. i.name = "bsr" /\ i.z = 1 /\ i.q = 6
  <2>1. CalledAs(0, i)
    BY <1>1, CalledNames DEF CallOffsets
  <2> QED BY <2>1 DEF CalledAs
<1>3. IsInstruction(i) /\ Own(i) /\ cpu \in Machine /\ cpu' \in Machine
      /\ start \in Machine /\ start' = start
  BY <1>1, CallOwn
<1>4. bsr_8(i)
  BY <1>2, <1>3 DEF Own, bsr_16, Does
<1>5. CallBecomes(Ahead(2), Ahead(2 + Signed(1, i.q)))
  BY <1>3, <1>4, BsrBecomes
<1>6. Signed(1, i.q) = 6
  BY <1>2, BytesHold DEF Signed
<1>7. Ahead(2) = Org + 2 /\ Ahead(8) = Org + 8
  <2>1. 2 \in Nat /\ 8 \in Nat /\ 2 \in CallOffsets \cup {2} /\ 8 \in CallOffsets \cup {2}
        /\ 2 = 0 + 2 /\ 8 = 0 + 8
    BY DEF CallOffsets
  <2> QED BY <2>1, CallGoes
<1>8. /\ Becomes(cpu', cpu.d, StackedA(cpu.a, -4), cpu'.mem, Org + 8)
      /\ WroteLong(cpu.mem, cpu'.mem, cpu.a[7] - 4, Org + 2)
  <2>1. 2 + 6 = 8
    OBVIOUS
  <2> QED BY <1>5, <1>6, <1>7, <2>1 DEF CallBecomes
<1>9. Pushed(0, 4, Org + 2)
  <2>1. cpu.a[7] = StackAt(0)
    BY <1>3, StackIs DEF CallSame
  <2> QED BY <1>3, <1>8, <2>1 DEF Pushed
<1>10. OnStack(4)' = Org + 2 /\ Masked(4, cpu.a[7] - 4) = StackAt(4)
  BY <1>9, StackPushed
<1>11. StackedA(cpu.a, -4) = [start.a EXCEPT ![7] = StackAt(4)]
  <2>1. PICK u \in Int : u = cpu.a[7]
    BY <1>3, SpIs
  <2>2. u + -4 = u - 4
    OBVIOUS
  <2> QED BY <1>10, <2>1, <2>2 DEF StackedA, CallSame
<1>12. StackAt(4)' = StackAt(4) /\ start'.a = start.a /\ start'.d = start.d
  BY <1>3 DEF StackAt
<1> QED BY <1>8, <1>10, <1>11, <1>12 DEF CallInside, Becomes, CallSame

\* link a2,#-4.
LEMMA CallLinks == ASSUME CallStep(8), CallInside PROVE cpu'.pc = Org + 12 /\ CallFramed'
<1>1. PICK i : i = Called(8)
  OBVIOUS
<1>2. i.name = "link" /\ i.z = 2 /\ i.q = Mod(2) - 4 /\ i.ea.r = 2
  <2>1. CalledAs(8, i)
    BY <1>1, CalledNames DEF CallOffsets
  <2>2. A(2).r = 2
    BY DEF A, None
  <2> QED BY <2>1, <2>2 DEF CalledAs
<1>3. IsInstruction(i) /\ Own(i) /\ cpu \in Machine /\ cpu' \in Machine
      /\ start \in Machine /\ start' = start
  BY <1>1, CallOwn
<1>4. link_16(i)
  BY <1>2, <1>3 DEF Own, link_16_a7, Does
<1>5. /\ Becomes(cpu', cpu.d,
                 [cpu.a EXCEPT ![2] = Masked(4, cpu.a[7] - 4),
                               ![7] = Masked(4, cpu.a[7] - 4 + Signed(2, i.q))],
                 cpu'.mem, Ahead(4))
      /\ WroteLong(cpu.mem, cpu'.mem, cpu.a[7] - 4, cpu.a[2])
  <2>1. PICK r : r = i.ea.r
    OBVIOUS
  <2>2. r = 2
    BY <1>2, <2>1
  <2>3. /\ Becomes(cpu', cpu.d,
                 [cpu.a EXCEPT ![r] = Masked(4, cpu.a[7] - 4),
                               ![7] = Masked(4, cpu.a[7] - 4 + Signed(2, i.q))],
                 cpu'.mem, Ahead(4))
      /\ WroteLong(cpu.mem, cpu'.mem, cpu.a[7] - 4, cpu.a[r])
    BY <1>3, <1>4, <2>1, LinkBecomes
  <2> QED BY <2>2, <2>3
<1>6. Signed(2, i.q) = -4
  <2>1. PICK h \in Int, w \in Int : h = Half[2] /\ w = Mod(2) /\ h >= 128 /\ w = 2 * h
    BY WordsHold
  <2>2. ~(w - 4 < h) /\ w - 4 - w = -4
    BY <2>1
  <2> QED BY <1>2, <2>1, <2>2 DEF Signed
<1>7. Ahead(4) = Org + 12
  <2>1. 4 \in Nat /\ 12 \in CallOffsets \cup {2} /\ 12 = 8 + 4
    BY DEF CallOffsets
  <2> QED BY <2>1, CallGoes
<1>8. PICK t \in Int : t = cpu.a[7] /\ t = StackAt(4) /\ cpu.a[2] = start.a[2] /\ cpu.d = start.d
  <2>1. cpu.a[7] = StackAt(4) /\ cpu.a[2] = start.a[2]
    BY <1>3, SpIs DEF CallInside
  <2> QED BY <1>3, <2>1, SpIs DEF CallInside
<1>9. OnStack(8)' = start.a[2] /\ Masked(4, t - 4) = StackAt(8)
      /\ Wrote(cpu.mem, cpu'.mem, 4, start.a[7] - 8)
  <2>1. Pushed(4, 8, start.a[2])
    BY <1>3, <1>5, <1>8 DEF Pushed
  <2> QED BY <1>8, <2>1, StackPushed
<1>10. OnStack(4)' = Org + 2
  <2>1. Clear(8, 4, 4)
    BY DEF Clear
  <2> QED BY <1>3, <1>9, <2>1, StackKept DEF CallInside
<1>11. Masked(4, t - 4 + -4) = StackAt(12)
  <2>1. Moves1(4, 12, t - 4 + -4)
    BY <1>8 DEF Moves1
  <2> QED BY <1>3, <2>1, StackMoves
<1>12. cpu'.a = [start.a EXCEPT ![2] = StackAt(8), ![7] = StackAt(12)]
  <2>1. cpu'.a = [cpu.a EXCEPT ![2] = StackAt(8), ![7] = StackAt(12)]
    BY <1>5, <1>6, <1>8, <1>9, <1>11 DEF Becomes
  <2> QED BY <1>3, <2>1, SpIs DEF CallInside
<1>13. StackAt(8)' = StackAt(8) /\ StackAt(12)' = StackAt(12) /\ start'.a = start.a
      /\ start'.d = start.d
  BY <1>3 DEF StackAt
<1> QED BY <1>5, <1>7, <1>8, <1>9, <1>10, <1>12, <1>13 DEF CallFramed, Becomes

-----------------------------------------------------------------------------
\* movem.l d2/d3/a3,-(a7).
LEMMA CallSaves == ASSUME CallStep(12), CallFramed PROVE cpu'.pc = Org + 16 /\ CallSaved'
<1>1. PICK i : i = Called(12)
  OBVIOUS
<1>2. i.name = "movem" /\ i.z = 4 /\ i.form = "re" /\ i.ea.mode = "pd" /\ i.ea.r = 7
      /\ i.regs = {2, 3, 11}
  <2>1. CalledAs(12, i)
    BY <1>1, CalledNames DEF CallOffsets
  <2>2. Pd(7).r = 7 /\ Pd(7).mode = "pd"
    BY DEF Pd, None
  <2> QED BY <2>1, <2>2 DEF CalledAs
<1>3. IsInstruction(i) /\ Own(i) /\ cpu \in Machine /\ cpu' \in Machine
      /\ start \in Machine /\ start' = start
  BY <1>1, CallOwn
<1>4. movem_32_re_pd(i)
  BY <1>2, <1>3
     DEF Own, SaveHandlers, RestoreHandlers, Does, movem_16_re_pd, movem_16_re, movem_32_re,
         movem_16_er_pi, movem_32_er_pi, movem_16_er, movem_32_er, Memory, Control
<1>5. SavesThree(2, 3, 11)
  <2>1. InOrder(i.regs, 2, 3, 11)
    BY <1>2 DEF InOrder
  <2> QED BY <1>2, <1>3, <1>4, <2>1, SaveBecomes
<1>6. Ahead(4) = Org + 16
  <2>1. 4 \in Nat /\ 16 \in CallOffsets \cup {2} /\ 16 = 12 + 4
    BY DEF CallOffsets
  <2> QED BY <2>1, CallGoes
<1>7. PICK t \in Int : t = cpu.a[7] /\ t = StackAt(12)
  BY <1>3, SpIs DEF CallFramed
<1>8. /\ Register(cpu, 2) = start.d[2] /\ Register(cpu, 3) = start.d[3]
      /\ Register(cpu, 11) = start.a[3]
  <2>1. /\ Register(cpu, 2) = cpu.d[2] /\ Register(cpu, 3) = cpu.d[3]
        /\ Register(cpu, 11) = cpu.a[3]
    BY DEF Register
  <2>2. cpu.a[3] = start.a[3]
    BY <1>3, SpIs DEF CallFramed
  <2> QED BY <2>1, <2>2 DEF CallFramed
<1>9. /\ Becomes(cpu', cpu.d, StackedA(cpu.a, -12), cpu'.mem, Org + 16)
      /\ Wrote(cpu.mem, cpu'.mem, 12, t - 12)
      /\ LongIn(cpu'.mem, t - 12) = start.d[2] /\ LongIn(cpu'.mem, t - 12 + 4) = start.d[3]
      /\ LongIn(cpu'.mem, t - 12 + 8) = start.a[3]
  BY <1>5, <1>6, <1>7, <1>8 DEF SavesThree, StoredThree
<1>10. Moves1(12, 24, t - 12) /\ Moves1(12, 20, t - 12 + 4) /\ Moves1(12, 16, t - 12 + 8)
       /\ Moves1(12, 24, t + -12)
  BY <1>7 DEF Moves1
<1>11. Wrote(cpu.mem, cpu'.mem, 12, start.a[7] - 24)
  BY <1>3, <1>9, <1>10, StackWrites
<1>12. /\ LongIn(cpu'.mem, t - 12) = LongIn(cpu'.mem, start.a[7] - 24)
       /\ LongIn(cpu'.mem, t - 12 + 4) = LongIn(cpu'.mem, start.a[7] - 20)
       /\ LongIn(cpu'.mem, t - 12 + 8) = LongIn(cpu'.mem, start.a[7] - 16)
  <2>1. cpu'.mem \in [Space -> Range0(1)]
    BY <1>3, MachineIs
  <2> QED BY <1>3, <1>10, <2>1, StackReads
<1>13. OnStack(24)' = start.d[2] /\ OnStack(20)' = start.d[3] /\ OnStack(16)' = start.a[3]
  BY <1>3, <1>9, <1>12 DEF OnStack
<1>14. OnStack(4)' = Org + 2 /\ OnStack(8)' = start.a[2]
  <2>1. Clear(24, 12, 4) /\ Clear(24, 12, 8)
    BY DEF Clear
  <2> QED BY <1>3, <1>11, <2>1, StackKept DEF CallFramed
<1>15. Masked(4, t + -12) = StackAt(24)
  BY <1>3, <1>10, StackMoves
<1>16. cpu'.d = start.d /\ cpu'.a = [[start.a EXCEPT ![2] = StackAt(8),
          ![7] = StackAt(12)] EXCEPT ![7] = StackAt(24)]
  BY <1>7, <1>9, <1>15 DEF Becomes, StackedA, CallFramed
<1>17. /\ cpu'.a[2] = StackAt(8) /\ cpu'.a[7] = StackAt(24)
       /\ \A r \in Registers \ {2, 3, 7} : cpu'.a[r] = start.a[r]
  BY <1>3, <1>16, SpIs
<1>18. StackAt(8)' = StackAt(8) /\ StackAt(24)' = StackAt(24) /\ start'.a = start.a
      /\ start'.d = start.d
  BY <1>3 DEF StackAt
<1> QED BY <1>9, <1>13, <1>14, <1>16, <1>17, <1>18 DEF CallSaved, Becomes

\* A line of the subroutine that overwrites saved registers, or the local of its
\* frame.
Overwrites ==
  /\ start \in Machine /\ start' = start
  /\ \A r \in Registers \ {2, 3} : cpu'.d[r] = cpu.d[r]
  /\ \A r \in Registers \ {3} : cpu'.a[r] = cpu.a[r]
  /\ cpu'.mem = cpu.mem \/ Wrote(cpu.mem, cpu'.mem, 4, start.a[7] - 12)

\* It leaves what is saved.
LEMMA StillSaved == ASSUME Overwrites, CallSaved PROVE CallSaved'
<1>1. \A k \in {4, 8, 16, 20, 24} : OnStack(k)' = OnStack(k)
  <2>1. SUFFICES ASSUME NEW k \in {4, 8, 16, 20, 24} PROVE OnStack(k)' = OnStack(k)
    OBVIOUS
  <2>2. CASE cpu'.mem = cpu.mem
    BY <2>2 DEF OnStack, Overwrites
  <2>3. CASE Wrote(cpu.mem, cpu'.mem, 4, start.a[7] - 12)
    <3>1. Clear(12, 4, k)
      BY DEF Clear
    <3> QED BY <2>3, <3>1, StackKept DEF Overwrites
  <2> QED BY <2>2, <2>3 DEF Overwrites
<1>2. StackAt(8)' = StackAt(8) /\ StackAt(24)' = StackAt(24) /\ start'.a = start.a
      /\ start'.d = start.d
  BY DEF StackAt, Overwrites
<1>3. /\ cpu'.a[2] = cpu.a[2] /\ cpu'.a[7] = cpu.a[7]
      /\ \A r \in Registers \ {2, 3, 7} : cpu'.a[r] = cpu.a[r]
  BY DEF Overwrites, Registers
<1> QED BY <1>1, <1>2, <1>3 DEF CallSaved, Overwrites

\* moveq #-1,d2.
LEMMA CallClobbers == ASSUME CallStep(16), CallSaved PROVE cpu'.pc = Org + 18 /\ CallSaved'
<1>1. PICK i : i = Called(16)
  OBVIOUS
<1>2. i.name = "moveq" /\ i.x = 2
  <2>1. CalledAs(16, i)
    BY <1>1, CalledNames DEF CallOffsets
  <2> QED BY <2>1 DEF CalledAs
<1>3. IsInstruction(i) /\ Own(i) /\ cpu \in Machine /\ cpu' \in Machine
      /\ start \in Machine /\ start' = start
  BY <1>1, CallOwn
<1>4. moveq_32(i)
  BY <1>2, <1>3 DEF Own
<1>5. PICK v : Becomes(cpu', [cpu.d EXCEPT ![2] = v], cpu.a, cpu.mem, Ahead(2))
  BY <1>2, <1>3, <1>4, MoveqBecomes
<1>6. Ahead(2) = Org + 18
  <2>1. 2 \in Nat /\ 18 \in CallOffsets \cup {2} /\ 18 = 16 + 2
    BY DEF CallOffsets
  <2> QED BY <2>1, CallGoes
<1>7. Overwrites
  BY <1>3, <1>5, SpIs DEF Overwrites, Becomes
<1> QED BY <1>5, <1>6, <1>7, StillSaved DEF Becomes

\* exg d3,a3.
LEMMA CallExchanges == ASSUME CallStep(18), CallSaved PROVE cpu'.pc = Org + 20 /\ CallSaved'
<1>1. PICK i : i = Called(18)
  OBVIOUS
<1>2. i.name = "exg" /\ i.form = "da" /\ i.x = 3 /\ i.ea.r = 3 /\ i.ea.mode = "a"
  <2>1. CalledAs(18, i)
    BY <1>1, CalledNames DEF CallOffsets
  <2>2. A(3).r = 3 /\ A(3).mode = "a"
    BY DEF A, None
  <2> QED BY <2>1, <2>2 DEF CalledAs
<1>3. IsInstruction(i) /\ Own(i) /\ cpu \in Machine /\ cpu' \in Machine
      /\ start \in Machine /\ start' = start
  BY <1>1, CallOwn
<1>4. exg_32_da(i)
  BY <1>2, <1>3 DEF Own, ExgHandlers, exg_32_dd, exg_32_aa, Does
<1>5. PICK u, v : Becomes(cpu', [cpu.d EXCEPT ![3] = u], [cpu.a EXCEPT ![3] = v], cpu.mem,
          Ahead(2))
  BY <1>2, <1>3, <1>4, ExgBecomes
<1>6. Ahead(2) = Org + 20
  <2>1. 2 \in Nat /\ 20 \in CallOffsets \cup {2} /\ 20 = 18 + 2
    BY DEF CallOffsets
  <2> QED BY <2>1, CallGoes
<1>7. Overwrites
  BY <1>3, <1>5, SpIs DEF Overwrites, Becomes
<1> QED BY <1>5, <1>6, <1>7, StillSaved DEF Becomes

\* move.l d2,-4(a2).
LEMMA CallStores == ASSUME CallStep(20), CallSaved PROVE cpu'.pc = Org + 24 /\ CallSaved'
<1>1. PICK i : i = Called(20)
  OBVIOUS
<1>2. i.name = "move" /\ i.z = 4 /\ i.form = "di" /\ i.ea = D(2) /\ i.to = Di(Mod(2) - 4, 2)
  <2>1. CalledAs(20, i)
    BY <1>1, CalledNames DEF CallOffsets
  <2> QED BY <2>1 DEF CalledAs
<1>3. IsInstruction(i) /\ Own(i) /\ cpu \in Machine /\ cpu' \in Machine
      /\ start \in Machine /\ start' = start
  BY <1>1, CallOwn
<1>4. MoveHandlers(i)
  BY <1>2, <1>3 DEF Own
<1>5. i.ea.mode = "d" /\ i.ea.r = 2 /\ i.ea.r \in Registers
  BY <1>2 DEF D, None, Registers
<1>6. PICK h \in Int, w \in Int : h = Half[2] /\ w = Mod(2) /\ h >= 128 /\ w = 2 * h
  BY WordsHold
<1>7. i.to.mode = "di" /\ i.to.r = 2 /\ i.to.r \in Registers /\ i.to.e = w - 4
  BY <1>2, <1>6 DEF Di, Registers
<1>8. i.to.e \in Range0(2) /\ Signed(2, i.to.e) = -4
  <2>1. ~(w - 4 < h) /\ w - 4 - w = -4 /\ w - 4 \in 0..(w - 1)
    BY <1>6
  <2> QED BY <1>6, <1>7, <2>1 DEF Signed, Range0
<1>9. PICK s, v : s = Operand(Fetched, 4, i.ea) /\ v = Masked(4, cpu.d[2])
  OBVIOUS
<1>10. Sourced(s, 4, v, 2)
  BY <1>3, <1>5, <1>9, SizeIs, FromRegister
<1>11. Moved(4, i.to, s.m, v)
  BY <1>2, <1>3, <1>4, <1>9, <1>10, MovesIt
<1>12. s.m \in Machine /\ Becomes(s.m, cpu.d, cpu.a, cpu.mem, Ahead(2)) /\ v \in Range0(4)
  BY <1>10 DEF Sourced
<1>13. PICK n \in Machine : n = s.m /\ n.a = cpu.a /\ n.d = cpu.d /\ n.mem = cpu.mem
      /\ n.pc = Ahead(2)
  BY <1>12 DEF Becomes
<1>14. /\ Becomes(cpu', n.d, n.a, cpu'.mem, Masked(4, n.pc + 2))
       /\ Wrote(n.mem, cpu'.mem, 4, Near(i.to))
  BY <1>7, <1>8, <1>11, <1>12, <1>13, SizeIs, ToMemory
<1>15. Masked(4, n.pc + 2) = Org + 24
  <2>1. Masked(4, Ahead(2) + 2) = Ahead(2 + 2)
    BY <1>3, AheadOn
  <2>2. 4 \in Nat /\ 24 \in CallOffsets \cup {2} /\ 24 = 20 + 4
    BY DEF CallOffsets
  <2>3. Ahead(4) = Org + 24
    BY <2>2, CallGoes
  <2> QED BY <1>13, <2>1, <2>3
<1>16. Wrote(cpu.mem, cpu'.mem, 4, start.a[7] - 12)
  <2>1. PICK t \in Int : t = StackAt(8) /\ t = cpu.a[2]
    BY <1>3, StackIs DEF CallSaved
  <2>2. PICK x \in Int : x = t + -4
    OBVIOUS
  <2>3. Near(i.to) = x
    BY <1>7, <1>8, <2>1, <2>2 DEF Near
  <2>4. Moves1(8, 12, x)
    BY <2>1, <2>2 DEF Moves1
  <2>5. Wrote(cpu.mem, cpu'.mem, 4, x)
    BY <1>13, <1>14, <2>3
  <2> QED BY <1>3, <2>4, <2>5, StackWrites
<1>17. Overwrites
  BY <1>3, <1>13, <1>14, <1>16 DEF Overwrites, Becomes
<1> QED BY <1>14, <1>15, <1>17, StillSaved DEF Becomes

-----------------------------------------------------------------------------
\* movem.l (a7)+,d2/d3/a3.
LEMMA CallRestores == ASSUME CallStep(24), CallSaved PROVE cpu'.pc = Org + 28 /\ CallFramed'
<1>1. PICK i : i = Called(24)
  OBVIOUS
<1>2. i.name = "movem" /\ i.z = 4 /\ i.form = "er" /\ i.ea.mode = "pi" /\ i.ea.r = 7
      /\ i.regs = {2, 3, 11}
  <2>1. CalledAs(24, i)
    BY <1>1, CalledNames DEF CallOffsets
  <2>2. Pi(7).r = 7 /\ Pi(7).mode = "pi"
    BY DEF Pi, None
  <2> QED BY <2>1, <2>2 DEF CalledAs
<1>3. IsInstruction(i) /\ Own(i) /\ cpu \in Machine /\ cpu' \in Machine
      /\ start \in Machine /\ start' = start
  BY <1>1, CallOwn
<1>4. movem_32_er_pi(i)
  BY <1>2, <1>3
     DEF Own, SaveHandlers, RestoreHandlers, Does, movem_16_re_pd, movem_32_re_pd, movem_16_re,
         movem_32_re, movem_16_er_pi, movem_16_er, movem_32_er, Control
<1>5. TakesThree({2, 3, 11}, 2, 3, 11)
  <2>1. InOrder(i.regs, 2, 3, 11) /\ 11 # 15
    BY <1>2 DEF InOrder
  <2>2. TakesThree(i.regs, 2, 3, 11)
    BY <1>2, <1>3, <1>4, <2>1, RestoreBecomes
  <2> QED BY <1>2, <2>2
<1>6. Ahead(4) = Org + 28
  <2>1. 4 \in Nat /\ 28 \in CallOffsets \cup {2} /\ 28 = 24 + 4
    BY DEF CallOffsets
  <2> QED BY <2>1, CallGoes
<1>7. PICK t \in Int : t = cpu.a[7] /\ t = StackAt(24)
  BY <1>3, SpIs DEF CallSaved
<1>8. Moves1(24, 24, t) /\ Moves1(24, 20, t + 4) /\ Moves1(24, 16, t + 8)
      /\ Moves1(24, 12, t + 12)
  BY <1>7 DEF Moves1
<1>9. /\ LongIn(cpu.mem, t) = start.d[2] /\ LongIn(cpu.mem, t + 4) = start.d[3]
      /\ LongIn(cpu.mem, t + 8) = start.a[3]
  <2>1. cpu.mem \in [Space -> Range0(1)]
    BY <1>3, MachineIs
  <2>2. /\ LongIn(cpu.mem, t) = OnStack(24) /\ LongIn(cpu.mem, t + 4) = OnStack(20)
        /\ LongIn(cpu.mem, t + 8) = OnStack(16)
    BY <1>3, <1>8, <2>1, StackReads DEF OnStack
  <2> QED BY <2>2 DEF CallSaved
<1>10. Masked(4, t + 12) = StackAt(12)
  BY <1>3, <1>8, StackMoves
<1>11. /\ cpu'.d[2] = start.d[2] /\ cpu'.d[3] = start.d[3] /\ cpu'.a[3] = start.a[3]
       /\ cpu'.a[7] = StackAt(12) /\ cpu'.mem = cpu.mem /\ cpu'.pc = Org + 28
       /\ \A r \in Registers : r \notin {2, 3, 11} => cpu'.d[r] = cpu.d[r]
       /\ \A r \in Registers \ {7} : r + 8 \notin {2, 3, 11} => cpu'.a[r] = cpu.a[r]
  <2>1. /\ Register(cpu', 2) = cpu'.d[2] /\ Register(cpu', 3) = cpu'.d[3]
        /\ Register(cpu', 11) = cpu'.a[3]
    BY DEF Register
  <2> QED BY <1>5, <1>6, <1>7, <1>9, <1>10, <2>1 DEF TakesThree
<1>12. \A r \in Registers : cpu'.d[r] = start.d[r]
  BY <1>11 DEF CallSaved, Registers
<1>13. \A r \in Registers \ {3, 7} : cpu'.a[r] = cpu.a[r]
  <2>1. \A r \in Registers \ {3, 7} : r + 8 \notin {2, 3, 11}
    BY DEF Registers
  <2> QED BY <1>11, <2>1
<1>14. cpu'.d = start.d
  BY <1>3, <1>12, SpIs
<1>15. cpu'.a = [start.a EXCEPT ![2] = StackAt(8), ![7] = StackAt(12)]
  <2>1. \A r \in Registers :
          cpu'.a[r] = IF r = 7 THEN StackAt(12) ELSE IF r = 2 THEN StackAt(8) ELSE start.a[r]
    <3>1. \A r \in Registers \ {2, 3, 7} : cpu'.a[r] = start.a[r]
      BY <1>13 DEF CallSaved
    <3>2. cpu'.a[2] = StackAt(8)
      BY <1>3, <1>13, SpIs DEF CallSaved
    <3> QED BY <1>11, <3>1, <3>2
  <2> QED BY <1>3, <2>1, SpIs
<1>16. OnStack(4)' = Org + 2 /\ OnStack(8)' = start.a[2]
  BY <1>3, <1>11 DEF CallSaved, OnStack
<1>17. StackAt(8)' = StackAt(8) /\ StackAt(12)' = StackAt(12) /\ start'.a = start.a
      /\ start'.d = start.d
  BY <1>3 DEF StackAt
<1> QED BY <1>11, <1>14, <1>15, <1>16, <1>17 DEF CallFramed

\* unlk a2.
LEMMA CallUnlinks == ASSUME CallStep(28), CallFramed PROVE cpu'.pc = Org + 30 /\ CallInside'
<1>1. PICK i : i = Called(28)
  OBVIOUS
<1>2. i.name = "unlk" /\ i.ea.r = 2
  <2>1. CalledAs(28, i)
    BY <1>1, CalledNames DEF CallOffsets
  <2>2. A(2).r = 2
    BY DEF A, None
  <2> QED BY <2>1, <2>2 DEF CalledAs
<1>3. IsInstruction(i) /\ Own(i) /\ cpu \in Machine /\ cpu' \in Machine
      /\ start \in Machine /\ start' = start
  BY <1>1, CallOwn
<1>4. unlk_32(i)
  BY <1>2, <1>3 DEF Own, unlk_32_a7, Does
<1>5. Becomes(cpu', cpu.d,
              [cpu.a EXCEPT ![7] = Masked(4, cpu.a[2] + 4), ![2] = LongIn(cpu.mem, cpu.a[2])],
              cpu.mem, Ahead(2))
  <2>1. PICK r : r = i.ea.r
    OBVIOUS
  <2>2. Becomes(cpu', cpu.d,
              [cpu.a EXCEPT ![7] = Masked(4, cpu.a[r] + 4), ![r] = LongIn(cpu.mem, cpu.a[r])],
              cpu.mem, Ahead(2))
    BY <1>3, <1>4, <2>1, UnlkBecomes
  <2> QED BY <1>2, <2>1, <2>2
<1>6. Ahead(2) = Org + 30
  <2>1. 2 \in Nat /\ 30 \in CallOffsets \cup {2} /\ 30 = 28 + 2
    BY DEF CallOffsets
  <2> QED BY <2>1, CallGoes
<1>7. PICK t \in Int : t = cpu.a[2] /\ t = StackAt(8)
  BY <1>3, SpIs DEF CallFramed
<1>8. Moves1(8, 8, t) /\ Moves1(8, 4, t + 4)
  BY <1>7 DEF Moves1
<1>9. LongIn(cpu.mem, t) = start.a[2]
  <2>1. cpu.mem \in [Space -> Range0(1)]
    BY <1>3, MachineIs
  <2>2. LongIn(cpu.mem, t) = OnStack(8)
    BY <1>3, <1>8, <2>1, StackReads DEF OnStack
  <2> QED BY <2>2 DEF CallFramed
<1>10. Masked(4, t + 4) = StackAt(4)
  BY <1>3, <1>8, StackMoves
<1>11. cpu'.a = [[start.a EXCEPT ![2] = StackAt(8),
          ![7] = StackAt(12)] EXCEPT ![7] = StackAt(4), ![2] = start.a[2]]
  BY <1>5, <1>7, <1>9, <1>10 DEF Becomes, CallFramed
<1>12. cpu'.a = [start.a EXCEPT ![7] = StackAt(4)]
  BY <1>3, <1>11, SpIs
<1>13. OnStack(4)' = Org + 2
  BY <1>3, <1>5 DEF CallFramed, OnStack, Becomes
<1>14. StackAt(4)' = StackAt(4) /\ start'.a = start.a /\ start'.d = start.d
  BY <1>3 DEF StackAt
<1> QED BY <1>5, <1>6, <1>12, <1>13, <1>14 DEF CallInside, CallFramed, Becomes

\* rts.
LEMMA CallReturns == ASSUME CallStep(30), CallInside PROVE cpu'.pc = Org + 2 /\ CallSame'
<1>1. PICK i : i = Called(30)
  OBVIOUS
<1>2. i.name = "rts"
  <2>1. CalledAs(30, i)
    BY <1>1, CalledNames DEF CallOffsets
  <2> QED BY <2>1 DEF CalledAs
<1>3. IsInstruction(i) /\ Own(i) /\ cpu \in Machine /\ cpu' \in Machine
      /\ start \in Machine /\ start' = start
  BY <1>1, CallOwn
<1>4. rts_32(i)
  BY <1>2, <1>3 DEF Own
<1>5. Becomes(cpu', cpu.d, StackedA(cpu.a, 4), cpu.mem, LongIn(cpu.mem, cpu.a[7]))
  BY <1>3, <1>4, RtsBecomes
<1>7. PICK t \in Int : t = cpu.a[7] /\ t = StackAt(4)
  BY <1>3, SpIs DEF CallInside
<1>8. Moves1(4, 4, t) /\ Moves1(4, 0, t + 4)
  BY <1>7 DEF Moves1
<1>9. LongIn(cpu.mem, t) = Org + 2
  <2>1. cpu.mem \in [Space -> Range0(1)]
    BY <1>3, MachineIs
  <2>2. LongIn(cpu.mem, t) = OnStack(4)
    BY <1>3, <1>8, <2>1, StackReads DEF OnStack
  <2> QED BY <2>2 DEF CallInside
<1>10. Masked(4, t + 4) = StackAt(0) /\ StackAt(0) = start.a[7]
  BY <1>3, <1>8, StackMoves, StackIs
<1>11. cpu'.a = [[start.a EXCEPT ![7] = StackAt(4)] EXCEPT ![7] = start.a[7]]
  BY <1>5, <1>7, <1>10 DEF Becomes, StackedA, CallInside
<1>12. cpu'.a = start.a
  BY <1>3, <1>11, SpIs
<1> QED BY <1>3, <1>5, <1>7, <1>9, <1>12 DEF CallSame, CallInside, Becomes

\* The call begins with the registers of the start.
LEMMA CallStarts == ASSUME InitTest PROVE CallInv
<1>1. IInv
  BY Initially
<1>2. start = cpu /\ cpu.pc = Org
  <2>1. PICK m \in Images(code) : cpu = [m EXCEPT !.pc = Org]
    BY DEF InitTest, Init
  <2>2. m \in Machine
    BY <1>1, ProgramAssumption DEF IInv
  <2> QED BY <2>1, <2>2 DEF Machine, InitTest, Init
<1> QED BY <1>2 DEF CallInv, CallSame

\* Every step keeps CallInv.
LEMMA CallStays == ASSUME IInv, IInv', CallInv, [Next]_vars PROVE CallInv'
<1>1. CASE UNCHANGED vars
  BY <1>1 DEF CallInv, CallSame, CallInside, CallFramed, CallSaved, StackAt, OnStack, vars
<1>2. CASE Next
  <2>1. SUFFICES ASSUME code' = Calling PROVE CallInv'
    BY DEF CallInv
  <2>2. code = Calling /\ start' = start
    <3>1. CASE Running
      BY <1>2, <2>1, <3>1, StepsRight
    <3>2. CASE ~Running
      <4>1. Ended
        BY <1>2, <3>2, HandlersAre DEF Next, Handling, Unready
      <4> QED BY <2>1, <4>1 DEF Ended
    <3> QED BY <3>1, <3>2
  <2>3. CASE cpu' = cpu
    BY <2>2, <2>3 DEF CallInv, CallSame, CallInside, CallFramed, CallSaved, StackAt, OnStack
  <2>4. CASE Running /\ ~Unready
    <3>1. PICK k \in CallOffsets : cpu.pc = Org + k
      BY <2>2, <2>4, CallingLines DEF Running
    <3>2. CallStep(k)
      BY <1>2, <2>2, <2>4, <3>1 DEF CallStep, IInv
    <3>3. \A j \in {0, 2, 8, 12, 16, 18, 20, 24, 28, 30} : cpu.pc = Org + j => k = j
      <4>1. Org \in Int /\ k \in Int
        BY ProgramAssumption, LongsAreInt DEF CallOffsets
      <4> QED BY <3>1, <4>1
    <3>4. \/ k = 0 /\ CallSame
          \/ k \in {8, 30} /\ CallInside
          \/ k \in {12, 28} /\ CallFramed
          \/ k \in {16, 18, 20, 24} /\ CallSaved
      <4>1. Org + 0 = Org /\ k # 2
        BY ProgramAssumption, LongsAreInt DEF CallOffsets
      <4> QED BY <2>2, <3>3, <4>1 DEF CallInv
    <3>5. CASE k = 0
      BY <3>2, <3>4, <3>5, CallOnce DEF CallInv
    <3>6. CASE k = 8
      BY <3>2, <3>4, <3>6, CallLinks DEF CallInv
    <3>7. CASE k = 12
      BY <3>2, <3>4, <3>7, CallSaves DEF CallInv
    <3>8. CASE k = 16
      BY <3>2, <3>4, <3>8, CallClobbers DEF CallInv
    <3>9. CASE k = 18
      BY <3>2, <3>4, <3>9, CallExchanges DEF CallInv
    <3>10. CASE k = 20
      BY <3>2, <3>4, <3>10, CallStores DEF CallInv
    <3>11. CASE k = 24
      BY <3>2, <3>4, <3>11, CallRestores DEF CallInv
    <3>12. CASE k = 28
      BY <3>2, <3>4, <3>12, CallUnlinks DEF CallInv
    <3>13. CASE k = 30
      BY <3>2, <3>4, <3>13, CallReturns DEF CallInv
    <3> QED BY <3>5, <3>6, <3>7, <3>8, <3>9, <3>10, <3>11, <3>12, <3>13 DEF CallOffsets
  <2>5. code # TestCode
    BY <2>2, CallingIsNotTest
  <2> QED BY <1>2, <2>3, <2>4, <2>5, RoutineStep
<1> QED BY <1>1, <1>2

\* Behind the call CallInv is CallsRight.
LEMMA CallHolds == ASSUME CallInv PROVE CallsRight
<1>1. Org \in Int
  BY ProgramAssumption, LongsAreInt
<1>2. \A j \in {8, 30, 12, 28, 16, 18, 20, 24} : Org + 2 # Org + j
  BY <1>1
<1> QED BY <1>2 DEF CallInv, CallsRight, AfterCall, CallSame

\* CallsRight holds of every start and width, wherever the stack is: link, movem and unlk give
\* the caller its registers and its stack back (M68KMAKE_OP(movem, 32, re, pd) and its fellows).
THEOREM Subroutines == Spec => []CallsRight
<1>1. InitTest => CallInv
  BY CallStarts
<1>2. IInv /\ IInv' /\ CallInv /\ [Next]_vars => CallInv'
  BY CallStays
<1>3. CallInv => CallsRight
  BY CallHolds
<1> QED BY <1>1, <1>2, <1>3, Invariant, PTL DEF Spec

-----------------------------------------------------------------------------
-----------------------------------------------------------------------------
(* The chains.  The numbers of the property are recursive functions: each  *)
(* recursion has a solution, and what it gives is proved by induction.     *)
IsWeight(g, r, n) == g = [k \in 0..n |-> IF k = 0 THEN 1 ELSE r * g[k - 1]]
IsValue(g, c, n) == g = [k \in 0..n |-> IF k = 0 THEN 0 ELSE g[k - 1] + c[k]]

\* The recursion of the weights has a solution up to every bound.
LEMMA WeightBelow == ASSUME NEW r PROVE \A n \in Nat : \E g : IsWeight(g, r, n)
<1> DEFINE T == {n \in Nat : \E g : IsWeight(g, r, n)}
<1>1. 0 \in T
  <2>1. IsWeight([k \in 0..0 |-> 1], r, 0)
    BY DEF IsWeight
  <2> QED BY <2>1
<1>2. ASSUME NEW n \in Nat, n \in T PROVE n + 1 \in T
  <2>1. PICK g : IsWeight(g, r, n)
    BY <1>2
  <2>2. PICK h : h = [k \in 0..(n + 1) |-> IF k = n + 1 THEN r * g[n] ELSE g[k]]
    OBVIOUS
  <2>3. ASSUME NEW k \in 0..(n + 1) PROVE h[k] = IF k = 0 THEN 1 ELSE r * h[k - 1]
    BY <2>1, <2>2 DEF IsWeight
  <2>4. IsWeight(h, r, n + 1)
    BY <2>2, <2>3 DEF IsWeight
  <2> QED BY <2>4
<1> HIDE DEF T
<1>3. Nat \subseteq T
  BY <1>1, <1>2, Induction
<1> QED BY <1>3 DEF T

\* And so has that of the numbers.
LEMMA ValueBelow == ASSUME NEW c PROVE \A n \in Nat : \E g : IsValue(g, c, n)
<1> DEFINE T == {n \in Nat : \E g : IsValue(g, c, n)}
<1>1. 0 \in T
  <2>1. IsValue([k \in 0..0 |-> 0], c, 0)
    BY DEF IsValue
  <2> QED BY <2>1
<1>2. ASSUME NEW n \in Nat, n \in T PROVE n + 1 \in T
  <2>1. PICK g : IsValue(g, c, n)
    BY <1>2
  <2>2. PICK h : h = [k \in 0..(n + 1) |-> IF k = n + 1 THEN g[n] + c[n + 1] ELSE g[k]]
    OBVIOUS
  <2>3. ASSUME NEW k \in 0..(n + 1) PROVE h[k] = IF k = 0 THEN 0 ELSE h[k - 1] + c[k]
    BY <2>1, <2>2 DEF IsValue
  <2>4. IsValue(h, c, n + 1)
    BY <2>2, <2>3 DEF IsValue
  <2> QED BY <2>4
<1> HIDE DEF T
<1>3. Nat \subseteq T
  BY <1>1, <1>2, Induction
<1> QED BY <1>3 DEF T

\* So the weights are what their recursion says.
LEMMA WeightsAre == ASSUME NEW name PROVE IsWeight(Weights(name), Radix(name), Parts)
<1>1. Parts \in Nat
  BY PartsAssumption
<1>2. PICK g : IsWeight(g, Radix(name), Parts)
  BY <1>1, WeightBelow
<1> QED BY <1>2, Zenon DEF Weights, IsWeight

\* The digit k bytes below an address, with its weight.
Valued(name, m, at) == [k \in 1..Parts |-> Weights(name)[k - 1] * Digit(name, ByteAt(m, at - k))]

\* And so are the numbers.
LEMMA NumbersAre ==
  ASSUME NEW name, NEW m, NEW at PROVE IsValue(Numbers(name, m, at), Valued(name, m, at), Parts)
<1>1. Parts \in Nat
  BY PartsAssumption
<1>2. PICK c : c = Valued(name, m, at)
  OBVIOUS
<1>3. PICK g : IsValue(g, c, Parts)
  BY <1>1, ValueBelow
<1> DEFINE Value1(n) == Weights(name)[n - 1] * Digit(name, ByteAt(m, at - n))
<1>4. \A n \in 0..Parts : n # 0 => c[n] = Value1(n)
  <2>1. ASSUME NEW n \in 0..Parts, n # 0 PROVE n \in 1..Parts
    BY <1>1, <2>1
  <2> QED BY <1>2, <2>1 DEF Valued
<1> DEFINE IsThat(h) == h = [n \in 0..Parts |-> IF n = 0 THEN 0 ELSE h[n - 1] + Value1(n)]
<1>5. \A h : IsThat(h) <=> IsValue(h, c, Parts)
  <2>1. ASSUME NEW h
        PROVE  [n \in 0..Parts |-> IF n = 0 THEN 0 ELSE h[n - 1] + Value1(n)]
                 = [k \in 0..Parts |-> IF k = 0 THEN 0 ELSE h[k - 1] + c[k]]
    <3> HIDE DEF Value1
    <3> QED BY <1>4
  <2> QED BY <2>1 DEF IsValue
<1>6. Numbers(name, m, at) = CHOOSE h : IsThat(h)
  BY DEF Numbers
<1>7. IsThat(g)
  BY <1>3, <1>5
<1> HIDE DEF IsThat
<1>8. IsThat(Numbers(name, m, at))
  BY <1>6, <1>7
<1> QED BY <1>2, <1>5, <1>8

-----------------------------------------------------------------------------
\* The base of the digits is two at least.
LEMMA RadixIs ==
  ASSUME NEW name \in ChainNames
  PROVE  Radix(name) \in Nat /\ Radix(name) >= 2
<1>1. CASE name \in InDigits
  <2>1. PICK d \in Nat : d = Digits /\ d >= 2
    BY DecimalConstants
  <2>2. 2 * d <= d * d /\ d * d \in Nat
    BY <2>1, Times
  <2>3. 2 * d >= 2
    BY <2>1
  <2>4. PICK p \in Nat : p = d * d
    BY <2>2
  <2> QED BY <1>1, <2>1, <2>2, <2>3, <2>4 DEF Radix
<1>2. CASE name \notin InDigits
  BY <1>2, BytesHold DEF Radix
<1> QED BY <1>1, <1>2

\* A weight is a positive number, and the next one is the base times as much.
LEMMA WeightIs ==
  ASSUME NEW name \in ChainNames
  PROVE  /\ Weights(name)[0] = 1
         /\ \A n \in 0..Parts : Weights(name)[n] \in Nat \ {0}
         /\ \A n \in 0..(Parts - 1) : Weights(name)[n + 1] = Radix(name) * Weights(name)[n]
<1>0. PICK r \in Nat, p \in Nat : r = Radix(name) /\ p = Parts /\ r >= 2
  BY RadixIs, PartsAssumption
<1>1. PICK g : g = Weights(name) /\ r = Radix(name) /\ p = Parts /\ r >= 2
  BY <1>0
<1>2. IsWeight(g, r, p)
  BY <1>1, WeightsAre
<1>3. \A k \in 0..p : g[k] = IF k = 0 THEN 1 ELSE r * g[k - 1]
  BY <1>2 DEF IsWeight
<1>4. \A n \in 0..(p - 1) : g[n + 1] = r * g[n]
  <2>1. ASSUME NEW n \in 0..(p - 1) PROVE n + 1 \in 0..p /\ n + 1 # 0 /\ n + 1 - 1 = n
    BY <1>1
  <2> QED BY <1>3, <2>1
<1> DEFINE T == {n \in Nat : n <= p => g[n] \in Nat \ {0}}
<1>5. 0 \in T
  BY <1>1, <1>3
<1>6. ASSUME NEW n \in Nat, n \in T PROVE n + 1 \in T
  <2>1. CASE n + 1 <= p
    <3>1. n \in 0..(p - 1) /\ n <= p
      BY <2>1
    <3>2. PICK w \in Nat \ {0} : w = g[n]
      BY <1>6, <3>1
    <3>3. r * w \in Nat \ {0}
      <4>1. 2 * w <= r * w /\ r * w \in Nat
        BY <1>1, <3>2, Times
      <4> QED BY <4>1
    <3> QED BY <1>4, <3>1, <3>2, <3>3
  <2> QED BY <2>1
<1> HIDE DEF T
<1>7. Nat \subseteq T
  BY <1>5, <1>6, Induction
<1>8. \A n \in 0..p : g[n] \in Nat \ {0}
  BY <1>7 DEF T
<1> QED BY <1>1, <1>3, <1>4, <1>8

\* A digit is a number.
LEMMA DigitIs == ASSUME NEW name, NEW b \in Range0(1) PROVE Digit(name, b) \in Int
<1>1. b \in Int
  BY SizeIs, Widths DEF Range0
<1>2. CASE name \in InDigits
  <2>1. PICK n \in Nat \ {0}, d \in Nat \ {0} : n = Nibble /\ d = Digits
    BY DecimalConstants
  <2>2. b \div n \in Int /\ b % n \in Int
    BY <1>1, <2>1
  <2>3. (b \div n) * d \in Int
    BY <2>1, <2>2
  <2> QED BY <1>2, <2>1, <2>2, <2>3 DEF Digit, Number
<1> QED BY <1>1, <1>2 DEF Digit

\* A byte of the memory is one.
LEMMA ByteRange == ASSUME NEW m \in Machine, NEW at \in Int PROVE ByteAt(m, at) \in Range0(1)
BY ByteIs, SizeIs, Widths DEF Range0

\* A number of n digits is one, and the next digit adds its weight.
LEMMA NumberIs ==
  ASSUME NEW name \in ChainNames, NEW m \in Machine, NEW at \in Int
  PROVE  /\ Numbers(name, m, at)[0] = 0
         /\ \A n \in 0..Parts : Numbers(name, m, at)[n] \in Int
         /\ \A n \in 0..(Parts - 1) :
              Numbers(name, m, at)[n + 1]
                = Numbers(name, m, at)[n] + Weights(name)[n] * Digit(name, ByteAt(m,
                    at - (n + 1)))
<1>0. PICK p \in Nat : p = Parts
  BY PartsAssumption
<1>1. PICK g, c : g = Numbers(name, m, at) /\ c = Valued(name, m, at) /\ p = Parts /\ p \in Nat
  BY <1>0
<1>2. IsValue(g, c, p)
  BY <1>1, NumbersAre
<1>3. \A k \in 0..p : g[k] = IF k = 0 THEN 0 ELSE g[k - 1] + c[k]
  BY <1>2 DEF IsValue
<1>4. \A n \in 0..(p - 1) : g[n + 1] = g[n] + c[n + 1]
  <2>1. ASSUME NEW n \in 0..(p - 1) PROVE n + 1 \in 0..p /\ n + 1 # 0 /\ n + 1 - 1 = n
    BY <1>1
  <2> QED BY <1>3, <2>1
<1>5. ASSUME NEW n \in 0..(p - 1)
      PROVE  c[n + 1] = Weights(name)[n] * Digit(name, ByteAt(m, at - (n + 1)))
            /\ c[n + 1] \in Int
  <2>1. n + 1 \in 1..p /\ n + 1 - 1 = n /\ n \in 0..p
    BY <1>1
  <2>2. c[n + 1] = Weights(name)[n] * Digit(name, ByteAt(m, at - (n + 1)))
    BY <1>1, <2>1 DEF Valued
  <2>3. PICK w \in Int : w = Weights(name)[n]
    BY <1>1, <2>1, WeightIs
  <2>4. PICK d \in Int : d = Digit(name, ByteAt(m, at - (n + 1)))
    <3>1. at - (n + 1) \in Int
      OBVIOUS
    <3> QED BY <3>1, ByteRange, DigitIs
  <2> QED BY <2>2, <2>3, <2>4
<1> DEFINE T == {n \in Nat : n <= p => g[n] \in Int}
<1>6. 0 \in T
  BY <1>1, <1>3
<1>7. ASSUME NEW n \in Nat, n \in T PROVE n + 1 \in T
  <2>1. CASE n + 1 <= p
    <3>1. n \in 0..(p - 1) /\ n <= p
      BY <2>1
    <3> QED BY <1>4, <1>5, <1>7, <3>1
  <2> QED BY <2>1
<1> HIDE DEF T
<1>8. Nat \subseteq T
  BY <1>6, <1>7, Induction
<1>9. \A n \in 0..p : g[n] \in Int
  BY <1>8 DEF T
<1> QED BY <1>1, <1>3, <1>4, <1>5, <1>9

\* A number is that of its bytes.
LEMMA NumberSame ==
  ASSUME NEW name \in ChainNames, NEW m \in Machine, NEW o \in Machine, NEW at \in Int,
         NEW n \in 0..Parts, \A k \in 1..n : ByteAt(m, at - k) = ByteAt(o, at - k)
  PROVE  Numbers(name, m, at)[n] = Numbers(name, o, at)[n]
<1>0. PICK p \in Nat : p = Parts
  BY PartsAssumption
<1>1. PICK g, h, w : g = Numbers(name, m, at) /\ h = Numbers(name, o, at)
      /\ w = Weights(name) /\ p = Parts
  BY <1>0
<1>2. g[0] = 0 /\ \A k \in 0..(p - 1) : g[k + 1] = g[k] + w[k] * Digit(name, ByteAt(m,
          at - (k + 1)))
  BY <1>1, NumberIs
<1>3. h[0] = 0 /\ \A k \in 0..(p - 1) : h[k + 1] = h[k] + w[k] * Digit(name, ByteAt(o,
          at - (k + 1)))
  BY <1>1, NumberIs
<1> DEFINE T == {k \in Nat : k <= n => g[k] = h[k]}
<1>4. 0 \in T
  BY <1>2, <1>3
<1>5. ASSUME NEW k \in Nat, k \in T PROVE k + 1 \in T
  <2>1. CASE k + 1 <= n
    <3>1. k \in 0..(p - 1) /\ k <= n /\ k + 1 \in 1..n
      BY <1>1, <2>1
    <3>2. ByteAt(m, at - (k + 1)) = ByteAt(o, at - (k + 1))
      BY <3>1
    <3> QED BY <1>2, <1>3, <1>5, <3>1, <3>2
  <2> QED BY <2>1
<1> HIDE DEF T
<1>6. Nat \subseteq T
  BY <1>4, <1>5, Induction
<1> QED BY <1>1, <1>6 DEF T

-----------------------------------------------------------------------------
\* What is left of a sum or a difference in a number below w, and the carry.
Altogether(name, s, d, x) == IF name \in Adding THEN d + s + x ELSE d - s - x
LeftOver(name, w, t, r, x) ==
  /\ r \in 0..(w - 1)
  /\ \/ x = 0 /\ r = t
     \/ x = 1 /\ r = IF name \in Adding THEN t - w ELSE t + w

\* One more digit: it weighs w, and its radix is b.
LEMMA OneDigitMore ==
  ASSUME NEW name, NEW w \in Nat \ {0}, NEW b \in Nat \ {0}, NEW s \in Int, NEW d \in Int,
         NEW r \in Int, NEW x, NEW e \in {0, 1}, LeftOver(name, w, Altogether(name, s, d, e),
         r, x),
         NEW t \in Int, NEW u \in Int, NEW v \in Int, NEW y, LeftOver(name, b,
         Altogether(name, t, u, x), v, y)
  PROVE  LeftOver(name, b * w, Altogether(name, s + w * t, d + w * u, e), r + w * v, y)
<1>1. PICK p \in Int, q \in Int, l \in Int, h \in Int : p = w * t /\ q = w * u /\ l = w * v
      /\ h = b * w
  OBVIOUS
<1>2. r \in 0..(w - 1) /\ v \in 0..(b - 1) /\ x \in {0, 1} /\ y \in {0, 1}
  BY DEF LeftOver
<1>3. 0 <= l /\ l <= h - w
  <2>1. PICK c \in Int : c = b - 1
    OBVIOUS
  <2>2. 0 * w <= v * w /\ v * w <= c * w
    BY <1>2, <2>1, Times
  <2>3. c * w = b * w - 1 * w
    BY <2>1, Distribute
  <2>4. v * w = l /\ 0 * w = 0 /\ 1 * w = w
    BY <1>1
  <2> QED BY <1>1, <2>2, <2>3, <2>4
<1>4. r + l \in 0..(h - 1)
  BY <1>1, <1>2, <1>3
<1>5. PICK z \in Int, k \in Int : /\ z = Altogether(name, t, u, x)
                                  /\ k = (IF x = 1 THEN w ELSE 0)
                                  /\ z * w = IF name \in Adding THEN q + p + k ELSE q - p - k
  <2>1. PICK k \in Int : k = (IF x = 1 THEN w ELSE 0) /\ x * w = k
    BY <1>2
  <2>2. t * w = p /\ u * w = q
    BY <1>1
  <2>3. CASE name \in Adding
    <3>1. PICK a \in Int, z \in Int : a = u + t /\ z = a + x
      BY <1>2
    <3>2. a * w = u * w + t * w /\ z * w = a * w + x * w
      BY <1>2, <3>1, Distribute
    <3>3. z * w = q + p + k
      BY <2>1, <2>2, <3>2
    <3>4. z = Altogether(name, t, u, x)
      BY <2>3, <3>1 DEF Altogether
    <3> QED BY <2>1, <2>3, <3>1, <3>3, <3>4
  <2>4. CASE name \notin Adding
    <3>1. PICK a \in Int, z \in Int : a = u - t /\ z = a - x
      BY <1>2
    <3>2. a * w = u * w - t * w /\ z * w = a * w - x * w
      BY <1>2, <3>1, Distribute
    <3>3. z * w = q - p - k
      BY <2>1, <2>2, <3>2
    <3>4. z = Altogether(name, t, u, x)
      BY <2>4, <3>1 DEF Altogether
    <3> QED BY <2>1, <2>4, <3>1, <3>3, <3>4
  <2> QED BY <2>3, <2>4
<1>6. PICK o \in Int : o = z * w
  BY <1>5
<1>7. l = IF y = 0 THEN o ELSE IF name \in Adding THEN o - h ELSE o + h
  <2>1. v * w = l
    BY <1>1
  <2>2. CASE y = 0
    <3>1. v = z
      BY <1>5, <2>2 DEF LeftOver
    <3> QED BY <1>6, <2>1, <2>2, <3>1
  <2>3. CASE y = 1
    <3>1. v = IF name \in Adding THEN z - b ELSE z + b
      BY <1>5, <2>3 DEF LeftOver
    <3>2. (z - b) * w = z * w - b * w /\ (z + b) * w = z * w + b * w
      BY <1>5, Distribute
    <3> QED BY <1>1, <1>6, <2>1, <2>3, <3>1, <3>2
  <2> QED BY <1>2, <2>2, <2>3
<1>8. PICK f \in Int : f = Altogether(name, s + p, d + q, e)
                       /\ f = IF name \in Adding THEN d + q + s + p + e ELSE d + q - s - p - e
  BY DEF Altogether
<1>9. name \in Adding => r + k = d + s + e
  <2>1. SUFFICES ASSUME name \in Adding PROVE r + k = d + s + e
    OBVIOUS
  <2>2. Altogether(name, s, d, e) = d + s + e
    BY <2>1 DEF Altogether
  <2> QED BY <1>2, <1>5, <2>1, <2>2 DEF LeftOver
<1>10. name \notin Adding => r - k = d - s - e
  <2>1. SUFFICES ASSUME name \notin Adding PROVE r - k = d - s - e
    OBVIOUS
  <2>2. Altogether(name, s, d, e) = d - s - e
    BY <2>1 DEF Altogether
  <2> QED BY <1>2, <1>5, <2>1, <2>2 DEF LeftOver
<1>11. LeftOver(name, h, f, r + l, y)
  <2>1. CASE name \in Adding
    <3>1. o = q + p + k /\ f = d + q + s + p + e /\ r + k = d + s + e
      BY <1>5, <1>6, <1>8, <1>9, <2>1
    <3>2. y = 0 => r + l = f
      BY <1>2, <1>5, <1>7, <2>1, <3>1
    <3>3. y = 1 => r + l = f - h
      BY <1>2, <1>5, <1>7, <2>1, <3>1
    <3> QED BY <1>2, <1>4, <2>1, <3>2, <3>3 DEF LeftOver
  <2>2. CASE name \notin Adding
    <3>1. o = q - p - k /\ f = d + q - s - p - e /\ r - k = d - s - e
      BY <1>5, <1>6, <1>8, <1>10, <2>2
    <3>2. y = 0 => r + l = f
      BY <1>2, <1>5, <1>7, <2>2, <3>1
    <3>3. y = 1 => r + l = f + h
      BY <1>2, <1>5, <1>7, <2>2, <3>1
    <3> QED BY <1>2, <1>4, <2>2, <3>2, <3>3 DEF LeftOver
  <2> QED BY <2>1, <2>2
<1> QED BY <1>1, <1>8, <1>11

\* What is left is the remainder, and the carry says that there was more.
LEMMA LeftIs ==
  ASSUME NEW name, NEW w \in Nat \ {0}, NEW t \in Int, NEW r, NEW x, LeftOver(name, w, t, r, x)
  PROVE  r = t % w /\ ((x = 1) <=> t \notin 0..(w - 1))
<1>1. r \in 0..(w - 1)
  BY DEF LeftOver
<1>2. CASE x = 0
  <2>1. r = t /\ x # 1
    BY <1>2 DEF LeftOver
  <2>2. 0 * w <= t /\ t < 0 * w + w
    BY <1>1, <2>1
  <2>3. t % w = t - 0 * w
    BY <2>2, DivIs
  <2> QED BY <1>1, <1>2, <2>1, <2>3
<1>3. CASE x = 1 /\ name \in Adding
  <2>1. t = r + w
    BY <1>1, <1>3 DEF LeftOver
  <2>2. PICK k \in Int, h \in Int : k = 1 /\ h = k * w /\ h = w
    OBVIOUS
  <2>3. k * w <= t /\ t < k * w + w
    BY <1>1, <2>1, <2>2
  <2>4. t % w = t - k * w
    BY <2>3, DivIs
  <2>5. t - w = r /\ ~(t <= w - 1)
    BY <1>1, <2>1
  <2> QED BY <1>1, <1>3, <2>2, <2>4, <2>5
<1>4. CASE x = 1 /\ name \notin Adding
  <2>1. t = r - w
    BY <1>1, <1>4 DEF LeftOver
  <2>2. -1 \in Int /\ (-1) * w = -w
    OBVIOUS
  <2>3. (-1) * w <= t /\ t < (-1) * w + w
    BY <1>1, <2>1, <2>2
  <2>4. t % w = t - (-1) * w
    BY <2>2, <2>3, DivIs
  <2> QED BY <1>1, <1>4, <2>1, <2>2, <2>4
<1> QED BY <1>2, <1>3, <1>4 DEF LeftOver

\* A digit of a sum or a difference of two.
LEMMA DigitLeft ==
  ASSUME NEW name, NEW b \in Nat \ {0}, NEW s \in 0..(b - 1), NEW d \in 0..(b - 1),
         NEW x \in {0, 1}, NEW y \in {0, 1}, NEW t, t = Altogether(name, s, d, x),
         NEW r, r = t % b, (y = 1) <=> t \notin 0..(b - 1)
  PROVE  LeftOver(name, b, t, r, y)
<1>1. CASE t \in 0..(b - 1)
  <2>1. t \in Int /\ 0 * b <= t /\ t < 0 * b + b
    BY <1>1
  <2>2. t % b = t - 0 * b
    BY <2>1, DivIs
  <2>3. r = t /\ y = 0
    BY <1>1, <2>2
  <2> QED BY <1>1, <2>3 DEF LeftOver
<1>2. CASE t \notin 0..(b - 1) /\ name \in Adding
  <2>1. t = d + s + x
    BY <1>2 DEF Altogether
  <2>5. PICK u \in Int, k \in Int, h \in Int : u = t /\ k = 1 /\ h = k * b /\ h = b
    BY <2>1
  <2>6. u >= b /\ u < b + b
    BY <1>2, <2>1, <2>5
  <2>2. k * b <= u /\ u < k * b + b
    BY <2>5, <2>6
  <2>3. u % b = u - k * b
    BY <2>2, DivIs
  <2>4. r = t - b /\ r \in 0..(b - 1) /\ y = 1
    <3>1. r = u - b
      BY <2>3, <2>5
    <3> QED BY <1>2, <2>5, <2>6, <3>1
  <2> QED BY <1>2, <2>4 DEF LeftOver
<1>3. CASE t \notin 0..(b - 1) /\ name \notin Adding
  <2>1. t = d - s - x
    BY <1>3 DEF Altogether
  <2>2. -1 \in Int /\ (-1) * b = -b
    OBVIOUS
  <2>3. t \in Int /\ (-1) * b <= t /\ t < (-1) * b + b
    BY <1>3, <2>1, <2>2
  <2>4. t % b = t - (-1) * b
    BY <2>2, <2>3, DivIs
  <2>5. r = t + b /\ r \in 0..(b - 1) /\ y = 1
    BY <1>3, <2>2, <2>3, <2>4
  <2> QED BY <1>3, <2>5 DEF LeftOver
<1> QED BY <1>1, <1>2, <1>3

-----------------------------------------------------------------------------
\* What a stepping down by a byte finds, and leaves.
LEMMA DownByte ==
  ASSUME NEW m \in Machine, NEW r \in Registers \ {7}, NEW o, o = Down(r),
         NEW a, a = Masked(4, m.a[r] - 1), NEW n, n = Ea(m, 1, o).m
  PROVE  /\ a \in Range0(4) /\ Ea(m, 1, o).at = a /\ n \in Machine /\ n.f = m.f
         /\ Becomes(n, m.d, [m.a EXCEPT ![r] = a], m.mem, m.pc)
         /\ Operand(m, 1, o).m = n /\ Operand(m, 1, o).v = ByteAt(m, a)
            /\ Target(m, 1, o) = ByteAt(m, a)
<1>1. PICK z \in Sizes, k \in Int : z = 1 /\ k = 1 /\ k = IF z = 1 /\ r = 7 THEN 2 ELSE z
  BY SizeIs
<1>2. r \in Registers /\ a = Masked(4, m.a[r] - k)
  BY <1>1
<1>3. /\ Ea(m, z, o).at = Masked(4, m.a[r] - k) /\ Masked(4, m.a[r] - k) \in Range0(4)
      /\ Ea(m, z, o).m = [m EXCEPT !.a[r] = Masked(4, m.a[r] - k)]
      /\ Operand(m, z, o).v = Read(Ea(m, z, o).m, z, Ea(m, z, o).at)
      /\ Operand(m, z, o).m = Ea(m, z, o).m
      /\ Target(m, z, o) = Read(Ea(m, z, o).m, z, Ea(m, z, o).at)
  BY <1>1, <1>2, DownIs
<1>4. /\ a \in Range0(4) /\ Ea(m, 1, o).at = a /\ n = [m EXCEPT !.a[r] = a]
      /\ Operand(m, 1, o).m = n /\ Operand(m, 1, o).v = Read(n, 1, a)
         /\ Target(m, 1, o) = Read(n, 1, a)
  BY <1>1, <1>2, <1>3
<1>5. n \in Machine /\ n.d = m.d /\ n.a = [m.a EXCEPT ![r] = a] /\ n.mem = m.mem
      /\ n.pc = m.pc /\ n.f = m.f
  BY <1>2, <1>4 DEF Machine
<1>6. Read(n, 1, a) = ByteAt(m, a)
  BY <1>5 DEF Read, ReadEvery, ByteAt
<1> QED BY <1>4, <1>5, <1>6 DEF Becomes

\* A part of a chain: both registers move down by a byte, and the byte of the destination is written.
LEMMA MmBecomes ==
  ASSUME cpu \in Machine, NEW i, IsInstruction(i), MmHandlers(i), i.z = 1,
         NEW r \in Registers \ {7}, NEW x \in Registers \ {7}, r # x, i.ea.r = r, i.x = x,
         NEW a, a = Masked(4, cpu.a[r] - 1), NEW b, b = Masked(4, cpu.a[x] - 1)
  PROVE  /\ Becomes(cpu', cpu.d, [cpu.a EXCEPT ![r] = a, ![x] = b], cpu'.mem, Ahead(2))
         /\ a \in Range0(4) /\ b \in Range0(4) /\ cpu' \in Machine
         /\ Wrote(cpu.mem, cpu'.mem, 1, b)
<1>1. PICK m : m = Fetched /\ m \in Machine /\ Becomes(m, cpu.d, cpu.a, cpu.mem, Ahead(2))
  BY WordsBecome
<1>2. m.d = cpu.d /\ m.a = cpu.a /\ m.mem = cpu.mem /\ m.pc = Ahead(2)
  BY <1>1 DEF Becomes
<1>3. PICK o, s, n : /\ o = Down(r) /\ s = Operand(m, 1, o) /\ n = s.m /\ n \in Machine
                     /\ Becomes(n, cpu.d, [cpu.a EXCEPT ![r] = a], cpu.mem, Ahead(2))
                     /\ a \in Range0(4) /\ s.v = ByteAt(m, a)
  <2>1. PICK o, n : o = Down(r) /\ n = Ea(m, 1, o).m
    OBVIOUS
  <2>2. a = Masked(4, m.a[r] - 1)
    BY <1>2
  <2>3. /\ a \in Range0(4) /\ n \in Machine
           /\ Becomes(n, m.d, [m.a EXCEPT ![r] = a], m.mem, m.pc)
        /\ Operand(m, 1, o).m = n /\ Operand(m, 1, o).v = ByteAt(m, a)
    BY <1>1, <2>1, <2>2, DownByte
  <2> QED BY <1>2, <2>1, <2>3
<1>4. n.d = cpu.d /\ n.a = [cpu.a EXCEPT ![r] = a] /\ n.mem = cpu.mem /\ n.pc = Ahead(2)
  BY <1>3 DEF Becomes
<1>5. n.a[x] = cpu.a[x]
  <2>1. PICK as : as = cpu.a /\ as \in [Registers -> Range0(4)]
    BY MachineIs
  <2> QED BY <1>4, <2>1
<1>6. PICK p, h : /\ p = Down(x) /\ h = Ea(n, 1, p).m /\ Ea(n, 1, p).at = b
                     /\ b \in Range0(4) /\ h \in Machine
                  /\ Becomes(h, cpu.d, [cpu.a EXCEPT ![r] = a, ![x] = b], cpu.mem, Ahead(2))
                  /\ Target(n, 1, p) = ByteAt(n, b)
  <2>1. PICK p, h : p = Down(x) /\ h = Ea(n, 1, p).m
    OBVIOUS
  <2>2. b = Masked(4, n.a[x] - 1)
    BY <1>5
  <2>3. /\ b \in Range0(4) /\ h \in Machine
           /\ Becomes(h, n.d, [n.a EXCEPT ![x] = b], n.mem, n.pc)
        /\ Ea(n, 1, p).at = b /\ Target(n, 1, p) = ByteAt(n, b)
    BY <1>3, <2>1, <2>2, DownByte
  <2> QED BY <1>4, <2>1, <2>3
<1>7. PICK u \in Int, v \in Int : u = a /\ v = b
  BY <1>3, <1>6, LongIs
<1>8. PICK name, w, t : /\ name = i.name /\ w = s.v /\ t = Target(n, 1, p)
                        /\ name \in {"addx", "subx", "abcd", "sbcd"}
                        /\ w \in Range0(1) /\ t \in Range0(1)
  <2>1. s.v \in Range0(1) /\ Target(n, 1, p) \in Range0(1)
    BY <1>1, <1>3, <1>6, <1>7, ByteRange
  <2> QED BY <2>1, MmIs
<1>9. PICK q : q = Op(name, 1, cpu.f, w, t) /\ cpu' = Placed(n, 1, p, q)
  <2>1. PICK c : /\ c = Operand(Fetched, i.z, Down(i.ea.r))
                 /\ cpu' = Placed(c.m, i.z, Down(i.x),
                             Op(i.name, i.z, cpu.f, c.v, Target(c.m, i.z, Down(i.x))))
    BY MmIs
  <2>2. c = s
    BY <1>1, <1>3, <2>1
  <2>3. c.m = n /\ c.v = w /\ Down(i.x) = p
    BY <1>3, <1>6, <1>8, <2>2
  <2> QED BY <1>8, <2>1, <2>3
<1>10. q.v \in Range0(1) /\ q.f \in Flags
  <2>1. OpBounds(name, 1, w)
    BY <1>8 DEF OpBounds, Twofold, Decimals
  <2>2. PICK f \in Flags : f = cpu.f
    BY MachineIs
  <2>3. Typed(1, q)
    BY <1>8, <1>9, <2>1, <2>2, SizeIs, OpTyped
  <2> QED BY <2>3 DEF Typed
<1>11. PICK j : j = [h EXCEPT !.f = q.f] /\ cpu' = Write(j, 1, v, q.v)
  <2>1. p.mode # "d"
    BY <1>6 DEF Down
  <2> QED BY <1>6, <1>7, <1>9, <2>1 DEF Placed
<1>12. j \in Machine /\ j.d = h.d /\ j.a = h.a /\ j.mem = h.mem /\ j.pc = h.pc
  BY <1>6, <1>10, <1>11 DEF Machine
<1>13. q.v \in Int
  BY <1>10, SizeIs, Widths DEF Range0
<1>14. PICK c : c = cpu' /\ c = Write(j, 1, v, q.v)
  BY <1>11
<1>15. /\ c \in Machine /\ c.d = j.d /\ c.a = j.a /\ c.pc = j.pc
       /\ \A y \in Space : c.mem[y] = IF (y - v) % AddressSpace < 1
                                       THEN ByteOf(1, q.v, (y - v) % AddressSpace)
                                       ELSE j.mem[y]
  BY <1>7, <1>12, <1>13, <1>14, SizeIs, WriteIs
<1>16. Becomes(h, cpu.d, [cpu.a EXCEPT ![r] = a, ![x] = b], cpu.mem, Ahead(2))
  BY <1>6
<1>17. h.mem = cpu.mem
  BY <1>16 DEF Becomes
<1>18. Wrote(cpu.mem, c.mem, 1, v)
  <2>1. c.mem \in [Space -> Range0(1)]
    BY <1>15, MachineIs
  <2> QED BY <1>12, <1>15, <1>17, <2>1 DEF Wrote
<1> QED BY <1>3, <1>6, <1>7, <1>12, <1>14, <1>15, <1>16, <1>18 DEF Becomes

-----------------------------------------------------------------------------
\* The number in a decimal byte.
LEMMA DecimalNumber ==
  ASSUME NEW v \in Range0(1), IsDecimal(v)
  PROVE  Number(v) \in 0..(Digits * Digits - 1) /\ (Number(v) = 0 <=> v = 0)
<1>1. PICK n \in Nat \ {0}, t \in Nat \ {0} : n = Nibble /\ t = Digits /\ 1 < t
  BY DecimalConstants
<1>2. v \in Int /\ 0 <= v
  BY SizeIs, Widths DEF Range0
<1>3. PICK h \in Int, l \in 0..(n - 1) : h = v \div n /\ l = v % n /\ v = h * n + l
      /\ h * n \in Int
  BY <1>1, <1>2, DivMod
<1>4. h >= 0
  <2>1. SUFFICES ASSUME h <= -1 PROVE FALSE
    BY <1>3
  <2>2. h * n <= (-1) * n
    BY <2>1, Times
  <2>3. (-1) * n = -n
    OBVIOUS
  <2> QED BY <1>2, <1>3, <2>2, <2>3
<1>5. h < t /\ l < t
  BY <1>1, <1>3 DEF IsDecimal
<1>6. PICK p \in Int, q \in Int : p = h * t /\ q = t * t /\ 0 <= p /\ p <= q - t
      /\ (h >= 1 => p >= t)
  <2>1. PICK c \in Int : c = t - 1 /\ h <= c
    BY <1>3, <1>5
  <2>2. 0 * t <= h * t /\ h * t <= c * t /\ (1 <= h => 1 * t <= h * t)
    BY <1>3, <1>4, <2>1, Times
  <2>3. c * t = t * t - 1 * t
    BY <2>1, Distribute
  <2>4. 0 * t = 0 /\ 1 * t = t
    OBVIOUS
  <2>5. PICK p \in Int, q \in Int, e \in Int : p = h * t /\ q = t * t /\ e = c * t
    BY <1>3, <2>1
  <2> QED BY <2>2, <2>3, <2>4, <2>5
<1>7. Number(v) = p + l
  BY <1>1, <1>3, <1>6 DEF Number
<1>8. p + l \in 0..(q - 1)
  BY <1>3, <1>5, <1>6
<1>9. p + l = 0 <=> v = 0
  <2>1. CASE h = 0
    <3>1. p = 0 /\ h * n = 0
      BY <1>6, <2>1
    <3> QED BY <1>3, <3>1
  <2>2. CASE h >= 1
    <3>1. 1 * n <= h * n /\ 1 * n = n
      BY <1>3, <2>2, Times
    <3> QED BY <1>3, <1>6, <2>2, <3>1
  <2> QED BY <1>3, <1>4, <2>1, <2>2
<1> QED BY <1>1, <1>6, <1>7, <1>8, <1>9

\* The operands and the outcome of a part.
LEMMA MmOperands ==
  ASSUME cpu \in Machine, NEW i, i.form = "mm", i.z = 1, i.name \in ChainNames,
         NEW r \in Registers \ {7}, NEW x \in Registers \ {7}, i.ea.r = r, i.x = x,
         NEW a, a = Masked(4, cpu.a[r] - 1), NEW b, cpu'.a[x] = b
  PROVE  /\ Operands(i) = <<ByteAt(cpu, a), ByteAt(cpu, b)>> /\ Outcome(i) = ByteAt(cpu', b)
<1>1. PICK u \in Int : u = cpu.a[r] - 1
  <2>1. cpu.a[r] \in Int
    BY MachineIs
  <2> QED BY <2>1
<1>2. \A m, c : Read(m, 1, c) = ByteAt(m, c)
  BY DEF Read, ReadEvery
<1>3. ByteAt(cpu, u) = ByteAt(cpu, a)
  <2>1. Read(cpu, 1, a) = Read(cpu, 1, u)
    BY <1>1, SizeIs, ReadAround
  <2> QED BY <1>2, <2>1
<1>4. Operands(i) = <<Read(cpu, 1, u), Read(cpu, 1, b)>>
  <2>1. i.name \notin {"neg", "negx", "nbcd"}
        /\ i.name \notin {"addi", "subi", "cmpi", "addq", "subq"}
    BY DEF ChainNames
  <2> QED BY <1>1, <2>1 DEF Operands
<1>5. Outcome(i) = Read(cpu', 1, b)
  BY DEF Outcome
<1> QED BY <1>2, <1>3, <1>4, <1>5

\* What a part does to the digits.
PartDone(name, f, s, d, v, g) ==
  /\ LeftOver(name, Radix(name), Altogether(name, Digit(name, s), Digit(name, d), f.x),
         Digit(name, v), g.x)
  /\ (g.z = 1) <=> (Digit(name, v) = 0 /\ f.z = 1)

\* addx.b and subx.b: the digit is the byte.
LEMMA BinaryPart ==
  ASSUME cpu \in Machine, cpu' \in Machine, NEW i, i.name \in {"addx", "subx"}, i.z = 1,
         Computes(i),
         NEW s \in Range0(1), NEW d \in Range0(1), NEW v, Operands(i) = <<s, d>>, Outcome(i) = v
  PROVE  PartDone(i.name, cpu.f, s, d, v, cpu'.f)
<1>1. PICK name, f, g : name = i.name /\ f = cpu.f /\ g = cpu'.f /\ f \in Flags /\ g \in Flags
  BY MachineIs
<1>2. InIntegers(i)
  BY <1>1, SizeIs, SumsConclude DEF Summing
<1>3. name \in Chaining /\ name \notin Comparing /\ name \notin InDigits
  BY <1>1 DEF Chaining, Comparing, InDigits
<1>4. PICK t : t = Altogether(name, s, d, f.x) /\ t = Total(i, s, d, CarryIn(i))
  BY <1>1, <1>3 DEF Total, CarryIn, Altogether
<1>5. Operands(i)[1] = s /\ Operands(i)[2] = d
  OBVIOUS
<1>6. /\ (g.c = 1) <=> t \notin Range0(1)
      /\ v = Low1(1, t) /\ g.x = g.c
      /\ (g.z = 1) <=> (v = 0 /\ f.z = 1)
  BY <1>1, <1>2, <1>3, <1>4, <1>5 DEF InIntegers
<1>7. PICK b \in Nat \ {0} : b = Mod(1) /\ Range0(1) = 0..(b - 1)
  BY SizeIs, Widths DEF Range0
<1>8. v = t % b /\ f.x \in {0, 1} /\ g.x \in {0, 1}
  BY <1>1, <1>6, <1>7 DEF Low1, Flags
<1>9. LeftOver(name, b, t, v, g.x)
  <2>1. (g.x = 1) <=> t \notin 0..(b - 1)
    BY <1>6, <1>7
  <2>2. PICK x \in {0, 1}, y \in {0, 1} : x = f.x /\ y = g.x
    BY <1>8
  <2>3. LeftOver(name, b, t, v, y)
    BY <1>4, <1>7, <1>8, <2>1, <2>2, DigitLeft
  <2> QED BY <2>2, <2>3
<1>10. Digit(name, s) = s /\ Digit(name, d) = d /\ Digit(name, v) = v /\ Radix(name) = b
  BY <1>3, <1>7 DEF Digit, Radix
<1> QED BY <1>1, <1>4, <1>6, <1>9, <1>10 DEF PartDone

\* abcd and sbcd: the digit is the number in the byte.
LEMMA DecimalPart ==
  ASSUME cpu \in Machine, cpu' \in Machine, NEW i, i.name \in InDigits, i.z = 1, Computes(i),
         NEW s \in Range0(1), NEW d \in Range0(1), NEW v \in Range0(1), Operands(i) = <<s,
         d>>, Outcome(i) = v,
         IsDecimal(s), IsDecimal(d)
  PROVE  PartDone(i.name, cpu.f, s, d, v, cpu'.f) /\ IsDecimal(v)
<1>1. PICK name, f, g : name = i.name /\ f = cpu.f /\ g = cpu'.f /\ f \in Flags /\ g \in Flags
  BY MachineIs
<1>2. InDecimals(i)
  BY <1>1, DecimalsConclude DEF InDigits
<1>3. PICK b \in Nat \ {0} : b = Digits * Digits /\ Radix(name) = b
  <2>1. Radix(name) = Digits * Digits
    BY <1>1 DEF Radix
  <2>2. Radix(name) \in Nat /\ Radix(name) >= 2
    BY <1>1, RadixIs DEF ChainNames, InDigits
  <2> QED BY <2>1, <2>2
<1>4. PICK t : t = Altogether(name, Number(s), Number(d), f.x)
      /\ t = Total(i, Number(s), Number(d), f.x)
  BY <1>1 DEF Total, Altogether
<1>5. Operands(i)[1] = s /\ Operands(i)[2] = d
  OBVIOUS
<1>6. /\ IsDecimal(v) /\ Number(v) = t % b
      /\ (g.c = 1) <=> t \notin 0..(b - 1)
      /\ g.x = g.c
      /\ (g.z = 1) <=> (v = 0 /\ f.z = 1)
  BY <1>1, <1>2, <1>3, <1>4, <1>5 DEF InDecimals
<1>7. Number(s) \in 0..(b - 1) /\ Number(d) \in 0..(b - 1) /\ (Number(v) = 0 <=> v = 0)
  BY <1>3, <1>6, DecimalNumber
<1>8. PICK x \in {0, 1}, y \in {0, 1}, j \in 0..(b - 1), k \in 0..(b - 1) :
        x = f.x /\ y = g.x /\ j = Number(s) /\ k = Number(d)
  BY <1>1, <1>7 DEF Flags
<1>9. PICK r : r = Number(v)
  OBVIOUS
<1>10. LeftOver(name, b, t, r, y)
  BY <1>4, <1>6, <1>8, <1>9, DigitLeft
<1>11. Digit(name, s) = j /\ Digit(name, d) = k /\ Digit(name, v) = r
  BY <1>1, <1>8, <1>9 DEF Digit
<1> QED BY <1>1, <1>3, <1>4, <1>6, <1>7, <1>8, <1>9, <1>10, <1>11 DEF PartDone

-----------------------------------------------------------------------------
\* Bytes of one number are different ones, and a byte that is written leaves others alone.
LEMMA PartsApart ==
  ASSUME NEW e \in Int, NEW j \in 1..Parts, NEW k \in 1..Parts, j # k
  PROVE  (e - j) % AddressSpace # (e - k) % AddressSpace
<1>1. PICK h \in Nat \ {0}, p \in Nat : h = AddressSpace /\ p = Parts /\ p <= h
  BY AddressAssumption, PartsAssumption, SpaceIs
<1>2. PICK u \in Int, v \in Int : u = e - j /\ v = e - k
  OBVIOUS
<1>3. PICK q \in Int, r \in 0..(h - 1) : r = u % h /\ u = q * h + r /\ q * h \in Int
  BY <1>1, <1>2, DivMod
<1>4. PICK o \in Int, s \in 0..(h - 1) : s = v % h /\ v = o * h + s /\ o * h \in Int
  BY <1>1, <1>2, DivMod
<1>5. SUFFICES ASSUME r = s PROVE FALSE
  BY <1>1, <1>2, <1>3, <1>4
<1>6. PICK f \in Int, g \in Int : f = q * h /\ g = o * h
  BY <1>3, <1>4
<1>7. f - g = k - j
  BY <1>2, <1>3, <1>4, <1>5, <1>6
<1>8. k - j < h /\ j - k < h /\ k - j # 0
  BY <1>1
<1>9. CASE q = o
  BY <1>6, <1>7, <1>8, <1>9
<1>10. CASE q > o
  <2>1. (o + 1) * h <= q * h /\ (o + 1) * h = o * h + 1 * h /\ 1 * h = h
    BY <1>10, Times, Distribute
  <2>2. g + h <= f
    BY <1>6, <2>1
  <2> QED BY <1>7, <1>8, <2>2
<1>11. CASE q < o
  <2>1. (q + 1) * h <= o * h /\ (q + 1) * h = q * h + 1 * h /\ 1 * h = h
    BY <1>11, Times, Distribute
  <2>2. f + h <= g
    BY <1>6, <2>1
  <2> QED BY <1>7, <1>8, <2>2
<1> QED BY <1>9, <1>10, <1>11

\* A byte that is not written is as before.
LEMMA ByteKept ==
  ASSUME NEW m, NEW o, NEW e \in Int, NEW b, b = Masked(4, e), Wrote(m.mem, o.mem, 1, b),
         NEW c \in Int, c % AddressSpace # e % AddressSpace
  PROVE  ByteAt(o, c) = ByteAt(m, c)
<1>1. PICK h \in Nat \ {0} : h = AddressSpace
  BY SpaceIs
<1>2. PICK y \in 0..(h - 1) : y = c % h /\ y \in Space
  <2>1. c % h \in 0..(h - 1)
    BY DivMod
  <2> QED BY <1>1, <2>1 DEF Space
<1>3. PICK a \in Int : a = b
  BY SizeIs, MaskedRange, LongIs
<1>4. a % h = e % h
  <2>1. (Masked(4, e) + 0) % AddressSpace = (e + 0) % AddressSpace
    BY AroundIs
  <2> QED BY <1>1, <1>3, <2>1
<1>5. SUFFICES ASSUME (y - a) % h < 1 PROVE FALSE
  BY <1>1, <1>2, <1>3 DEF Wrote, ByteAt
<1>6. PICK q \in Int, r \in 0..(h - 1) : r = (y - a) % h /\ y - a = q * h + r /\ q * h \in Int
  <2>1. y - a \in Int
    BY <1>2
  <2> QED BY <2>1, DivMod
<1>7. r = 0 /\ a = y - q * h
  BY <1>5, <1>6
<1>8. PICK k \in Int, x \in Int, z \in Int : k = -q /\ x = y /\ z = 0 /\ a = x + k * h
  <2>1. PICK k \in Int : k = -q
    OBVIOUS
  <2>2. k * h = -(q * h)
    BY <1>6, <2>1
  <2> QED BY <1>6, <1>7, <2>1, <2>2
<1>9. (x + k * h) % h = x % h
  BY Multiples
<1>10. x % h = x
  <2>1. z * h = 0
    BY <1>8
  <2>2. z * h <= x /\ x < z * h + h /\ x - z * h = x
    BY <1>2, <1>8, <2>1
  <2>3. x % h = x - z * h
    BY <2>2, DivIs
  <2> QED BY <2>2, <2>3
<1> QED BY <1>1, <1>2, <1>4, <1>8, <1>9, <1>10

\* Z of all parts.
LEMMA ZeroMore ==
  ASSUME NEW w \in Nat \ {0}, NEW r \in Int, NEW v \in Int, r >= 0, v >= 0
  PROVE  r + w * v = 0 <=> r = 0 /\ v = 0
<1>1. CASE v = 0
  <2>1. w * v = 0
    BY <1>1
  <2> QED BY <1>1, <2>1
<1>2. CASE v >= 1
  <2>1. 1 * w <= v * w /\ 1 * w = w /\ v * w = w * v
    BY <1>2, Times
  <2>2. PICK l \in Int : l = w * v
    OBVIOUS
  <2> QED BY <1>2, <2>1, <2>2
<1> QED BY <1>1, <1>2

-----------------------------------------------------------------------------
\* n parts of a chain are done.
FirstNumber(name, n) == Numbers(name, start, start.a[2])[n]
SecondNumber(name, n) == Numbers(name, start, start.a[3])[n]
ResultNumber(name, n) == Numbers(name, cpu, start.a[3])[n]
Untouched(n) ==
  \A k \in (n + 1)..Parts, r \in {2, 3} : ByteAt(cpu, start.a[r] - k) = ByteAt(start,
      start.a[r] - k)
Standing(name, n) ==
  /\ cpu.a[2] = Masked(4, start.a[2] - n) /\ cpu.a[3] = Masked(4, start.a[3] - n)
  /\ Untouched(n)
  /\ LeftOver(name, Weights(name)[n], Altogether(name, FirstNumber(name, n),
         SecondNumber(name, n), start.f.x),
           ResultNumber(name, n), cpu.f.x)
  /\ (cpu.f.z = 1) <=> (ResultNumber(name, n) = 0 /\ start.f.z = 1)

\* The instruction of a chain.
PartOf(name, i) ==
  /\ i.name = name /\ i.z = 1 /\ i.form = "mm" /\ i.ea.r = 2 /\ i.x = 3
  /\ IsInstruction(i) /\ MmHandlers(i)
ChainHere(name, n) ==
  /\ cpu \in Machine /\ cpu' \in Machine /\ start \in Machine /\ start' = start
  /\ name \in ChainNames /\ Chainable(name) /\ n \in 0..(Parts - 1) /\ Standing(name, n)

\* The registers of a part, and the bytes it reads.
LEMMA PartAddress ==
  ASSUME NEW name, NEW n, ChainHere(name, n), NEW r \in {2, 3},
         NEW a, a = Masked(4, cpu.a[r] - 1), NEW e, e = start.a[r] - (n + 1)
  PROVE  /\ e \in Int /\ a = Masked(4, e) /\ ByteAt(cpu, a) = ByteAt(start, e)
         /\ ByteAt(start, e) \in Range0(1) /\ \A m : ByteAt(m, a) = ByteAt(m, e)
<1>1. PICK s \in Int, p \in Nat : s = start.a[r] /\ p = Parts
  <2>1. start.a[r] \in Int
    BY MachineIs DEF ChainHere, Registers
  <2> QED BY <2>1, PartsAssumption
<1>2. n \in 0..(p - 1) /\ e \in Int
  BY <1>1 DEF ChainHere
<1>3. cpu.a[r] = Masked(4, s - n)
  BY <1>1 DEF ChainHere, Standing
<1>4. a = Masked(4, e)
  <2>1. PICK u \in Int, v \in Int : u = s - n /\ v = -1 /\ u + v = e
    BY <1>1, <1>2
  <2>2. Masked(4, Masked(4, u) + v) = Masked(4, u + v)
    BY SizeIs, MaskedSum
  <2>3. Masked(4, u) \in Int
    BY SizeIs, MaskedRange, LongIs
  <2>4. Masked(4, u) - 1 = Masked(4, u) + v
    BY <2>1, <2>3
  <2> QED BY <1>3, <2>1, <2>2, <2>4
<1>5. \A m : ByteAt(m, a) = ByteAt(m, e)
  <2>1. PICK k \in Int : k = 0
    OBVIOUS
  <2>2. (Masked(4, e) + k) % AddressSpace = (e + k) % AddressSpace
    BY <1>2, AroundIs
  <2>3. a \in Int
    BY <1>2, <1>4, SizeIs, MaskedRange, LongIs
  <2>4. a + k = a /\ e + k = e
    BY <1>2, <2>1, <2>3
  <2>5. a % AddressSpace = e % AddressSpace
    BY <1>4, <2>2, <2>4
  <2> QED BY <2>5 DEF ByteAt
<1>6. ByteAt(cpu, e) = ByteAt(start, e)
  <2>1. n + 1 \in (n + 1)..Parts
    BY <1>1, <1>2
  <2> QED BY <2>1 DEF ChainHere, Standing, Untouched
<1>7. ByteAt(start, e) \in Range0(1)
  BY <1>2, ByteRange DEF ChainHere
<1> QED BY <1>2, <1>4, <1>5, <1>6, <1>7

\* What a part leaves untouched.
LEMMA PartSpares ==
  ASSUME NEW name, NEW n, ChainHere(name, n), NEW e, e = start.a[3] - (n + 1),
         NEW b, b = Masked(4, e), Wrote(cpu.mem, cpu'.mem, 1, b)
  PROVE  /\ Untouched(n + 1)'
         /\ \A k \in 1..n : ByteAt(cpu, start.a[3] - k) = ByteAt(cpu', start.a[3] - k)
<1>1. PICK s \in Int, d \in Int, p \in Nat : s = start.a[2] /\ d = start.a[3] /\ p = Parts
  <2>1. start.a[2] \in Int /\ start.a[3] \in Int
    BY MachineIs DEF ChainHere, Registers
  <2> QED BY <2>1, PartsAssumption
<1>2. n \in 0..(p - 1) /\ e \in Int /\ e = d - (n + 1) /\ n + 1 \in 1..p
  BY <1>1 DEF ChainHere
<1>3. ASSUME NEW c \in Int, c % AddressSpace # e % AddressSpace PROVE ByteAt(cpu',
      c) = ByteAt(cpu, c)
  BY <1>2, <1>3, ByteKept
<1>4. ASSUME NEW k \in 1..p, k # n + 1 PROVE ByteAt(cpu', d - k) = ByteAt(cpu, d - k)
  <2>1. (d - (n + 1)) % AddressSpace # (d - k) % AddressSpace
    BY <1>1, <1>2, <1>4, PartsApart
  <2> QED BY <1>2, <1>3, <2>1
<1>5. ASSUME NEW k \in 1..p, n + 1 < k PROVE ByteAt(cpu', s - k) = ByteAt(cpu, s - k)
  <2>1. (d - (n + 1)) % AddressSpace # (s - k) % AddressSpace
    BY <1>1, <1>2, <1>5 DEF ChainHere, Chainable
  <2>2. s - k \in Int
    OBVIOUS
  <2> QED BY <1>2, <1>3, <2>1, <2>2
<1>6. ASSUME NEW k \in (n + 2)..p
      PROVE  ByteAt(cpu', d - k) = ByteAt(start, d - k)
            /\ ByteAt(cpu', s - k) = ByteAt(start, s - k)
  <2>1. k \in 1..p /\ n + 1 < k /\ k \in (n + 1)..p
    BY <1>2
  <2>2. ByteAt(cpu, d - k) = ByteAt(start, d - k) /\ ByteAt(cpu, s - k) = ByteAt(start, s - k)
    BY <1>1, <2>1 DEF ChainHere, Standing, Untouched
  <2> QED BY <1>2, <1>4, <1>5, <2>1, <2>2
<1>7. Untouched(n + 1)'
  <2>1. start' = start
    BY DEF ChainHere
  <2>2. (n + 1) + 1 = n + 2
    BY <1>2
  <2>3. \A k \in ((n + 1) + 1)..Parts, r \in {2, 3} :
          ByteAt(cpu', start.a[r] - k) = ByteAt(start, start.a[r] - k)
    BY <1>1, <1>6, <2>2
  <2> QED BY <2>1, <2>3 DEF Untouched, ByteAt
<1>8. ASSUME NEW k \in 1..n PROVE ByteAt(cpu, start.a[3] - k) = ByteAt(cpu', start.a[3] - k)
  <2>1. k \in 1..p /\ k # n + 1
    BY <1>2
  <2> QED BY <1>1, <1>4, <2>1
<1> QED BY <1>7, <1>8

-----------------------------------------------------------------------------
\* The numbers grow by the digits of a part.
LEMMA DigitsGrow ==
  ASSUME NEW name, NEW n, ChainHere(name, n), NEW b, b = Masked(4, start.a[3] - (n + 1)),
         Wrote(cpu.mem, cpu'.mem, 1, b), NEW w, w = Weights(name)[n],
         NEW t, t = Digit(name, ByteAt(start, start.a[2] - (n + 1))),
         NEW u, u = Digit(name, ByteAt(start, start.a[3] - (n + 1))),
         NEW v, v = Digit(name, ByteAt(cpu', start.a[3] - (n + 1)))
  PROVE  /\ w \in Nat \ {0} /\ t \in Int /\ u \in Int /\ v \in Int
         /\ Weights(name)[n + 1] = Radix(name) * w
         /\ FirstNumber(name, n) \in Int /\ SecondNumber(name, n) \in Int
            /\ ResultNumber(name, n) \in Int
         /\ FirstNumber(name, n + 1) = FirstNumber(name, n) + w * t
         /\ SecondNumber(name, n + 1) = SecondNumber(name, n) + w * u
         /\ ResultNumber(name, n + 1)' = ResultNumber(name, n) + w * v
<1>1. PICK s \in Int, d \in Int, p \in Nat : s = start.a[2] /\ d = start.a[3] /\ p = Parts
  <2>1. start.a[2] \in Int /\ start.a[3] \in Int
    BY MachineIs DEF ChainHere, Registers
  <2> QED BY <2>1, PartsAssumption
<1>2. /\ name \in ChainNames /\ n \in 0..(p - 1) /\ n \in 0..p /\ n + 1 \in 0..p
      /\ cpu \in Machine /\ cpu' \in Machine /\ start \in Machine /\ start' = start
  <2>1. n \in 0..(p - 1)
    BY <1>1 DEF ChainHere
  <2>2. n \in 0..p /\ n + 1 \in 0..p
    BY <2>1
  <2> QED BY <2>1, <2>2 DEF ChainHere
<1>3. w \in Nat \ {0} /\ Weights(name)[n + 1] = Radix(name) * w
  BY <1>1, <1>2, WeightIs
<1>4. t \in Int /\ u \in Int /\ v \in Int
  <2>1. s - (n + 1) \in Int /\ d - (n + 1) \in Int
    BY <1>2
  <2>2. /\ ByteAt(start, s - (n + 1)) \in Range0(1) /\ ByteAt(start, d - (n + 1)) \in Range0(1)
        /\ ByteAt(cpu', d - (n + 1)) \in Range0(1)
    BY <1>2, <2>1, ByteRange
  <2> QED BY <1>1, <2>2, DigitIs
<1>5. FirstNumber(name, n) \in Int /\ FirstNumber(name, n + 1) = FirstNumber(name, n) + w * t
  BY <1>1, <1>2, NumberIs DEF FirstNumber
<1>6. SecondNumber(name, n) \in Int /\ SecondNumber(name, n + 1) = SecondNumber(name, n) + w * u
  BY <1>1, <1>2, NumberIs DEF SecondNumber
<1>7. PICK m, c : m = cpu /\ c = cpu' /\ m \in Machine /\ c \in Machine
  BY <1>2
<1>8. Numbers(name, m, d)[n] = Numbers(name, c, d)[n]
  <2>1. \A k \in 1..n : ByteAt(m, d - k) = ByteAt(c, d - k)
    BY <1>1, <1>7, PartSpares
  <2>2. name \in ChainNames /\ n \in 0..Parts /\ m \in Machine /\ c \in Machine /\ d \in Int
    BY <1>1, <1>2, <1>7
  <2> HIDE DEF ChainHere
  <2> QED BY <2>1, <2>2, NumberSame
<1>9. Numbers(name, c, d)[n + 1] = Numbers(name, c, d)[n] + w * v
      /\ Numbers(name, m, d)[n] \in Int
  BY <1>1, <1>2, <1>7, NumberIs
<1>10. ResultNumber(name, n) = Numbers(name, m, d)[n]
  BY <1>1, <1>7 DEF ResultNumber
<1>11. ResultNumber(name, n + 1)' = Numbers(name, c, d)[n + 1]
  BY <1>1, <1>2, <1>7 DEF ResultNumber
<1> QED BY <1>3, <1>4, <1>5, <1>6, <1>8, <1>9, <1>10, <1>11

\* One part more: name.b -(a2),-(a3).
LEMMA ChainPart ==
  ASSUME NEW name, NEW n, ChainHere(name, n), NEW i, PartOf(name, i)
  PROVE  Standing(name, n + 1)' /\ cpu'.d = cpu.d /\ cpu'.pc = Ahead(2)
<1>1. /\ cpu \in Machine /\ cpu' \in Machine /\ start \in Machine /\ start' = start
         /\ name \in ChainNames
      /\ n \in 0..(Parts - 1) /\ Parts \in Nat
  BY PartsAssumption DEF ChainHere
<1>2. /\ i.name = name /\ i.z = 1 /\ i.form = "mm" /\ i.ea.r = 2 /\ i.x = 3
      /\ IsInstruction(i) /\ MmHandlers(i)
  BY DEF PartOf
<1>3. PICK a, b, e, o : /\ a = Masked(4, cpu.a[2] - 1) /\ b = Masked(4, cpu.a[3] - 1)
                        /\ e = start.a[2] - (n + 1) /\ o = start.a[3] - (n + 1)
  OBVIOUS
<1>4. /\ e \in Int /\ a = Masked(4, e) /\ ByteAt(cpu, a) = ByteAt(start, e)
      /\ ByteAt(start, e) \in Range0(1)
  BY <1>3, PartAddress
<1>5. /\ o \in Int /\ b = Masked(4, o) /\ ByteAt(cpu, b) = ByteAt(start, o)
      /\ ByteAt(start, o) \in Range0(1) /\ ByteAt(cpu', b) = ByteAt(cpu', o)
  BY <1>3, PartAddress
<1>6. 2 \in Registers \ {7} /\ 3 \in Registers \ {7} /\ 2 # 3
  BY DEF Registers
<1>7. /\ Becomes(cpu', cpu.d, [cpu.a EXCEPT ![2] = a, ![3] = b], cpu'.mem, Ahead(2))
      /\ Wrote(cpu.mem, cpu'.mem, 1, b)
  BY <1>1, <1>2, <1>3, <1>6, MmBecomes
<1>8. cpu'.d = cpu.d /\ cpu'.pc = Ahead(2) /\ cpu'.a[2] = a /\ cpu'.a[3] = b
  <2>1. PICK as : as = cpu.a /\ as \in [Registers -> Range0(4)]
    BY <1>1, MachineIs
  <2>2. cpu'.d = cpu.d /\ cpu'.pc = Ahead(2) /\ cpu'.a = [as EXCEPT ![2] = a, ![3] = b]
    BY <1>7, <2>1 DEF Becomes
  <2> QED BY <1>6, <2>1, <2>2
<1>9. PICK s, d, v : s = ByteAt(start, e) /\ d = ByteAt(start, o) /\ v = ByteAt(cpu', o)
                     /\ s \in Range0(1) /\ d \in Range0(1) /\ v \in Range0(1)
  BY <1>1, <1>4, <1>5, ByteRange
<1>10. Operands(i) = <<s, d>> /\ Outcome(i) = v
  <2>1. Operands(i) = <<ByteAt(cpu, a), ByteAt(cpu, b)>> /\ Outcome(i) = ByteAt(cpu', b)
    BY <1>1, <1>2, <1>3, <1>6, <1>8, MmOperands
  <2> QED BY <1>4, <1>5, <1>9, <2>1
<1>11. PartDone(name, cpu.f, s, d, v, cpu'.f)
  <2>1. Computes(i)
    BY <1>1, <1>2, MmComputes
  <2>2. CASE name \in InDigits
    <3>1. n + 1 \in 1..Parts
      BY <1>1
    <3>2. IsDecimal(s) /\ IsDecimal(d)
      BY <1>3, <1>9, <2>2, <3>1 DEF ChainHere, Chainable
    <3> QED BY <1>1, <1>2, <1>9, <1>10, <2>1, <2>2, <3>2, DecimalPart
  <2>3. CASE name \notin InDigits
    <3>1. name \in {"addx", "subx"}
      BY <1>1, <2>3 DEF ChainNames, InDigits
    <3> QED BY <1>1, <1>2, <1>9, <1>10, <2>1, <3>1, BinaryPart
  <2> QED BY <2>2, <2>3
<1>12. PICK w, t, u, r : /\ w = Weights(name)[n] /\ t = Digit(name, s) /\ u = Digit(name, d)
                         /\ r = Digit(name, v)
  OBVIOUS
<1>13. /\ w \in Nat \ {0} /\ t \in Int /\ u \in Int /\ r \in Int
       /\ Weights(name)[n + 1] = Radix(name) * w
       /\ FirstNumber(name, n) \in Int /\ SecondNumber(name, n) \in Int
          /\ ResultNumber(name, n) \in Int
       /\ FirstNumber(name, n + 1) = FirstNumber(name, n) + w * t
       /\ SecondNumber(name, n + 1) = SecondNumber(name, n) + w * u
       /\ ResultNumber(name, n + 1)' = ResultNumber(name, n) + w * r
  BY <1>3, <1>5, <1>7, <1>9, <1>12, DigitsGrow
<1>14. PICK f, g, h : f = cpu.f /\ g = cpu'.f /\ h = start.f
  OBVIOUS
<1>15. /\ LeftOver(name, w, Altogether(name, FirstNumber(name, n), SecondNumber(name, n),
              h.x), ResultNumber(name, n), f.x)
       /\ (f.z = 1) <=> (ResultNumber(name, n) = 0 /\ h.z = 1)
       /\ LeftOver(name, Radix(name), Altogether(name, t, u, f.x), r, g.x)
       /\ (g.z = 1) <=> (r = 0 /\ f.z = 1)
  BY <1>11, <1>12, <1>14 DEF ChainHere, Standing, PartDone
<1>16. PICK b0 \in Nat \ {0} : b0 = Radix(name)
  BY <1>1, RadixIs
<1>17. h.x \in {0, 1}
  BY <1>1, <1>14, MachineIs DEF Flags
<1>18. PICK S \in Int, D0 \in Int, R \in Int : S = FirstNumber(name, n)
      /\ D0 = SecondNumber(name, n) /\ R = ResultNumber(name, n)
  BY <1>13
<1>19. /\ LeftOver(name, b0 * w, Altogether(name, S + w * t, D0 + w * u, h.x), R + w * r, g.x)
       /\ (g.z = 1) <=> (R + w * r = 0 /\ h.z = 1)
  <2>5. PICK k \in {0, 1} : k = h.x
    BY <1>17
  <2>1. PICK x, y : x = f.x /\ y = g.x /\ k = h.x
    BY <2>5
  <2>2. /\ w \in Nat \ {0} /\ t \in Int /\ u \in Int /\ r \in Int /\ b0 \in Nat \ {0}
        /\ S \in Int /\ D0 \in Int /\ R \in Int /\ k \in {0, 1}
    BY <1>13, <1>16, <1>18, <2>5
  <2>3. LeftOver(name, w, Altogether(name, S, D0, k), R, x)
        /\ LeftOver(name, b0, Altogether(name, t, u, x), r, y)
    BY <1>15, <1>16, <1>18, <2>1
  <2>4. LeftOver(name, b0 * w, Altogether(name, S + w * t, D0 + w * u, k), R + w * r, y)
    BY <2>2, <2>3, OneDigitMore
  <2>6. R >= 0 /\ r >= 0
    BY <2>2, <2>3 DEF LeftOver
  <2>7. R + w * r = 0 <=> R = 0 /\ r = 0
    BY <2>2, <2>6, ZeroMore
  <2> QED BY <1>15, <1>18, <2>1, <2>4, <2>7
<1>20. Untouched(n + 1)'
  BY <1>3, <1>5, <1>7, PartSpares
<1>21. /\ LeftOver(name, Weights(name)[n + 1],
                Altogether(name, FirstNumber(name, n + 1), SecondNumber(name, n + 1), start.f.x),
                ResultNumber(name, n + 1)', cpu'.f.x)
       /\ (cpu'.f.z = 1) <=> (ResultNumber(name, n + 1)' = 0 /\ start.f.z = 1)
  BY <1>13, <1>14, <1>16, <1>18, <1>19
<1>22. FirstNumber(name, n + 1)' = FirstNumber(name, n + 1)
      /\ SecondNumber(name, n + 1)' = SecondNumber(name, n + 1)
  BY <1>1 DEF FirstNumber, SecondNumber
<1>23. cpu'.a[2] = Masked(4, start'.a[2] - (n + 1))
      /\ cpu'.a[3] = Masked(4, start'.a[3] - (n + 1))
  BY <1>1, <1>3, <1>4, <1>5, <1>8
<1> QED BY <1>1, <1>8, <1>20, <1>21, <1>22, <1>23 DEF Standing

-----------------------------------------------------------------------------
\* The handlers of a chain.
LEMMA MmOnes ==
  ASSUME cpu \in Machine, NEW i, IsInstruction(i), Handlers(i), i.name \in ChainNames,
         i.form = "mm"
  PROVE  MmHandlers(i)
<1>1. PICK name : name = i.name /\ name \in {"addx", "subx", "abcd", "sbcd"}
  BY DEF ChainNames
<1>2. Computing(i)
  <2>1. Binary(i)
    BY <1>1 DEF Binary
  <2> QED BY <2>1, BinaryHandlers
<1>3. ~ErHandlers(i) /\ ~ImmHandlers(i) /\ ~QuickHandlers(i)
  <2>1. ErHandlers(i) \/ ImmHandlers(i)
          => name \in {"add", "sub", "and", "or", "eor", "addi", "subi", "andi", "ori", "eori"}
    BY <1>1, ErIs, ImmIs
  <2>2. QuickHandlers(i) => name \in {"addq", "subq"}
    BY <1>1, QuickIs
  <2> QED BY <1>1, <2>1, <2>2
<1>4. ~UnaryHandlers(i)
  <2>1. UnaryHandlers(i) => name \in Onefold \cup {"nbcd", "ext", "swap"}
    BY <1>1, UnaryIs
  <2> QED BY <1>1, <2>1 DEF Onefold
<1>5. ~ShowHandlers(i) /\ ~AgainstHandlers(i)
  <2>1. ShowHandlers(i) => name \in {"cmp", "cmpa", "tst", "btst", "move"}
    BY <1>1, ShowIs
  <2>2. AgainstHandlers(i) => name \in {"cmpi", "btst"}
    BY <1>1, AgainstIs
  <2> QED BY <1>1, <2>1, <2>2
<1>6. ~RrHandlers(i)
  BY RrIs
<1> QED BY <1>2, <1>3, <1>4, <1>5, <1>6 DEF Computing

\* The lines of a chain.
LEMMA ChainLines ==
  ASSUME NEW name, code = Chain(name)
  PROVE  /\ DOMAIN code = {Org, Org + 2} /\ code # TestCode
         /\ cpu.pc = Org => Instr = [Plain EXCEPT !.name = name, !.z = 1, !.form = "mm",
                !.ea = Pd(2), !.x = 3]
         /\ cpu.pc = Org + 2 => Instr = Dbf(2, 0, 2)
<1>1. PICK o \in Int : o = Org
  BY ProgramAssumption, LongsAreInt
<1>2. Org + 2 # Org /\ DOMAIN code = {Org, Org + 2}
  BY <1>1 DEF Chain
<1>3. code # TestCode
  <2>1. Org + 70 \in DOMAIN TestCode
    BY DEF TestCode, Lines
  <2>2. o + 70 # o /\ o + 70 # o + 2
    OBVIOUS
  <2> QED BY <1>1, <1>2, <2>1, <2>2
<1> QED BY <1>2, <1>3 DEF Chain, Instr

\* dbf leaves the flags alone.
LEMMA DbfKeepsFlags == ASSUME cpu \in Machine, NEW i, dbf_16(i) PROVE cpu'.f = cpu.f
<1>1. cpu' = Loop(i)
  BY DEF dbf_16
<1>2. PICK n, r, v : cpu' = PutD(n, 2, r, v) /\ (n = Branch(Fetched, 2, i) \/ n = Passed)
  BY <1>1 DEF Loop
<1>3. Fetched.f = cpu.f /\ n.f = Fetched.f
  BY <1>2 DEF Fetched, Passed, Branch, Skip, Machine
<1>4. cpu'.f = n.f
  BY <1>2 DEF PutD
<1> QED BY <1>3, <1>4

\* The end of a round: dbf d2.
LEMMA ChainTurns ==
  ASSUME IInv, TypeOK', Next, Running, ~Unready, DOMAIN code = {Org, Org + 2}, start' = start,
         Instr = Dbf(2, 0, 2), cpu.pc = Org + 2, NEW j \in 0..Rounds, cpu.d[2] = start.d[2] - j
  PROVE  /\ cpu'.a = cpu.a /\ cpu'.mem = cpu.mem /\ cpu'.f = cpu.f
         /\ \/ j < Rounds /\ cpu'.pc = Org /\ cpu'.d[2] = start.d[2] - (j + 1)
            \/ j = Rounds /\ cpu'.pc = Masked(4, Org + 6)
<1>1. PICK i : i = Instr
  OBVIOUS
<1>2. i = Dbf(2, 0, 2)
  BY <1>1
<1>3. i.name = "dbf" /\ i.ea.r = 2 /\ i.q = Masked(2, -4)
  <2>1. 0 - 2 - 2 = -4
    OBVIOUS
  <2> QED BY <1>2, <2>1 DEF Dbf, Plain, D, None
<1>4. IsInstruction(i) /\ dbf_16(i) /\ cpu \in Machine
  BY <1>1, <1>3, StepOwn DEF Own
<1>5. PICK m \in Nat \ {0}, n \in Nat, d \in Nat : m = Mod(2) /\ n = Rounds /\ d = start.d[2]
  BY WordsHold, StartIs DEF IInv
<1>6. n = d % m /\ j \in 0..n /\ cpu.d[2] = d - j
  BY <1>5 DEF Rounds
<1>7. PICK c : c = Masked(2, cpu.d[2] - 1)
  OBVIOUS
<1>8. c = (d - j - 1) % m
  BY <1>5, <1>6, <1>7 DEF Masked
<1>9. TurnsLeft(d, m, n, j)
  <2>1. Turns(d, m, n, j)
    BY <1>6 DEF Turns
  <2> QED BY <2>1, RoundsLeft
<1>10. /\ Masked(2, cpu.d[2]) = n - j
       /\ j < n => c = n - j - 1
       /\ j = n => c = m - 1
  BY <1>5, <1>6, <1>8, <1>9 DEF Masked, TurnsLeft
<1>11. Becomes(cpu', [cpu.d EXCEPT ![2] = @ - Masked(2, @) + c], cpu.a, cpu.mem,
               IF c # Mod(2) - 1 THEN Ahead(2 + Signed(2, i.q)) ELSE Ahead(4))
  BY <1>3, <1>4, <1>7, DbfBecomes
<1>12. cpu.d \in [Registers -> Range0(4)] /\ 2 \in Registers
  BY <1>4, MachineIs DEF Registers
<1>13. /\ cpu'.d[2] = d - j - (n - j) + c /\ cpu'.a = cpu.a /\ cpu'.mem = cpu.mem
       /\ cpu'.pc = IF c # Mod(2) - 1 THEN Ahead(2 + Signed(2, i.q)) ELSE Ahead(4)
  BY <1>6, <1>10, <1>11, <1>12 DEF Becomes
<1>14. PICK o \in Int : o = Org
  BY ProgramAssumption, LongsAreInt
<1>15. cpu'.f = cpu.f
  BY <1>4, DbfKeepsFlags
<1>16. CASE j < n
  <2>1. n < m
    BY <1>5, StartIs DEF IInv
  <2>2. c = n - j - 1 /\ c # m - 1 /\ d - j - (n - j) + c = d - (j + 1)
    BY <1>6, <1>10, <1>16, <2>1
  <2>3. cpu'.d[2] = start.d[2] - (j + 1)
    BY <1>5, <1>13, <2>2
  <2>4. cpu'.pc = Org
    <3>1. -4 \in Int /\ 4 \in 1..128
      OBVIOUS
    <3>2. Signed(2, i.q) = -4
      BY <1>3, <3>1, BackIs
    <3>3. o + 2 + (2 + -4) = o
      BY <1>14
    <3>4. cpu'.pc = Masked(4, o + 2 + (2 + -4))
      BY <1>5, <1>13, <1>14, <2>2, <3>2 DEF Ahead
    <3>5. Masked(4, o) = o
      BY <1>14, ProgramAssumption, LongIs
    <3> QED BY <1>14, <3>3, <3>4, <3>5
  <2> QED BY <1>5, <1>13, <1>16, <1>15, <2>3, <2>4
<1>17. CASE j = n
  <2>1. c = m - 1
    BY <1>6, <1>10, <1>17
  <2>2. cpu'.pc = Masked(4, Org + 6)
    <3>1. o + 2 + 4 = o + 6
      BY <1>14
    <3> QED BY <1>5, <1>13, <1>14, <2>1, <3>1 DEF Ahead
  <2> QED BY <1>5, <1>13, <1>17, <1>15, <2>2
<1> QED BY <1>5, <1>6, <1>16, <1>17

-----------------------------------------------------------------------------
\* The loop of a chain: j rounds are done, and one more part.
RoundsDone(name, j, more) == cpu.d[2] = start.d[2] - j /\ Standing(name, j + more)
ChainInv ==
  \A name \in ChainNames : code = Chain(name) /\ Chainable(name) =>
    \/ cpu.pc = Org /\ \E j \in 0..Rounds : RoundsDone(name, j, 0)
    \/ cpu.pc = Org + 2 /\ \E j \in 0..Rounds : RoundsDone(name, j, 1)
    \/ cpu.pc = Masked(4, Org + 6) /\ Standing(name, Parts)

\* A chain has one more part than rounds.
LEMMA ChainRounds ==
  ASSUME NEW name, Chainable(name) PROVE Rounds = Parts - 1 /\ Parts \in Nat \ {0}
         /\ Rounds \in Nat
<1>1. Parts \in Nat \ {0}
  BY PartsAssumption
<1> QED BY <1>1 DEF Chainable, Rounds

\* What a number is depends on the memory only.
LEMMA StillStanding ==
  ASSUME cpu \in Machine, cpu' \in Machine, start \in Machine, start' = start,
         NEW name \in ChainNames,
         NEW n \in 0..Parts, Standing(name, n), cpu'.a = cpu.a, cpu'.mem = cpu.mem,
         cpu'.f = cpu.f
  PROVE  Standing(name, n)'
<1>1. PICK m, o, d : m = cpu /\ o = cpu' /\ d = start.a[3] /\ m \in Machine /\ o \in Machine
  OBVIOUS
<1>2. d \in Int
  BY <1>1, MachineIs DEF Registers
<1>3. \A c : ByteAt(m, c) = ByteAt(o, c)
  BY <1>1 DEF ByteAt
<1>4. Numbers(name, m, d)[n] = Numbers(name, o, d)[n]
  BY <1>1, <1>2, <1>3, NumberSame
<1>5. ResultNumber(name, n)' = ResultNumber(name, n)
  BY <1>1, <1>4 DEF ResultNumber
<1>6. Untouched(n)'
  <2>1. Untouched(n)
    BY DEF Standing
  <2>2. \A k \in (n + 1)..Parts, r \in {2, 3} : ByteAt(cpu', start'.a[r] - k) = ByteAt(start',
            start'.a[r] - k)
    BY <1>1, <1>3, <2>1 DEF Untouched
  <2> QED BY <2>2 DEF Untouched, ByteAt
<1>7. FirstNumber(name, n)' = FirstNumber(name, n)
      /\ SecondNumber(name, n)' = SecondNumber(name, n)
  BY DEF FirstNumber, SecondNumber
<1> QED BY <1>5, <1>6, <1>7 DEF Standing

\* At the start no part is done.
LEMMA ChainStarts == ASSUME InitTest PROVE ChainInv
<1>1. SUFFICES ASSUME NEW name \in ChainNames, code = Chain(name), Chainable(name)
               PROVE  cpu.pc = Org /\ \E j \in 0..Rounds : RoundsDone(name, j, 0)
  BY DEF ChainInv
<1>2. IInv
  BY Initially
<1>3. start = cpu /\ cpu.pc = Org /\ start \in Machine
  <2>1. PICK m \in Images(code) : cpu = [m EXCEPT !.pc = Org]
    BY DEF InitTest, Init
  <2>2. m \in Machine
    BY <1>2, ProgramAssumption DEF IInv
  <2> QED BY <1>2, <2>1, <2>2 DEF Machine, InitTest, Init, IInv, TypeOK
<1>4. PICK s \in Int, d \in Int, h \in Int : s = start.a[2] /\ d = start.a[3] /\ h = start.d[2]
                                           /\ Masked(4, s) = s /\ Masked(4, d) = d
  <2>1. start.a[2] \in Range0(4) /\ start.a[3] \in Range0(4) /\ start.d[2] \in Range0(4)
    BY <1>3, MachineIs DEF Registers
  <2> QED BY <2>1, LongIs, LongsAreInt
<1>5. s - 0 = s /\ d - 0 = d /\ h - 0 = h /\ 0 + 0 = 0
  BY <1>4
<1>6. 0 \in 0..Parts /\ 0 \in 0..Rounds
  BY <1>1, ChainRounds
<1>7. FirstNumber(name, 0) = 0 /\ SecondNumber(name, 0) = 0 /\ ResultNumber(name, 0) = 0
      /\ Weights(name)[0] = 1
  BY <1>1, <1>3, <1>4, NumberIs, WeightIs DEF FirstNumber, SecondNumber, ResultNumber
<1>8. LeftOver(name, 1, Altogether(name, 0, 0, start.f.x), 0, cpu.f.x)
  <2>1. PICK x \in {0, 1} : x = start.f.x /\ x = cpu.f.x
    BY <1>3, MachineIs DEF Flags
  <2>2. CASE name \in Adding
    <3>1. Altogether(name, 0, 0, x) = x
      BY <2>2 DEF Altogether
    <3> QED BY <2>1, <2>2, <3>1 DEF LeftOver
  <2>3. CASE name \notin Adding
    <3>1. Altogether(name, 0, 0, x) = -x
      BY <2>3 DEF Altogether
    <3> QED BY <2>1, <2>3, <3>1 DEF LeftOver
  <2> QED BY <2>2, <2>3
<1>9. Untouched(0)
  BY <1>3 DEF Untouched
<1>10. cpu.a[2] = Masked(4, start.a[2] - 0) /\ cpu.a[3] = Masked(4, start.a[3] - 0)
  BY <1>3, <1>4, <1>5
<1>11. (cpu.f.z = 1) <=> (ResultNumber(name, 0) = 0 /\ start.f.z = 1)
  BY <1>3, <1>7
<1>12. Standing(name, 0)
  BY <1>7, <1>8, <1>9, <1>10, <1>11 DEF Standing
<1>13. RoundsDone(name, 0, 0)
  BY <1>3, <1>4, <1>5, <1>12 DEF RoundsDone
<1> QED BY <1>3, <1>6, <1>13

-----------------------------------------------------------------------------
\* Where a chain is, and what it has done.
ChainPhase(name) ==
  \/ cpu.pc = Org /\ \E j \in 0..Rounds : RoundsDone(name, j, 0)
  \/ cpu.pc = Org + 2 /\ \E j \in 0..Rounds : RoundsDone(name, j, 1)
  \/ cpu.pc = Masked(4, Org + 6) /\ Standing(name, Parts)

\* A step without an instruction leaves it as it is.
LEMMA ChainRests ==
  ASSUME TypeOK, TypeOK', cpu' = cpu, start' = start, NEW name \in ChainNames,
         Chainable(name), ChainPhase(name)
  PROVE  ChainPhase(name)'
<1>1. cpu \in Machine /\ cpu' \in Machine /\ start \in Machine /\ Rounds' = Rounds
  BY DEF TypeOK, Rounds
<1>2. PICK p \in Nat : p = Parts /\ p # 0 /\ Rounds = p - 1
  BY ChainRounds
<1>3. ASSUME NEW n \in 0..Parts, Standing(name, n) PROVE Standing(name, n)'
  BY <1>1, <1>3, StillStanding
<1>4. ASSUME NEW j \in 0..Rounds, NEW more \in {0, 1}, RoundsDone(name, j,
      more) PROVE RoundsDone(name, j, more)'
  <2>1. j + more \in 0..Parts
    BY <1>2
  <2> QED BY <1>3, <1>4, <2>1 DEF RoundsDone
<1>5. CASE cpu.pc = Org /\ \E j \in 0..Rounds : RoundsDone(name, j, 0)
  <2>1. PICK j \in 0..Rounds : RoundsDone(name, j, 0)
    BY <1>5
  <2>2. RoundsDone(name, j, 0)'
    BY <1>4, <2>1
  <2> QED BY <1>1, <1>5, <2>2 DEF ChainPhase
<1>6. CASE cpu.pc = Org + 2 /\ \E j \in 0..Rounds : RoundsDone(name, j, 1)
  <2>1. PICK j \in 0..Rounds : RoundsDone(name, j, 1)
    BY <1>6
  <2>2. RoundsDone(name, j, 1)'
    BY <1>4, <2>1
  <2> QED BY <1>1, <1>6, <2>2 DEF ChainPhase
<1>7. CASE cpu.pc = Masked(4, Org + 6) /\ Standing(name, Parts)
  <2>1. Parts \in 0..Parts
    BY <1>2
  <2> QED BY <1>3, <1>7, <2>1 DEF ChainPhase
<1> QED BY <1>5, <1>6, <1>7 DEF ChainPhase

\* An instruction of a chain leads to the next line.
LEMMA ChainMoves ==
  ASSUME IInv, IInv', Next, Running, ~Unready, start' = start, NEW name \in ChainNames,
         code = Chain(name),
         Chainable(name), ChainPhase(name)
  PROVE  ChainPhase(name)'
<1>1. /\ cpu \in Machine /\ cpu' \in Machine /\ start \in Machine /\ Rounds' = Rounds
      /\ TypeOK /\ TypeOK' /\ code \in Programs
  BY DEF IInv, TypeOK, Rounds
<1>2. PICK p \in Nat : p = Parts /\ p # 0 /\ Rounds = p - 1
  BY ChainRounds
<1>3. CASE cpu.pc = Org /\ \E j \in 0..Rounds : RoundsDone(name, j, 0)
  <2>1. PICK j \in 0..Rounds : RoundsDone(name, j, 0)
    BY <1>3
  <2>2. PICK i : i = Instr
    OBVIOUS
  <2>3. PartOf(name, i)
    <3>1. i = [Plain EXCEPT !.name = name, !.z = 1, !.form = "mm", !.ea = Pd(2), !.x = 3]
      BY <1>3, <2>2, ChainLines
    <3>2. i.name = name /\ i.z = 1 /\ i.form = "mm" /\ i.ea.r = 2 /\ i.x = 3
      BY <3>1 DEF Plain, Pd, None
    <3>3. IsInstruction(i) /\ Handlers(i)
      BY <2>2, StepOwn
    <3> QED BY <1>1, <3>2, <3>3, MmOnes DEF PartOf
  <2>4. j + 0 = j /\ j \in 0..(p - 1)
    BY <1>2
  <2>5. ChainHere(name, j)
    BY <1>1, <1>2, <2>1, <2>4 DEF ChainHere, RoundsDone
  <2>6. Standing(name, j + 1)' /\ cpu'.d = cpu.d /\ cpu'.pc = Ahead(2)
    BY <2>3, <2>5, ChainPart
  <2>7. cpu'.pc = Org + 2
    BY <1>1, <1>3, <2>6, LineAddress, ChainLines DEF Ahead
  <2>8. RoundsDone(name, j, 1)'
    BY <2>1, <2>6 DEF RoundsDone
  <2> QED BY <1>1, <2>7, <2>8 DEF ChainPhase
<1>4. CASE cpu.pc = Org + 2 /\ \E j \in 0..Rounds : RoundsDone(name, j, 1)
  <2>1. PICK j \in 0..Rounds : RoundsDone(name, j, 1)
    BY <1>4
  <2>2. cpu.d[2] = start.d[2] - j /\ Standing(name, j + 1)
    BY <2>1 DEF RoundsDone
  <2>3. Instr = Dbf(2, 0, 2) /\ DOMAIN code = {Org, Org + 2}
    BY <1>4, ChainLines
  <2>4. /\ cpu'.a = cpu.a /\ cpu'.mem = cpu.mem /\ cpu'.f = cpu.f
        /\ \/ j < Rounds /\ cpu'.pc = Org /\ cpu'.d[2] = start.d[2] - (j + 1)
           \/ j = Rounds /\ cpu'.pc = Masked(4, Org + 6)
    BY <1>1, <1>4, <2>2, <2>3, ChainTurns
  <2>5. j + 1 \in 0..Parts
    BY <1>2
  <2>6. Standing(name, j + 1)'
    BY <1>1, <2>2, <2>4, <2>5, StillStanding
  <2>7. CASE j < Rounds /\ cpu'.pc = Org /\ cpu'.d[2] = start.d[2] - (j + 1)
    <3>1. j + 1 \in 0..Rounds /\ j + 1 + 0 = j + 1
      BY <1>2, <2>7
    <3>2. RoundsDone(name, j + 1, 0)'
      BY <2>6, <2>7, <3>1 DEF RoundsDone
    <3> QED BY <1>1, <2>7, <3>1, <3>2 DEF ChainPhase
  <2>8. CASE j = Rounds /\ cpu'.pc = Masked(4, Org + 6)
    <3>1. j + 1 = Parts
      BY <1>2, <2>8
    <3> QED BY <2>6, <2>8, <3>1 DEF ChainPhase
  <2> QED BY <2>4, <2>7, <2>8
<1>5. CASE cpu.pc = Masked(4, Org + 6) /\ Standing(name, Parts)
  <2>1. cpu.pc \in {Org, Org + 2}
    BY ChainLines DEF Running
  <2>2. Masked(4, Org + 6) \notin {Org, Org + 2}
    BY <1>1, ChainLines, BehindLines
  <2> QED BY <1>5, <2>1, <2>2
<1> QED BY <1>3, <1>4, <1>5 DEF ChainPhase

\* Every step keeps it so.
LEMMA ChainStays == ASSUME IInv, IInv', ChainInv, [Next]_vars PROVE ChainInv'
<1>1. SUFFICES ASSUME NEW name \in ChainNames, code' = Chain(name), Chainable(name)'
               PROVE  ChainPhase(name)'
  BY DEF ChainInv, ChainPhase
<1>2. code' = code /\ start' = start
  <2>1. CASE UNCHANGED vars
    BY <2>1 DEF vars
  <2>2. CASE Next /\ Running
    BY <2>2, StepsRight
  <2>3. CASE Next /\ ~Running
    <3>1. Ended
      BY <2>3, HandlersAre DEF Next, Handling, Unready
    <3> QED BY <3>1 DEF Ended
  <2> QED BY <2>1, <2>2, <2>3
<1>3. Chainable(name)
  BY <1>1, <1>2 DEF Chainable, ByteAt
<1>4. code = Chain(name) /\ ChainPhase(name) /\ TypeOK /\ TypeOK'
  BY <1>1, <1>2, <1>3 DEF ChainInv, ChainPhase, IInv
<1>5. CASE cpu' = cpu
  BY <1>2, <1>3, <1>4, <1>5, ChainRests
<1>6. CASE Next /\ Running /\ ~Unready
  BY <1>2, <1>3, <1>4, <1>6, ChainMoves
<1>7. CASE UNCHANGED vars
  BY <1>5, <1>7 DEF vars
<1>8. CASE Next
  BY <1>4, <1>5, <1>6, <1>8, ChainLines, RoutineStep
<1> QED BY <1>7, <1>8

\* At the end the numbers are added or subtracted.
LEMMA ChainHolds == ASSUME IInv, ChainInv PROVE ChainsRight
<1>1. SUFFICES ASSUME cpu.pc = AfterLoop, NEW name \in ChainNames, code = Chain(name),
      Chainable(name)
               PROVE  ChainRight(name)
  BY DEF ChainsRight
<1>2. PICK o \in Int : o = Org
  BY ProgramAssumption, LongsAreInt
<1>3. o + 6 # o /\ o + 6 # o + 2
  OBVIOUS
<1>4. Standing(name, Parts)
  BY <1>1, <1>2, <1>3 DEF ChainInv, AfterLoop
<1>5. PICK w, s, d, r, e : /\ w = Weights(name)[Parts] /\ s = FirstNumber(name, Parts)
                              /\ d = SecondNumber(name, Parts)
                           /\ r = ResultNumber(name, Parts) /\ e = start.f.x
  OBVIOUS
<1>6. w \in Nat \ {0} /\ s \in Int /\ d \in Int /\ e \in {0, 1}
  <2>1. start \in Machine /\ start.a[2] \in Int /\ start.a[3] \in Int /\ start.f \in Flags
    BY MachineIs DEF IInv, TypeOK, Registers
  <2>2. Parts \in 0..Parts
    BY PartsAssumption
  <2> QED BY <1>5, <2>1, <2>2, NumberIs, WeightIs DEF FirstNumber, SecondNumber, Flags
<1>7. PICK t \in Int : t = Altogether(name, s, d, e)
  <2>1. d + s + e \in Int /\ d - s - e \in Int
    BY <1>6
  <2> QED BY <2>1 DEF Altogether
<1>8. LeftOver(name, w, t, r, cpu.f.x) /\ ((cpu.f.z = 1) <=> (r = 0 /\ start.f.z = 1))
  BY <1>4, <1>5, <1>7 DEF Standing
<1>9. r = t % w /\ ((cpu.f.x = 1) <=> t \notin 0..(w - 1))
  BY <1>6, <1>8, LeftIs
<1>10. /\ w = Weights(name)[Parts] /\ s = Numbers(name, start, start.a[2])[Parts]
       /\ d = Numbers(name, start, start.a[3])[Parts]
          /\ r = Numbers(name, cpu, start.a[3])[Parts]
       /\ t = IF name \in Adding THEN d + s + start.f.x ELSE d - s - start.f.x
  BY <1>5, <1>7 DEF FirstNumber, SecondNumber, ResultNumber, Altogether
<1> QED BY <1>8, <1>9, <1>10 DEF ChainRight

\* A chain of ADDX, SUBX, ABCD or SBCD over the DBF between its parts is the
\* sum or the difference of the whole numbers, with X and Z for all parts:
\* for every number of parts, width of a byte and base of the digits.
THEOREM ChainsAdd == Spec => []ChainsRight
<1>1. InitTest => ChainInv
  BY ChainStarts
<1>2. IInv /\ IInv' /\ ChainInv /\ [Next]_vars => ChainInv'
  BY ChainStays
<1>3. IInv /\ ChainInv => ChainsRight
  BY ChainHolds
<1> QED BY <1>1, <1>2, <1>3, Invariant, PTL DEF Spec

\* All routines come out right.
THEOREM Routines == Spec => []RoutinesRight
<1>1. ChainsRight /\ CountsRight /\ CallsRight => RoutinesRight
  BY DEF RoutinesRight
<1> QED BY <1>1, ChainsAdd, Counts, Subroutines, PTL
=============================================================================
