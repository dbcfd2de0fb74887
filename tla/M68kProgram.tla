---------------------------- MODULE M68kProgram -----------------------------
(***************************************************************************)
(* m68k_execute on a program of the 68000: fetch an opcode, look up its    *)
(* handler, call it, until the program leaves its code or a handler raises *)
(* an exception.  The properties say what the instructions are for, in     *)
(* terms that the handlers do not use: integers for their bits, one step   *)
(* at a time for their shifts, the disassembler for their lengths.         *)
(***************************************************************************)
EXTENDS M68kComputing, M68kBits, M68kMoving, M68kFlow, M68kDisassembler

CONSTANTS
  Org,       \* where they begin
  Programs,  \* functions from addresses to instructions
  Images(_)  \* the machines that one of them may begin with

\* What the opcodes and their extension words may hold.
IsOperand(o) ==
  /\ o.mode \in Modes \cup {"none"}
  /\ o.mode \in {"d", "a", "ai", "pi", "pd", "di", "ix"} => o.r \in Registers
  /\ o.mode \in {"di", "ix", "aw", "al", "pcdi", "pcix", "i"} => o.e \in Range0(4)
  /\ o.mode \in {"ix", "pcix"} => o.xn \in 0..15 /\ o.xl \in BOOLEAN
HasX(i) ==
  \/ i.form \in {"er", "re", "rr", "mm", "r"} /\ i.name # "movem"
  \/ i.name \in {"adda", "suba", "cmp", "cmpa", "cmpm", "mulu", "muls", "divu", "divs", "eor",
                 "movea", "moveq", "movep", "exg", "lea", "chk"}
IsInstruction(i) ==
  /\ i.z \in Sizes /\ IsOperand(i.ea) /\ IsOperand(i.to)
  /\ i.ea.more \in Nat /\ i.to.more \in Nat
  /\ HasX(i) => i.x \in Registers
  /\ i.q \in Range0(i.z)
  /\ i.cc \in Conditions \cup {"t", "f"} /\ i.regs \subseteq 0..15

ASSUME ProgramAssumption ==
  /\ Org \in Range0(4)
  /\ \A p \in Programs : /\ \A at \in DOMAIN p : at \in Range0(4) /\ IsInstruction(p[at])
                         /\ Images(p) \subseteq Machine

VARIABLE start  \* the machine when the program began

Init ==
  /\ code \in Programs
  /\ cpu \in {[m EXCEPT !.pc = Org] : m \in Images(code)}
  /\ start = cpu

TypeOK == cpu \in Machine /\ start \in Machine

-----------------------------------------------------------------------------
\* The operands of a binary operation on registers, or on memory downwards,
\* and where its result goes.
Signed(z, v) == IF v < Half[z] THEN v ELSE v - Mod(z)
Low1(z, v) == v % Mod(z)
Binary(i) ==
  /\ i.name \in {"add", "addx", "sub", "subx", "cmp", "neg", "negx", "addi", "subi", "cmpi",
                 "addq", "subq", "abcd", "sbcd", "nbcd"}
  /\ i.ea.mode = "d" \/ i.form = "mm"
Operands(i) ==
  CASE i.name \in {"neg", "negx", "nbcd"} -> <<Low1(i.z, cpu.d[i.ea.r]), 0>>
    [] i.name \in {"addi", "subi", "cmpi", "addq", "subq"} -> <<i.q, Low1(i.z, cpu.d[i.ea.r])>>
    [] i.form = "mm" -> LET step(r) == IF i.z = 1 /\ r = 7 THEN 2 ELSE i.z
                        IN <<Read(cpu, i.z, cpu.a[i.ea.r] - step(i.ea.r)),
                             Read(cpu, i.z, cpu'.a[i.x])>>
    [] OTHER -> <<Low1(i.z, cpu.d[i.ea.r]), Low1(i.z, cpu.d[i.x])>>
Outcome(i) ==
  CASE i.form = "mm" -> Read(cpu', i.z, cpu'.a[i.x])
    [] i.form \in {"rr", "er"} -> Low1(i.z, cpu'.d[i.x])
    [] OTHER -> Low1(i.z, cpu'.d[i.ea.r])

\* The order of two numbers, as a program asks for it after a comparison.
OrderShown(z, s, d, f) ==
  /\ Condition("eq", f) <=> d = s
  /\ Condition("hi", f) <=> d > s
  /\ Condition("cc", f) <=> d >= s
  /\ Condition("lt", f) <=> Signed(z, d) < Signed(z, s)
  /\ Condition("le", f) <=> Signed(z, d) <= Signed(z, s)
  /\ Condition("ge", f) <=> Signed(z, d) >= Signed(z, s)
  /\ Condition("gt", f) <=> Signed(z, d) > Signed(z, s)

Chaining == {"addx", "subx", "negx", "abcd", "sbcd", "nbcd"}
Adding == {"add", "addx", "addi", "addq", "abcd"}
Comparing == {"cmp", "cmpi"}
Total(i, s, d, x) == IF i.name \in Adding THEN d + s + x ELSE d - s - x
CarryIn(i) == IF i.name \in Chaining THEN cpu.f.x ELSE 0

InIntegers(i) ==
  LET s == Operands(i)[1]
      d == Operands(i)[2]
      r == Outcome(i)
      unsigned == Total(i, s, d, CarryIn(i))
      signed == Total(i, Signed(i.z, s), Signed(i.z, d), CarryIn(i))
      f == cpu'.f
  IN /\ (f.c = 1) <=> unsigned \notin Range0(i.z)
     /\ (f.v = 1) <=> signed \notin (-Half[i.z])..(Half[i.z] - 1)
     /\ IF i.name \in Comparing
        THEN OrderShown(i.z, s, d, f) /\ cpu'.d = cpu.d /\ f.x = cpu.f.x
        ELSE /\ r = Low1(i.z, unsigned)
             /\ f.x = f.c
             /\ (f.n = 1) <=> Signed(i.z, r) < 0
             /\ (f.z = 1) <=> (r = 0 /\ (i.name \in Chaining => cpu.f.z = 1))

\* Two digits, a number of its own below Digits^2.
IsDecimal(b) == b % Nibble < Digits /\ b \div Nibble < Digits
Number(b) == (b \div Nibble) * Digits + (b % Nibble)
InDecimals(i) ==
  LET s == Operands(i)[1]
      d == Operands(i)[2]
      r == Outcome(i)
      t == Total(i, Number(s), Number(d), cpu.f.x)
  IN IsDecimal(s) /\ IsDecimal(d) =>
       /\ IsDecimal(r) /\ Number(r) = t % (Digits * Digits)
       /\ (cpu'.f.c = 1) <=> t \notin 0..(Digits * Digits - 1)
       /\ cpu'.f.x = cpu'.f.c
       /\ (cpu'.f.z = 1) <=> (r = 0 /\ cpu.f.z = 1)

\* ArithmeticExact: what the handlers of ADD, SUB, NEG, CMP, their forms with
\* X and their decimal forms leave behind is the sum or difference modulo the
\* size; C says that it left the unsigned range, V that it left the signed
\* one, Z holds over all parts of a chain, and after a comparison the
\* conditions tell the order of the operands.
ArithmeticExact ==
  [][Running /\ Binary(Instr) =>
       IF Instr.name \in {"abcd", "sbcd", "nbcd"} THEN InDecimals(Instr)
       ELSE InIntegers(Instr)]_cpu

-----------------------------------------------------------------------------
Abs(n) == IF n < 0 THEN -n ELSE n

\* Does a quotient that fits a word exist, and is it the one in the register?
Divides(d, s, q, r) ==
  d = q * s + r /\ Abs(r) < Abs(s) /\ (r # 0 => (r < 0) = (d < 0))
Fits(d, s, low, high) ==
  LET m == Abs(d) \div Abs(s)
  IN (IF (d < 0) = (s < 0) THEN m ELSE -m) \in low..high

QuotientRight(i, d, s, low, high, word(_)) ==
  LET q == word(Low1(2, cpu'.d[i.x]))
      r == word(cpu'.d[i.x] \div Mod(2))
  IN /\ (cpu'.f.v = 0) <=> Fits(d, s, low, high)
     /\ IF cpu'.f.v = 0
        THEN Divides(d, s, q, r) /\ ((cpu'.f.z = 1) <=> q = 0)
        ELSE cpu'.d = cpu.d

\* What DIVS leaves of the smallest long by -1, whose quotient C cannot
\* compute: 0 with Z set and V clear, though the quotient does not fit.
Unquotient(i) ==
  /\ cpu'.d = [cpu.d EXCEPT ![i.x] = 0]
  /\ cpu'.f = [x |-> cpu.f.x, n |-> 0, z |-> 1, v |-> 0, c |-> 0]

Product(i) ==
  LET s == Low1(2, cpu.d[i.ea.r])
      d == cpu.d[i.x]
      same(w) == w
      signed(w) == Signed(2, w)
  IN CASE i.name = "mulu" -> cpu'.d[i.x] = s * Low1(2, d)
       [] i.name = "muls" -> Signed(4, cpu'.d[i.x]) = Signed(2, s) * Signed(2, Low1(2, d))
       [] i.name \in {"divu", "divs"} /\ s = 0 ->
            cpu'.trap = "zero_divide" /\ cpu'.d = cpu.d /\ cpu'.f = cpu.f
       [] i.name = "divu" /\ s # 0 -> QuotientRight(i, d, s, 0, Mod(2) - 1, same)
       [] i.name = "divs" /\ s # 0 ->
            IF d = Half[4] /\ s = Mod(2) - 1 THEN Unquotient(i)
            ELSE QuotientRight(i, Signed(4, d), Signed(2, s), -Half[2], Half[2] - 1, signed)

\* ProductsExact: MULU and MULS give the product of two words in a long.
\* DIVU and DIVS give the quotient and a remainder with the sign of the
\* dividend, or set V and change nothing when the quotient does not fit; all
\* but the smallest dividend by -1, where DIVS leaves 0 and tells of no
\* overflow.
ProductsExact ==
  [][/\ Running /\ Instr.name \in {"mulu", "muls", "divu", "divs"} /\ Instr.ea.mode = "d"
     => Product(Instr)]_cpu

-----------------------------------------------------------------------------
\* One bit at a time.
OneBit(name, z, p) ==
  LET top == p.v \div Half[z]
      last == p.v % 2
      left(into) == ((2 * p.v) % Mod(z)) + into
      right(into) == p.v \div 2 + into * Half[z]
      out(v, c) == [v |-> v, c |-> c, x |-> c, o |-> p.o]
      turn(v, c) == [v |-> v, c |-> c, x |-> p.x, o |-> p.o]
  IN CASE name = "asr"  -> out(right(top), last)
       [] name = "lsr"  -> out(right(0), last)
       [] name = "lsl"  -> out(left(0), top)
       [] name = "asl"  -> [out(left(0), top) EXCEPT
                              !.o = IF left(0) \div Half[z] # top THEN 1 ELSE @]
       [] name = "ror"  -> turn(right(last), last)
       [] name = "rol"  -> turn(left(top), top)
       [] name = "roxr" -> out(right(p.x), last)
       [] name = "roxl" -> out(left(p.x), top)

BitByBit(name, z, f, n, d) ==
  LET first == [v |-> d, c |-> IF name \in {"roxr", "roxl"} THEN f.x ELSE 0, x |-> f.x, o |-> 0]
      after[k \in 0..n] == IF k = 0 THEN first ELSE OneBit(name, z, after[k - 1])
  IN after[n]

Stepwise(i) ==
  LET n == CASE i.form = "r" -> cpu.d[i.x] % (2 * Bits(4))
             [] i.form = "s" -> i.q
      p == BitByBit(i.name, i.z, cpu.f, n, Low1(i.z, cpu.d[i.ea.r]))
  IN /\ Low1(i.z, cpu'.d[i.ea.r]) = p.v
     /\ cpu'.f = [x |-> p.x, n |-> p.v \div Half[i.z], z |-> IF p.v = 0 THEN 1 ELSE 0,
                  v |-> p.o, c |-> p.c]

\* ShiftsStepwise: a shift or rotation by n places is n of them by one, for
\* the value, for C and X, and for V, which ASL sets when the sign changed on
\* the way; by 0 places X stays.  The counts in registers run past the size.
ShiftsStepwise ==
  [][/\ Running /\ Instr.form \in {"s", "r"}
     /\ Instr.name \in {"asr", "asl", "lsr", "lsl", "ror", "rol", "roxr", "roxl"}
     => Stepwise(Instr)]_cpu

-----------------------------------------------------------------------------
\* What an instruction names: data registers, address registers that move or
\* are written, bytes of memory.
Whole == {"ext", "mulu", "muls", "divu", "divs", "movem"}
Loads == {"adda", "suba", "movea", "lea"}
Stack == {"pea", "link", "unlk", "bsr", "jsr", "rts", "rtr"}
Steps(o) == IF o.mode \in {"pi", "pd"} THEN {o.r} ELSE {}
DataNamed(i) ==
  {i.x, i.ea.r, i.to.r} \cup (i.regs \cap Registers)
AddressNamed(i) ==
  Steps(i.ea) \cup Steps(i.to)
    \cup (IF i.name \in Loads \/ i.form = "mm" \/ i.name \in {"cmpm", "exg"} THEN {i.x} ELSE {})
    \cup (IF i.name \in {"exg", "link", "unlk"} \/ i.form = "a" THEN {i.ea.r} ELSE {})
    \cup (IF i.name \in Stack THEN {7} ELSE {})
    \cup {r \in Registers : r + 8 \in i.regs}
Bytes(i) ==
  CASE i.name \in {"pea", "link", "bsr", "jsr"} -> 4
    [] i.name = "movem" /\ i.form = "re" -> Length(i, i.z)
    [] i.name \in {"cmp", "cmpa", "cmpi", "cmpm", "tst", "btst", "chk", "mulu", "muls", "divu",
                   "divs", "adda", "suba", "movea", "lea", "moveq"} -> 0
    [] i.form = "er" -> 0
    [] OTHER -> i.z
Silent ==
  {"adda", "suba", "movea", "movem", "movep", "exg", "lea", "pea", "link", "unlk", "st", "sf",
   "scc", "bcc", "bra", "bsr", "dbt", "dbf", "dbcc", "jmp", "jsr", "rts", "nop", "trapv"}
KeepX ==
  {"cmp", "cmpa", "cmpi", "cmpm", "tst", "and", "or", "eor", "not", "move", "moveq", "btst",
   "bchg", "bclr", "bset", "mulu", "muls", "divu", "divs", "clr", "ext", "swap", "tas", "chk",
   "ror", "rol"}

OnlyNamed(i) ==
  /\ \A r \in Registers :
       /\ cpu'.d[r] = cpu.d[r] \/ r \in DataNamed(i)
       /\ i.z < 4 /\ i.name \notin Whole => cpu'.d[r] \div Mod(i.z) = cpu.d[r] \div Mod(i.z)
       /\ cpu'.a[r] = cpu.a[r] \/ r \in AddressNamed(i)
  /\ Cardinality({b \in DOMAIN cpu.mem : cpu'.mem[b] # cpu.mem[b]}) <= Bytes(i)
  /\ i.name \in Silent => cpu'.f = cpu.f
  /\ i.name \in KeepX /\ i.form # "toc" => cpu'.f.x = cpu.f.x

\* OnlyDestination: an instruction changes no register and no memory but what
\* it names: of a data register only the low byte or word, of the address
\* registers those it steps through, of the flags none for moves of addresses
\* and for branches, and X for arithmetic and shifts only, so that a chain of
\* ADDX goes on over the loop around it.
OnlyDestination == [][Running => OnlyNamed(Instr)]_cpu

-----------------------------------------------------------------------------
CounterRight(i) ==
  LET next == Masked(4, cpu.pc + Disassembled(i))
      aim == Masked(4, cpu.pc + 2 + Signed(i.z, i.q))
  IN CASE i.name \in {"jmp", "rts", "rtr", "bra"} -> TRUE
       [] i.name \in {"bcc", "dbf", "dbcc"} -> cpu'.pc \in {next, aim}
       [] i.name \in {"bsr", "jsr"} -> Read(cpu', 4, cpu'.a[7]) = next
       [] OTHER -> cpu'.pc = next

\* LengthsAgree: the counter after an instruction, and the return address of
\* a subroutine, are where the disassembler goes on; a branch not taken goes
\* there and one that is taken counts from the word behind the opcode.  The
\* full extension words, which only the disassembler knows, are left out.
LengthsAgree ==
  [][Running /\ Instr.ea.more = 0 /\ Instr.to.more = 0 => CounterRight(Instr)]_cpu
=============================================================================
