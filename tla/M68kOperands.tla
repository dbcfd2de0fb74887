---------------------------- MODULE M68kOperands ----------------------------
(***************************************************************************)
(* The registers and the memory as the handlers reach them: addressing     *)
(* modes with their side effects, and what an instruction is to TLC.       *)
(*                                                                         *)
(* Instructions are records, kept apart from the data memory; M68kMemory   *)
(* has the prefetch, and the stores into code.  The counter still runs     *)
(* over every extension word, because branches, PC-relative modes and      *)
(* return addresses are counted from there.  An odd address of a word or a *)
(* long is an exception: that is in M68kExceptions, and no program here    *)
(* has one.                                                                *)
(***************************************************************************)
EXTENDS M68kValues

CONSTANT AddressSpace  \* bytes the address lines reach; 2^24 in the source

\* No list of registers goes around it, and it goes around with a long.
ASSUME AddressAssumption == AddressSpace \in 64..Mod(4) /\ Mod(4) % AddressSpace = 0

Registers == 0..7
Modes == {"d", "a", "ai", "pi", "pd", "di", "ix", "aw", "al", "pcdi", "pcix", "i"}

\* The machine: D0-D7, A0-A7, memory, counter, condition codes, and the
\* exception an instruction raised itself.
Machine == [d : [Registers -> Range0(4)], a : [Registers -> Range0(4)],
            mem : [0..(AddressSpace - 1) -> Range0(1)],
            pc : Range0(4), f : Flags,
            trap : {"none", "zero_divide", "chk", "trapv"}]

\* Memory is big endian, and addresses are masked.
ByteAt(m, at) == m.mem[at % AddressSpace]
ReadEvery(m, z, at, n) ==
  LET word(a) == ByteAt(m, a) * Mod(1) + ByteAt(m, a + n)
  IN CASE z = 1 -> ByteAt(m, at)
       [] z = 2 -> word(at)
       [] z = 4 -> word(at) * Mod(2) + word(at + 2 * n)
Read(m, z, at) == ReadEvery(m, z, at, 1)

\* Byte k of a value, as it lies in the memory.
ByteOf(z, v, k) == (v \div Pow2[Bits(z - 1 - k)]) % Mod(1)
Write(m, z, at, v) ==
  [m EXCEPT !.mem = [b \in DOMAIN @ |->
     LET k == (b - at) % AddressSpace IN IF k < z THEN ByteOf(z, v, k) ELSE @[b]]]

\* m68ki_push_32, m68ki_pull_32 and m68ki_pull_16.
Push(m, v) ==
  LET sp == Masked(4, m.a[7] - 4) IN Write([m EXCEPT !.a[7] = sp], 4, sp, v)
Pulled(m, z) == [m EXCEPT !.a[7] = Masked(4, @ + z)]

\* Mutant: an immediate byte takes no word.
ImmWordsPacked(z) == z \div 2

\* m68ki_read_imm_16: n extension words are read.
Skip(m, n) == [m EXCEPT !.pc = Masked(4, @ + 2 * n)]
ImmWords(z) == IF z = 4 THEN 2 ELSE 1

\* m68ki_get_ea_ix: the index register is one of D0-D7, A0-A7.
Index(m, o) ==
  LET xn == IF o.xn < 8 THEN m.d[o.xn] ELSE m.a[o.xn - 8]
  IN IF o.xl THEN xn ELSE Extended(2, xn)

\* The stack pointer moves by two for a byte.
Step(z, o) == IF z = 1 /\ o.r = 7 THEN 2 ELSE z

\* EA_AY_AI ... EA_PCIX: an address, and the machine after finding it.
Ea(m, z, o) ==
  LET base == m.a[o.r]
      less == Masked(4, base - Step(z, o))
      at(address, words) == [at |-> Masked(4, address), m |-> Skip(m, words)]
  IN CASE o.mode = "ai" -> at(base, 0)
       [] o.mode = "pi" -> [at |-> base,
                            m |-> [m EXCEPT !.a[o.r] = Masked(4, base + Step(z, o))]]
       [] o.mode = "pd" -> [at |-> less, m |-> [m EXCEPT !.a[o.r] = less]]
       [] o.mode = "di" -> at(base + MakeInt(2, o.e), 1)
       [] o.mode = "ix" -> at(base + Index(m, o) + MakeInt(1, o.e), 1)
       [] o.mode = "aw" -> at(MakeInt(2, o.e), 1)
       [] o.mode = "al" -> at(o.e, 2)
       [] o.mode = "pcdi" -> at(m.pc + MakeInt(2, o.e), 1)
       [] o.mode = "pcix" -> at(m.pc + Index(m, o) + MakeInt(1, o.e), 1)

\* OPER_AY ... OPER_I: a value, and the machine after reading it.
Operand(m, z, o) ==
  LET e == Ea(m, z, o)
  IN CASE o.mode = "d" -> [v |-> Masked(z, m.d[o.r]), m |-> m]
       [] o.mode = "a" -> [v |-> Masked(z, m.a[o.r]), m |-> m]
       [] o.mode = "i" -> [v |-> Masked(z, o.e), m |-> Skip(m, ImmWords(z))]
       [] OTHER        -> [v |-> Read(e.m, z, e.at), m |-> e.m]

\* Mutant: a result fills the register.
PutDWhole(m, z, r, v) == [m EXCEPT !.d[r] = v]

\* *r_dst = MASK_OUT_BELOW(*r_dst) | res: the rest of the register stays.
PutD(m, z, r, v) == [m EXCEPT !.d[r] = @ - Masked(z, @) + v]

\* A destination is read, worked on by G and written at the same address.
Modify(m, z, o, G(_)) ==
  LET e == Ea(m, z, o)
  IN IF o.mode = "d"
       THEN LET q == G(Masked(z, m.d[o.r])) IN PutD([m EXCEPT !.f = q.f], z, o.r, q.v)
       ELSE LET q == G(Read(e.m, z, e.at))
            IN Write([e.m EXCEPT !.f = q.f], z, e.at, q.v)
=============================================================================
