------------------------- MODULE TestProgramProofs --------------------------
(***************************************************************************)
(* What is proved of the test program, on every machine: a case of the     *)
(* invariant for every line, as in M68kRoutinesProofs, and within the loop *)
(* for every character that is on the screen.                              *)
(***************************************************************************)
EXTENDS M68kRoutinesProofs

-----------------------------------------------------------------------------
(* What the other lines of the test program leave.                         *)

\* movea.l a7 to an address register.
LEMMA MoveaBecomes ==
  ASSUME cpu \in Machine, NEW i, IsInstruction(i), movea_32(i), i.ea.mode = "a"
  PROVE  Becomes(cpu', cpu.d, [cpu.a EXCEPT ![i.x] = cpu.a[i.ea.r]], cpu.mem, Ahead(2))
<1>1. PICK n, r, v : n = Fetched /\ r = i.ea.r /\ v = cpu.a[r]
  OBVIOUS
<1>2. n \in Machine /\ Becomes(n, cpu.d, cpu.a, cpu.mem, Ahead(2))
  BY <1>1, WordsBecome
<1>3. r \in Registers
  <2>1. IsOperand(i.ea) /\ i.ea.mode = "a"
    BY DEF IsInstruction, movea_32, Does
  <2> QED BY <1>1, <2>1 DEF IsOperand
<1>4. v \in Range0(4)
  BY <1>1, <1>3, MachineIs
<1>5. Masked(4, v) = v /\ Extended(4, v) = v
  BY <1>4, LongIs, LongStays
<1>6. Operand(n, 4, i.ea) = [v |-> v, m |-> n]
  <2>1. n.a[r] = v
    BY <1>1, <1>2 DEF Becomes
  <2> QED BY <1>1, <1>5, <2>1 DEF Operand
<1>7. cpu' = PutA(n, i.x, v)
  <2>1. PICK s : s = Operand(n, 4, i.ea)
    OBVIOUS
  <2>2. Widened(i, 4) = [s EXCEPT !.v = Extended(4, s.v)]
    BY <1>1, <2>1 DEF Widened
  <2>3. Widened(i, 4).v = v /\ Widened(i, 4).m = n
    BY <1>5, <1>6, <2>1, <2>2
  <2>4. cpu' = ToAddress(i, 4)
    BY DEF movea_32
  <2> QED BY <2>3, <2>4 DEF ToAddress
<1>8. Becomes(cpu', cpu.d, [cpu.a EXCEPT ![i.x] = Masked(4, v)], cpu.mem, Ahead(2))
  BY <1>2, <1>7, PutABecomes
<1> QED BY <1>1, <1>5, <1>8

\* addq.l to the stack pointer.
LEMMA AddqBecomes ==
  ASSUME cpu \in Machine, NEW i, addq_16_a(i) \/ addq_32_a(i), i.ea.r = 7
  PROVE  Becomes(cpu', cpu.d, StackedA(cpu.a, i.q), cpu.mem, Ahead(2))
<1>1. PICK n : n = Fetched
  OBVIOUS
<1>2. n \in Machine /\ Becomes(n, cpu.d, cpu.a, cpu.mem, Ahead(2))
  BY <1>1, WordsBecome
<1>3. cpu' = PutA(n, 7, cpu.a[7] + i.q)
  BY <1>1 DEF addq_16_a, addq_32_a, QuickA, Increase
<1> QED BY <1>2, <1>3, PutABecomes DEF StackedA

\* jmp to an address.
LEMMA JmpBecomes ==
  ASSUME cpu \in Machine, NEW i, IsInstruction(i), jmp_32(i), i.ea.mode = "al"
  PROVE  Becomes(cpu', cpu.d, cpu.a, cpu.mem, i.ea.e)
<1>1. PICK n, m : n = Fetched /\ m = Skip(n, 2)
  OBVIOUS
<1>2. /\ n \in Machine /\ m \in Machine /\ Becomes(m, cpu.d, cpu.a, cpu.mem, Ahead(6))
  BY <1>1, WordsBecome
<1>3. i.ea.e \in Range0(4)
  <2>1. IsOperand(i.ea)
    BY DEF IsInstruction, jmp_32, Does, Control
  <2> QED BY <2>1 DEF IsOperand
<1>4. Ea(n, 4, i.ea) = [at |-> i.ea.e, m |-> m]
  BY <1>1, <1>2, <1>3, AbsoluteIs
<1>5. cpu' = [m EXCEPT !.pc = i.ea.e]
  <2>1. PICK e : e = Ea(Fetched, 4, i.ea) /\ cpu' = [e.m EXCEPT !.pc = e.at]
    BY DEF jmp_32
  <2>2. e.m = m /\ e.at = i.ea.e
    BY <1>1, <1>4, <2>1
  <2> QED BY <2>1, <2>2
<1> QED BY <1>2, <1>5, GoneBecomes

\* bcc with a word.
LEMMA BccBecomes ==
  ASSUME cpu \in Machine, NEW i, IsInstruction(i), bcc_16(i)
  PROVE  Becomes(cpu', cpu.d, cpu.a, cpu.mem,
                 IF Condition(i.cc, cpu.f) THEN Ahead(2 + Signed(2, i.q)) ELSE Ahead(4))
<1>1. PICK n, m, q : n = Fetched /\ m = Skip(n, 1) /\ q = MakeInt(2, i.q)
  OBVIOUS
<1>2. /\ n \in Machine /\ Becomes(n, cpu.d, cpu.a, cpu.mem, Ahead(2))
      /\ m \in Machine /\ Becomes(m, cpu.d, cpu.a, cpu.mem, Ahead(4))
  BY <1>1, WordsBecome
<1>3. q = Signed(2, i.q) /\ q \in Int
  <2>1. i.q \in Range0(2)
    BY DEF IsInstruction, bcc_16, Does
  <2> QED BY <1>1, <2>1, SignedIs, SizeIs
<1>4. Masked(4, n.pc + q) = Ahead(2 + q)
  <2>1. PICK k \in Int : k = 2
    OBVIOUS
  <2>2. Masked(4, Ahead(k) + q) = Ahead(k + q)
    BY <1>3, AheadOn
  <2> QED BY <1>2, <2>1, <2>2 DEF Becomes
<1>5. cpu' = IF Condition(i.cc, cpu.f) THEN [n EXCEPT !.pc = Masked(4, n.pc + q)] ELSE m
  BY <1>1 DEF bcc_16, Branch, Passed
<1>6. Becomes([n EXCEPT !.pc = Ahead(2 + q)], cpu.d, cpu.a, cpu.mem, Ahead(2 + q))
  BY <1>2, GoneBecomes
<1> QED BY <1>2, <1>3, <1>4, <1>5, <1>6

\* cmp.w with a value: flags, and nothing else.
LEMMA CmpBecomes ==
  ASSUME cpu \in Machine, NEW i, IsInstruction(i), ShowHandlers(i), i.z = 2, i.ea.mode = "i"
  PROVE  Becomes(cpu', cpu.d, cpu.a, cpu.mem, Ahead(4))
<1>1. PICK m : m = Skip(Fetched, 1)
  OBVIOUS
<1>2. m \in Machine /\ Becomes(m, cpu.d, cpu.a, cpu.mem, Ahead(4))
  BY <1>1, WordsBecome
<1>3. Operand(Fetched, 2, i.ea) = [v |-> Masked(2, i.ea.e), m |-> m]
  BY <1>1 DEF Operand, ImmWords
<1>4. PICK s, f : s = Operand(Fetched, i.z, i.ea) /\ cpu' = [s.m EXCEPT !.f = f]
  BY ShowIs
<1>5. cpu' = [m EXCEPT !.f = f]
  BY <1>3, <1>4
<1> QED BY <1>2, <1>5 DEF Machine, Becomes

-----------------------------------------------------------------------------
(* What movep leaves.                                                      *)

\* A byte behind an address that does not go around.
LEMMA Behind ==
  ASSUME NEW a \in Nat \ {0}, NEW w \in 0..(a - 4), NEW k \in 0..3
  PROVE  w + k \in 0..(a - 1) /\ ((w + k) - w) % a = k /\ (w + k) % a = w + k
<1>1. PICK x \in Int : x = w + k /\ x \in 0..(a - 1) /\ x - w = k /\ k \in Int
  OBVIOUS
<1>2. PICK n \in Int : n = 0 /\ n * a = 0
  OBVIOUS
<1>3. 0 <= k /\ k < a /\ 0 <= x /\ x < a
  BY <1>1
<1>4. n * a <= k /\ k < n * a + a /\ n * a <= x /\ x < n * a + a
  BY <1>1, <1>2, <1>3
<1>5. k % a = k - n * a
  BY <1>1, <1>4, DivIs
<1>6. x % a = x - n * a
  BY <1>1, <1>4, DivIs
<1> QED BY <1>1, <1>2, <1>5, <1>6

\* movep.w to the memory: the bytes of the low word, one apart.
MovepSaved(at, v) ==
  /\ Becomes(cpu', cpu.d, cpu.a, cpu'.mem, Ahead(4)) /\ Wrote(cpu.mem, cpu'.mem, 4, at)
  /\ cpu'.mem[at] = ByteOf(2, v, 0) /\ cpu'.mem[at + 2] = ByteOf(2, v, 1)
MovepAt(i, at) ==
  /\ i.ea.mode = "di" /\ i.ea.r \in Registers /\ i.ea.e \in Range0(2) /\ i.x \in Registers
  /\ Near(i.ea) = at /\ at \in 0..(AddressSpace - 4)

\* Where it goes.
LEMMA MovepEa ==
  ASSUME cpu \in Machine, NEW i, NEW at, MovepAt(i, at)
  PROVE  /\ Ea(Fetched, 2, i.ea) = [at |-> at, m |-> Skip(Fetched, 1)]
         /\ Skip(Fetched, 1) \in Machine
         /\ Becomes(Skip(Fetched, 1), cpu.d, cpu.a, cpu.mem, Ahead(4))
<1>1. PICK n, m : n = Fetched /\ m = Skip(n, 1)
  OBVIOUS
<1>2. /\ n \in Machine /\ Becomes(n, cpu.d, cpu.a, cpu.mem, Ahead(2))
      /\ m \in Machine /\ Becomes(m, cpu.d, cpu.a, cpu.mem, Ahead(4))
  BY <1>1, WordsBecome
<1>3. Ea(n, 2, i.ea) = [at |-> Masked(4, Near(i.ea)), m |-> m]
  BY <1>1, <1>2, NearIs DEF Becomes, MovepAt
<1>4. at \in Range0(4)
  <2>1. PICK a \in Nat, w \in Nat : a = AddressSpace /\ w = Mod(4) /\ a \in 64..w
    BY LongIs, AddressAssumption, SpaceIs
  <2>2. at \in 0..(w - 1)
    BY <2>1 DEF MovepAt
  <2> QED BY <2>1, <2>2 DEF Range0
<1>5. Masked(4, at) = at
  BY <1>4, LongIs
<1> QED BY <1>1, <1>2, <1>3, <1>5 DEF MovepAt

\* What movep.w to the memory leaves.
LEMMA MovepSaves ==
  ASSUME cpu \in Machine, cpu' \in Machine, NEW i, movep_16_re(i), NEW at, MovepAt(i, at)
  PROVE  MovepSaved(at, cpu.d[i.x])
<1>1. PICK m, v : m = Skip(Fetched, 1) /\ v = cpu.d[i.x]
  OBVIOUS
<1>2. PICK e : e = Ea(Fetched, 2, i.ea) /\ cpu' = SaveBytes(i, 2)
  BY DEF movep_16_re
<1>3. e.at = at /\ e.m = m /\ m \in Machine /\ Becomes(m, cpu.d, cpu.a, cpu.mem, Ahead(4))
  <2>1. /\ Ea(Fetched, 2, i.ea) = [at |-> at, m |-> m]
        /\ m \in Machine /\ Becomes(m, cpu.d, cpu.a, cpu.mem, Ahead(4))
    BY <1>1, MovepEa
  <2>2. e = [at |-> at, m |-> m]
    BY <1>2, <2>1
  <2> QED BY <2>1, <2>2
<1>4. PICK mem : mem = [b \in Space |->
        LET k == (b - at) % AddressSpace
        IN IF k < 2 * 2 /\ k % 2 = 0 THEN ByteOf(2, v, k \div 2) ELSE cpu.mem[b]]
  OBVIOUS
<1>5. cpu' = [m EXCEPT !.mem = mem]
  <2>1. DOMAIN m.mem = Space /\ m.mem = cpu.mem
    BY <1>3, MachineIs DEF Becomes
  <2>2. SaveBytes(i, 2) = [e.m EXCEPT !.mem = [b \in DOMAIN @ |->
           LET k == (b - e.at) % AddressSpace
           IN IF k < 2 * 2 /\ k % 2 = 0 THEN ByteOf(2, cpu.d[i.x], k \div 2) ELSE @[b]]]
    BY <1>2 DEF SaveBytes
  <2> QED BY <1>1, <1>2, <1>3, <1>4, <2>1, <2>2
<1>6. cpu'.mem = mem /\ Becomes(cpu', cpu.d, cpu.a, mem, Ahead(4))
  BY <1>3, <1>5 DEF Becomes, Machine
<1>7. Wrote(cpu.mem, mem, 4, at)
  <2>1. mem \in [Space -> Range0(1)]
    BY <1>6, MachineIs
  <2>2. ASSUME NEW b \in Space PROVE mem[b] = cpu.mem[b] \/ (b - at) % AddressSpace < 4
    <3>1. PICK k : k = (b - at) % AddressSpace
      OBVIOUS
    <3>2. k < 2 * 2 <=> k < 4
      OBVIOUS
    <3>3. mem[b] = IF k < 2 * 2 /\ k % 2 = 0 THEN ByteOf(2, v, k \div 2) ELSE cpu.mem[b]
      BY <1>4, <3>1
    <3> QED BY <3>1, <3>2, <3>3
  <2> QED BY <2>1, <2>2 DEF Wrote
<1>8. PICK a \in Nat \ {0} : a = AddressSpace /\ at \in 0..(a - 4)
  BY SpaceIs DEF MovepAt
<1>9. mem[at] = ByteOf(2, v, 0)
  <2>1. PICK j \in 0..3 : j = 0
    OBVIOUS
  <2>2. at + j = at /\ j < 2 * 2 /\ j % 2 = 0 /\ j \div 2 = 0
    BY <1>8, <2>1
  <2>3. at \in Space /\ (at - at) % AddressSpace = j
    BY <1>8, <2>1, <2>2, Behind DEF Space
  <2> QED BY <1>4, <2>2, <2>3
<1>10. mem[at + 2] = ByteOf(2, v, 1)
  <2>1. PICK j \in 0..3 : j = 2
    OBVIOUS
  <2>2. j < 2 * 2 /\ j % 2 = 0 /\ j \div 2 = 1
    BY <2>1
  <2>3. at + 2 \in Space /\ ((at + 2) - at) % AddressSpace = j
    BY <1>8, <2>1, Behind DEF Space
  <2> QED BY <1>4, <2>2, <2>3
<1> QED BY <1>1, <1>6, <1>7, <1>9, <1>10 DEF MovepSaved

\* movep.w from the memory changes a register.
LEMMA MovepLoads ==
  ASSUME cpu \in Machine, NEW i, movep_16_er(i), NEW at, MovepAt(i, at)
  PROVE  \E v : Becomes(cpu', [cpu.d EXCEPT ![i.x] = v], cpu.a, cpu.mem, Ahead(4))
<1>1. PICK m : m = Skip(Fetched, 1)
  OBVIOUS
<1>2. PICK e : e = Ea(Fetched, 2, i.ea) /\ cpu' = RestoreBytes(i, 2)
  BY DEF movep_16_er
<1>3. e.at = at /\ e.m = m /\ m \in Machine /\ Becomes(m, cpu.d, cpu.a, cpu.mem, Ahead(4))
  <2>1. /\ Ea(Fetched, 2, i.ea) = [at |-> at, m |-> m]
        /\ m \in Machine /\ Becomes(m, cpu.d, cpu.a, cpu.mem, Ahead(4))
    BY <1>1, MovepEa
  <2>2. e = [at |-> at, m |-> m]
    BY <1>2, <2>1
  <2> QED BY <2>1, <2>2
<1>4. PICK w : w = ReadEvery(m, 2, at, 2)
  OBVIOUS
<1>5. cpu' = PutD(m, 2, i.x, w)
  BY <1>2, <1>3, <1>4 DEF RestoreBytes
<1>6. PICK v : v = m.d[i.x] - Masked(2, m.d[i.x]) + w
  OBVIOUS
<1>7. cpu' = [m EXCEPT !.d = [m.d EXCEPT ![i.x] = v]]
  BY <1>5, <1>6 DEF PutD
<1>8. Becomes(cpu', [m.d EXCEPT ![i.x] = v], m.a, m.mem, m.pc)
  BY <1>3, <1>7 DEF Machine, Becomes
<1> QED BY <1>3, <1>8 DEF Becomes

-----------------------------------------------------------------------------
(* What move leaves on the stack and in Xosera.                            *)

\* move.l #value to a data register.
LEMMA MoveValue ==
  ASSUME cpu \in Machine, NEW i, IsInstruction(i), MoveHandlers(i), i.z = 4, i.ea.mode = "i",
         i.to.mode = "d"
  PROVE  /\ i.to.r \in Registers /\ i.ea.e \in Range0(4)
         /\ Becomes(cpu', [cpu.d EXCEPT ![i.to.r] = i.ea.e], cpu.a, cpu.mem, Ahead(6))
<1>1. i.to.r \in Registers /\ i.ea.e \in Range0(4)
  BY DEF IsInstruction, IsOperand
<1>2. PICK s, v : s = Operand(Fetched, 4, i.ea) /\ v = i.ea.e
  OBVIOUS
<1>3. Sourced(s, 4, v, 6)
  BY <1>1, <1>2, FromValue
<1>4. Moved(4, i.to, s.m, v)
  BY <1>2, <1>3, MovesIt
<1>5. s.m \in Machine /\ Becomes(s.m, cpu.d, cpu.a, cpu.mem, Ahead(6)) /\ v \in Range0(4)
  BY <1>3 DEF Sourced
<1>6. Becomes(cpu', [s.m.d EXCEPT ![i.to.r] = v], s.m.a, s.m.mem, s.m.pc)
  BY <1>1, <1>4, <1>5, ToRegister
<1> QED BY <1>1, <1>2, <1>5, <1>6 DEF Becomes

\* move.l #value to the stack.
LEMMA MovePush ==
  ASSUME cpu \in Machine, NEW i, IsInstruction(i), MoveHandlers(i), i.z = 4, i.ea.mode = "i",
         i.to.mode = "pd", i.to.r = 7
  PROVE  /\ Becomes(cpu', cpu.d, StackedA(cpu.a, -4), cpu'.mem, Ahead(6))
         /\ WroteLong(cpu.mem, cpu'.mem, cpu.a[7] - 4, i.ea.e)
<1>1. i.ea.e \in Range0(4)
  BY DEF IsInstruction, IsOperand
<1>2. PICK s, v : s = Operand(Fetched, 4, i.ea) /\ v = i.ea.e
  OBVIOUS
<1>3. Sourced(s, 4, v, 6)
  BY <1>1, <1>2, FromValue
<1>4. Moved(4, i.to, s.m, v)
  BY <1>2, <1>3, MovesIt
<1>5. s.m \in Machine /\ Becomes(s.m, cpu.d, cpu.a, cpu.mem, Ahead(6)) /\ v \in Range0(4)
  BY <1>3 DEF Sourced
<1>6. /\ Becomes(cpu', s.m.d, StackedA(s.m.a, -4), cpu'.mem, s.m.pc)
      /\ WroteLong(s.m.mem, cpu'.mem, s.m.a[7] - 4, v)
  BY <1>4, <1>5, ToStack
<1> QED BY <1>2, <1>5, <1>6 DEF Becomes

\* move.l from near an address register to a data register.
LEMMA MoveLoad ==
  ASSUME cpu \in Machine, NEW i, IsInstruction(i), MoveHandlers(i), i.z = 4, i.ea.mode = "di",
         i.ea.e \in Range0(2), i.to.mode = "d"
  PROVE  /\ i.to.r \in Registers
         /\ Becomes(cpu', [cpu.d EXCEPT ![i.to.r] = LongIn(cpu.mem, Near(i.ea))], cpu.a, cpu.mem,
                    Ahead(4))
<1>1. i.to.r \in Registers /\ i.ea.r \in Registers
  BY DEF IsInstruction, IsOperand
<1>2. PICK s, v : s = Operand(Fetched, 4, i.ea) /\ v = LongIn(cpu.mem, Near(i.ea))
  OBVIOUS
<1>3. Sourced(s, 4, v, 4)
  BY <1>1, <1>2, FromMemory
<1>4. Moved(4, i.to, s.m, v)
  BY <1>2, <1>3, MovesIt
<1>5. s.m \in Machine /\ Becomes(s.m, cpu.d, cpu.a, cpu.mem, Ahead(4)) /\ v \in Range0(4)
  BY <1>3 DEF Sourced
<1>6. Becomes(cpu', [s.m.d EXCEPT ![i.to.r] = v], s.m.a, s.m.mem, s.m.pc)
  BY <1>1, <1>4, <1>5, ToRegister
<1> QED BY <1>1, <1>2, <1>5, <1>6 DEF Becomes

\* move.b from a data register to near an address register.
LEMMA MoveByte ==
  ASSUME cpu \in Machine, NEW i, IsInstruction(i), MoveHandlers(i), i.z = 1, i.ea.mode = "d",
         i.to.mode = "di", i.to.e \in Range0(2)
  PROVE  /\ Becomes(cpu', cpu.d, cpu.a, cpu'.mem, Ahead(4))
         /\ Wrote(cpu.mem, cpu'.mem, 1, Near(i.to))
         /\ cpu'.mem[Near(i.to) % AddressSpace] = Masked(1, cpu.d[i.ea.r])
<1>1. i.ea.r \in Registers /\ i.to.r \in Registers
  BY DEF IsInstruction, IsOperand
<1>2. PICK s, v : s = Operand(Fetched, 1, i.ea) /\ v = Masked(1, cpu.d[i.ea.r])
  OBVIOUS
<1>3. Sourced(s, 1, v, 2)
  BY <1>1, <1>2, SizeIs, FromRegister
<1>4. Moved(1, i.to, s.m, v)
  BY <1>2, <1>3, MovesIt
<1>5. s.m \in Machine /\ Becomes(s.m, cpu.d, cpu.a, cpu.mem, Ahead(2)) /\ v \in Range0(1)
  BY <1>3 DEF Sourced
<1>6. PICK n \in Machine : n = s.m /\ n.a = cpu.a /\ n.d = cpu.d /\ n.mem = cpu.mem
      /\ n.pc = Ahead(2)
  BY <1>5 DEF Becomes
<1>7. /\ Becomes(cpu', n.d, n.a, cpu'.mem, Masked(4, n.pc + 2))
      /\ Wrote(n.mem, cpu'.mem, 1, Near(i.to))
      /\ cpu'.mem[Near(i.to) % AddressSpace] = v
  BY <1>1, <1>4, <1>5, <1>6, SizeIs, ToMemory
<1>8. Masked(4, n.pc + 2) = Ahead(4)
  <2>1. Masked(4, Ahead(2) + 2) = Ahead(2 + 2)
    BY AheadOn
  <2> QED BY <1>6, <2>1
<1> QED BY <1>2, <1>6, <1>7, <1>8

\* A write that Xosera ignores.
LEMMA UnreadyBecomes ==
  ASSUME cpu \in Machine, Unready
  PROVE  Becomes(cpu', cpu.d, cpu.a, cpu.mem, Ahead(4)) /\ screen' = screen
<1>1. cpu' = Skip(cpu, 2) /\ screen' = screen
  BY DEF Unready
<1>2. 2 * 2 = 4
  OBVIOUS
<1>3. cpu' = [cpu EXCEPT !.pc = Masked(4, cpu.pc + 4)]
  BY <1>1, <1>2 DEF Skip
<1> QED BY <1>1, <1>3 DEF Becomes, Machine, Ahead

-----------------------------------------------------------------------------
(* The lines of the test program.                                          *)

\* What a line of the source becomes, field by field.
LEMMA MoveForm == ASSUME NEW z, NEW from, NEW to, NEW i, i = Move_(z, from, to)
  PROVE i.name = "move" /\ i.z = z /\ i.form = to.mode /\ i.ea = from /\ i.to = to
BY DEF Move_, Plain

\* movep.
LEMMA MovepForm == ASSUME NEW form, NEW x, NEW at, NEW i, i = Movep(form, x, at)
  PROVE i.name = "movep" /\ i.z = 2 /\ i.form = form /\ i.x = x /\ i.ea = at
BY DEF Movep, Plain

\* bne.
LEMMA BneForm == ASSUME NEW here, NEW there, NEW i, i = Bne(here, there)
  PROVE i.name = "bcc" /\ i.z = 2 /\ i.cc = "ne" /\ i.q = Masked(2, there - here - 2)
BY DEF Bne, Plain

\* movem.
LEMMA MovemForm == ASSUME NEW form, NEW o, NEW regs, NEW i, i = Movem(form, o, regs)
  PROVE i.name = "movem" /\ i.z = 4 /\ i.form = form /\ i.ea = o /\ i.regs = regs
BY DEF Movem, Plain

\* lea.
LEMMA LeaForm == ASSUME NEW at, NEW x, NEW i, i = Lea(at, x)
  PROVE i.name = "lea" /\ i.ea = at /\ i.x = x
BY DEF Lea, Plain

\* The operands.
LEMMA OperandForm == ASSUME NEW v
  PROVE /\ Value(v).mode = "i" /\ Value(v).e = v
        /\ At(v).mode = "al" /\ At(v).e = v
        /\ D(v).mode = "d" /\ D(v).r = v
        /\ A(v).mode = "a" /\ A(v).r = v
        /\ Pd(v).mode = "pd" /\ Pd(v).r = v
        /\ Pi(v).mode = "pi" /\ Pi(v).r = v
BY DEF Value, At, D, A, Pd, Pi, None

\* A displacement and a register.
LEMMA DiForm == ASSUME NEW v, NEW r PROVE Di(v, r).mode = "di" /\ Di(v, r).e = v
/\ Di(v, r).r = r
BY DEF Di

\* The lines of the program, one by one.
LEMMA WaitingIs == ASSUME NEW p
  PROVE  /\ Waiting(0, p) = Move_(4, Value(p), D(0))
         /\ Waiting(6, p) = Movep("re", 0, Di(0, 0))
         /\ Waiting(10, p) = Movep("er", 0, Di(0, 0))
         /\ Waiting(14, p) = [Plain EXCEPT !.name = "cmp", !.z = 2, !.ea = Value(p), !.x = 0]
         /\ Waiting(18, p) = Bne(18, 0)
BY DEF Waiting, XM_XR_ADDR

\* The lines of init.
LEMMA MainIs ==
  /\ Main(0) = Lea(At(XOSERA_ADDRESS), 0)
  /\ \A k \in {6, 12, 16, 20, 24} : Main(k) = Waiting(k - 6, Patterns[1])
  /\ \A k \in {28, 34, 38, 42, 46} : Main(k) = Waiting(k - 28, Patterns[2])
  /\ Main(50) = Move_(4, Value(Character), Pd(7))
  /\ Main(56) = Move_(4, Value(Color), Pd(7))
  /\ Main(62) = [Plain EXCEPT !.name = "jsr", !.ea = At(Org + 76)]
  /\ Main(68) = OneMore("addq", 8, A(7))
  /\ Main(70) = [Plain EXCEPT !.name = "jmp", !.ea = At(Org + 70)]
BY DEF Main, Xcls, Done

\* The lines of xcls.
LEMMA ClearScreenIs ==
  /\ ClearScreen(0) = [Plain EXCEPT !.name = "movea", !.ea = A(7), !.x = 0]
  /\ ClearScreen(2) = Movem("re", Pd(7), {2, 3, 4})
  /\ ClearScreen(6) = Lea(At(XOSERA_ADDRESS), 1)
  /\ ClearScreen(12) = Move_(4, Value(0), D(0))
  /\ ClearScreen(18) = Movep("re", 0, Di(16, 1))
  /\ ClearScreen(22) = Move_(4, Value(Characters), D(3))
  /\ ClearScreen(28) = Move_(4, Value(0), D(4))
  /\ ClearScreen(34) = Movep("re", 4, Di(20, 1))
  /\ ClearScreen(38) = Move_(4, Di(4, 0), D(0))
  /\ ClearScreen(42) = Move_(1, D(0), Di(24, 1))
  /\ ClearScreen(46) = Move_(4, Di(8, 0), D(0))
  /\ ClearScreen(50) = Move_(1, D(0), Di(26, 1))
  /\ ClearScreen(54) = OneMore("addq", 1, D(4))
  /\ ClearScreen(56) = OneMore("subq", 1, D(3))
  /\ ClearScreen(58) = Bne(58, 34)
  /\ ClearScreen(62) = Movem("er", Pi(7), {2, 3, 4})
  /\ ClearScreen(66) = [Plain EXCEPT !.name = "rts"]
BY DEF ClearScreen, XM_WR_INCR, XM_WR_ADDR, XM_DATA

TestOffsets ==
  {0, 6, 12, 16, 20, 24, 28, 34, 38, 42, 46, 50, 56, 62, 68, 70, 76, 78, 82, 88, 94, 98, 104,
      110,
   114, 118, 122, 126, 130, 132, 134, 138, 142}
TestLine(k) == IF k < 76 THEN Main(k) ELSE ClearScreen(k - 76)

\* The code of the test program is those lines.
LEMMA TestingLines ==
  ASSUME code = TestCode
  PROVE  /\ DOMAIN code = {Org + k : k \in TestOffsets}
         /\ \A k \in TestOffsets : cpu.pc = Org + k => Instr = TestLine(k)
<1>1. Org \in Int
  BY ProgramAssumption, LongsAreInt
<1>2. Lines = TestOffsets
  <2>1. {76 + k : k \in {0, 2, 6, 12, 18, 22, 28, 34, 38, 42, 46, 50, 54, 56, 58, 62, 66}}
          = {76, 78, 82, 88, 94, 98, 104, 110, 114, 118, 122, 126, 130, 132, 134, 138, 142}
    OBVIOUS
  <2> QED BY <2>1 DEF Lines, TestOffsets, Xcls
<1>3. PICK O : O = {Org + k : k \in TestOffsets}
  OBVIOUS
<1>4. code = [at \in O |-> TestLine(at - Org)]
  BY <1>2, <1>3 DEF TestCode, TestLine, Xcls
<1>5. ASSUME NEW k \in TestOffsets, cpu.pc = Org + k PROVE Instr = TestLine(k)
  <2>1. k \in Int
    BY DEF TestOffsets
  <2>2. PICK at, c : at = Org + k /\ c = at - Org
    OBVIOUS
  <2>3. c = k
    BY <1>1, <2>1, <2>2
  <2>4. at \in O
    BY <1>3, <2>2
  <2>5. code[at] = TestLine(c)
    BY <1>4, <2>2, <2>4
  <2>6. code[at] = TestLine(k)
    BY <2>3, <2>5, Zenon
  <2> QED BY <1>5, <2>2, <2>6 DEF Instr
<1> QED BY <1>3, <1>4, <1>5

\* From line to line.
LEMMA TestingNext ==
  ASSUME code \in Programs, code = TestCode, NEW k \in TestOffsets, cpu.pc = Org + k,
         NEW j \in Int, NEW l \in TestOffsets, l = k + j
  PROVE  Ahead(j) = Org + l
<1>1. Org \in Int /\ k \in Nat /\ l \in Nat
  BY ProgramAssumption, LongsAreInt DEF TestOffsets
<1>2. Org + l \in DOMAIN code
  BY TestingLines
<1>3. Masked(4, Org + l) = Org + l
  BY <1>1, <1>2, LineAddress
<1>4. PICK o \in Int : o = Org /\ o + k + j = o + l
  BY <1>1
<1> QED BY <1>3, <1>4 DEF Ahead

-----------------------------------------------------------------------------
(* The stack of the test program.                                          *)

\* The stack of the test program is in the RAM below Xosera.
HasRoom == start.a[7] \in 24..XOSERA_ADDRESS
OnScreen(n) == screen = [at \in 0..(n - 1) |-> <<Color, Character>>]

\* What is on the stack when it is k bytes further down than at the start: the
\* parameters, the return address, and the registers, which have their values
\* until they are there.
Depths == {0, 4, 8, 12, 24}
Stacked(k) ==
  /\ cpu.a[7] = StackAt(k)
  /\ k >= 4 => OnStack(4) = Character
  /\ k >= 8 => OnStack(8) = Color
  /\ k >= 12 => OnStack(12) = Org + 68
  /\ k >= 24 => OnStack(24) = start.d[2] /\ OnStack(20) = start.d[3] /\ OnStack(16) = start.d[4]
  /\ k < 24 => cpu.d[2] = start.d[2] /\ cpu.d[3] = start.d[3] /\ cpu.d[4] = start.d[4]
  /\ \A b \in start.a[7]..(XOSERA_ADDRESS - 1) : cpu.mem[b] = start.mem[b]

\* The numbers of it all.
LEMMA RoomIs ==
  ASSUME start \in Machine, HasRoom
  PROVE  \E s \in Int, x \in Nat, a \in Nat \ {0} :
           /\ s = start.a[7] /\ x = XOSERA_ADDRESS /\ a = AddressSpace
           /\ 24 <= s /\ s <= x /\ x + 32 <= a
<1>1. PICK a \in Nat \ {0} : a = AddressSpace
  BY SpaceIs
<1>2. XOSERA_ADDRESS \in 0..(a - 32)
  BY <1>1, TestAssumption
<1>3. start.a[7] \in Int
  BY MachineIs, LongsAreInt DEF Registers
<1>4. PICK x \in Nat : x = XOSERA_ADDRESS /\ x \in 0..(a - 32)
  BY <1>2
<1> QED BY <1>1, <1>3, <1>4 DEF HasRoom

\* Xosera's registers are above the RAM: what goes there leaves it alone.
Beneath == \A b \in 0..(XOSERA_ADDRESS - 1) : cpu'.mem[b] = cpu.mem[b]

\* A write to Xosera leaves the RAM alone.
LEMMA BeneathXosera ==
  ASSUME start \in Machine, HasRoom, NEW z \in 1..4, NEW r \in 0..(32 - z),
         Wrote(cpu.mem, cpu'.mem, z, XOSERA_ADDRESS + r)
  PROVE  Beneath
<1>1. SUFFICES ASSUME NEW b \in 0..(XOSERA_ADDRESS - 1) PROVE cpu'.mem[b] = cpu.mem[b]
  BY DEF Beneath
<1>2. PICK x \in Nat, a \in Nat \ {0} : x = XOSERA_ADDRESS /\ a = AddressSpace /\ x + 32 <= a
  BY RoomIs
<1>3. PICK d \in Int : d = b - (x + r) /\ z <= d + a /\ d < 0 /\ b \in 0..(a - 1)
  BY <1>1, <1>2
<1>4. PICK n \in Int : n = -1 /\ n * a = -a
  OBVIOUS
<1>5. n * a <= d /\ d < n * a + a
  BY <1>3, <1>4
<1>6. d % a = d - n * a
  BY <1>5, DivIs
<1>7. ~(d % a < z)
  BY <1>3, <1>4, <1>6
<1> QED BY <1>2, <1>3, <1>7 DEF Wrote, Space

\* And so the longs on the stack.
LEMMA BeneathLong ==
  ASSUME start \in Machine, HasRoom, Beneath, NEW j \in 4..24
  PROVE  LongIn(cpu'.mem, start.a[7] - j) = LongIn(cpu.mem, start.a[7] - j)
<1>1. PICK s \in Int, x \in Nat, a \in Nat \ {0} :
        /\ s = start.a[7] /\ x = XOSERA_ADDRESS /\ a = AddressSpace
        /\ 24 <= s /\ s <= x /\ x + 32 <= a
  BY RoomIs
<1>2. PICK c \in Int : c = s - j /\ c \in 0..(a - 4) /\ c \in 0..(x - 4)
  BY <1>1
<1>3. \A k \in 0..3 : ByteAt(cpu', c + k) = ByteAt(cpu, c + k)
  <2>1. SUFFICES ASSUME NEW k \in 0..3 PROVE ByteAt(cpu', c + k) = ByteAt(cpu, c + k)
    OBVIOUS
  <2>2. (c + k) % a = c + k
    BY <1>2, Behind
  <2>3. c + k \in 0..(x - 1)
    BY <1>2
  <2>4. cpu'.mem[c + k] = cpu.mem[c + k]
    BY <1>1, <2>3 DEF Beneath
  <2> QED BY <1>1, <2>2, <2>4 DEF ByteAt
<1>4. LongIn(cpu'.mem, c) = LongIn(cpu.mem, c)
  BY <1>3, LongFromBytes
<1> QED BY <1>1, <1>2, <1>4

\* A line that leaves the stack where it is.
Spared(k) ==
  /\ k \in Depths /\ start \in Machine /\ start' = start /\ HasRoom
  /\ cpu'.a[7] = cpu.a[7] /\ Beneath
  /\ k < 24 => cpu'.d[2] = cpu.d[2] /\ cpu'.d[3] = cpu.d[3] /\ cpu'.d[4] = cpu.d[4]

\* What is on the stack stays there.
LEMMA StillStacked == ASSUME NEW k, Spared(k), Stacked(k) PROVE Stacked(k)'
<1>1. start \in Machine /\ HasRoom /\ Beneath /\ start' = start
  BY DEF Spared
<1>2. \A j \in {4, 8, 12, 16, 20, 24} : OnStack(j)' = OnStack(j)
  <2>1. SUFFICES ASSUME NEW j \in {4, 8, 12, 16, 20, 24} PROVE OnStack(j)' = OnStack(j)
    OBVIOUS
  <2>2. j \in 4..24
    OBVIOUS
  <2>3. LongIn(cpu'.mem, start.a[7] - j) = LongIn(cpu.mem, start.a[7] - j)
    BY <1>1, <2>2, BeneathLong
  <2> QED BY <1>1, <2>3 DEF OnStack
<1>3. \A b \in start.a[7]..(XOSERA_ADDRESS - 1) : cpu'.mem[b] = start.mem[b]
  <2>1. SUFFICES ASSUME NEW b \in start.a[7]..(XOSERA_ADDRESS - 1) PROVE cpu'.mem[b] = start.mem[b]
    OBVIOUS
  <2>2. PICK s \in Int, x \in Nat : s = start.a[7] /\ x = XOSERA_ADDRESS /\ 24 <= s
    BY <1>1, RoomIs
  <2>3. b \in 0..(x - 1)
    BY <2>2
  <2> QED BY <1>1, <2>2, <2>3 DEF Beneath, Stacked
<1>4. StackAt(k)' = StackAt(k)
  BY <1>1 DEF StackAt
<1> QED BY <1>1, <1>2, <1>3, <1>4 DEF Stacked, Spared

\* Writes on the stack leave the RAM above it alone.
LEMMA AboveStack ==
  ASSUME start \in Machine, HasRoom, NEW l \in 1..24, NEW z \in 1..l,
         Wrote(cpu.mem, cpu'.mem, z, start.a[7] - l),
         \A b \in start.a[7]..(XOSERA_ADDRESS - 1) : cpu.mem[b] = start.mem[b]
  PROVE  \A b \in start.a[7]..(XOSERA_ADDRESS - 1) : cpu'.mem[b] = start.mem[b]
<1>1. PICK s \in Int, x \in Nat, a \in Nat \ {0} :
        /\ s = start.a[7] /\ x = XOSERA_ADDRESS /\ a = AddressSpace
        /\ 24 <= s /\ s <= x /\ x + 32 <= a
  BY RoomIs
<1>2. SUFFICES ASSUME NEW b \in s..(x - 1) PROVE cpu'.mem[b] = cpu.mem[b]
  BY <1>1
<1>3. PICK d \in Int : d = b - (s - l) /\ z <= d /\ d < a /\ b \in 0..(a - 1)
  BY <1>1, <1>2
<1>4. PICK n \in Int : n = 0 /\ n * a = 0
  OBVIOUS
<1>5. n * a <= d /\ d < n * a + a
  BY <1>3, <1>4
<1>6. d % a = d - n * a
  BY <1>5, DivIs
<1>7. ~(d % a < z)
  BY <1>3, <1>4, <1>6
<1> QED BY <1>1, <1>3, <1>7 DEF Wrote, Space

-----------------------------------------------------------------------------
\* One parameter more, or the return address.
Pushes(k, v, c) ==
  /\ start \in Machine /\ start' = start /\ HasRoom /\ cpu \in Machine /\ cpu' \in Machine
  /\ k \in {0, 4, 8} /\ v = (IF k = 0 THEN Character ELSE IF k = 4 THEN Color ELSE Org + 68)
  /\ Becomes(cpu', cpu.d, StackedA(cpu.a, -4), cpu'.mem, c)
  /\ WroteLong(cpu.mem, cpu'.mem, cpu.a[7] - 4, v)

\* After it the stack is one long deeper.
LEMMA PushStacks ==
  ASSUME NEW k, NEW v, NEW c, Pushes(k, v, c), Stacked(k), NEW l, l = k + 4
  PROVE  Stacked(l)' /\ cpu'.pc = c /\ \A r \in Registers \ {7} : cpu'.a[r] = cpu.a[r]
<1>1. /\ start \in Machine /\ start' = start /\ HasRoom /\ cpu \in Machine /\ cpu' \in Machine
      /\ k \in {0, 4, 8} /\ l \in {4, 8, 12} /\ k \in Int
  BY DEF Pushes
<1>2. Pushed(k, l, v)
  BY DEF Pushes, Stacked, Pushed
<1>3. /\ OnStack(l)' = v /\ Masked(4, cpu.a[7] - 4) = StackAt(l)
      /\ Wrote(cpu.mem, cpu'.mem, 4, start.a[7] - l)
  BY <1>2, StackPushed
<1>4. \A j \in {4, 8} : j < l => OnStack(j)' = OnStack(j)
  <2>1. SUFFICES ASSUME NEW j \in {4, 8}, j < l PROVE OnStack(j)' = OnStack(j)
    OBVIOUS
  <2>2. Clear(l, 4, j)
    BY <1>1, <2>1 DEF Clear
  <2> QED BY <1>1, <1>3, <2>2, StackKept
<1>5. \A b \in start.a[7]..(XOSERA_ADDRESS - 1) : cpu'.mem[b] = start.mem[b]
  <2>1. l \in 1..24 /\ 4 \in 1..l
    BY <1>1
  <2>2. \A b \in start.a[7]..(XOSERA_ADDRESS - 1) : cpu.mem[b] = start.mem[b]
    BY DEF Stacked
  <2> QED BY <1>1, <1>3, <2>1, <2>2, AboveStack
<1>6. cpu'.a[7] = StackAt(l) /\ \A r \in Registers \ {7} : cpu'.a[r] = cpu.a[r]
  <2>1. PICK u \in Int : u = cpu.a[7] /\ u + -4 = u - 4
    BY <1>1, SpIs
  <2>2. cpu'.a = [cpu.a EXCEPT ![7] = StackAt(l)]
    BY <1>3, <2>1 DEF Pushes, Becomes, StackedA
  <2> QED BY <1>1, <2>2, SpIs
<1>7. cpu'.d = cpu.d /\ cpu'.pc = c
  BY DEF Pushes, Becomes
<1>8. StackAt(l)' = StackAt(l) /\ start'.a = start.a /\ start'.d = start.d
      /\ start'.mem = start.mem
  BY <1>1 DEF StackAt
<1>9. v = (IF k = 0 THEN Character ELSE IF k = 4 THEN Color ELSE Org + 68)
  BY DEF Pushes
<1>10. Stacked(l)'
  <2>1. CASE k = 0
    <3>1. l = 4
      BY <2>1
    <3> QED BY <1>3, <1>5, <1>6, <1>7, <1>8, <1>9, <2>1, <3>1 DEF Stacked
  <2>2. CASE k = 4
    <3>1. l = 8
      BY <2>2
    <3> QED BY <1>3, <1>4, <1>5, <1>6, <1>7, <1>8, <1>9, <2>2, <3>1 DEF Stacked
  <2>3. CASE k = 8
    <3>1. l = 12
      BY <2>3
    <3> QED BY <1>3, <1>4, <1>5, <1>6, <1>7, <1>8, <1>9, <2>3, <3>1 DEF Stacked
  <2> QED BY <1>1, <2>1, <2>2, <2>3
<1> QED BY <1>6, <1>7, <1>10

\* The stack pointer goes back over n bytes.
Pops(k, n, l, c) ==
  /\ start \in Machine /\ start' = start /\ cpu \in Machine
  /\ k \in {8, 12} /\ l \in {0, 8} /\ n \in {4, 8} /\ k = l + n
  /\ Becomes(cpu', cpu.d, StackedA(cpu.a, n), cpu.mem, c)

\* After it the stack is n bytes less deep.
LEMMA PopStacks ==
  ASSUME NEW k, NEW n, NEW l, NEW c, Pops(k, n, l, c), Stacked(k)
  PROVE  Stacked(l)' /\ cpu'.pc = c
<1>1. /\ start \in Machine /\ start' = start /\ cpu \in Machine
      /\ k \in {8, 12} /\ l \in {0, 8} /\ n \in {4, 8} /\ k = l + n
  BY DEF Pops
<1>2. PICK t \in Int, x \in Int : t = cpu.a[7] /\ x = t + n /\ t = StackAt(k)
  BY <1>1, SpIs DEF Stacked
<1>3. Moves1(k, l, x)
  BY <1>1, <1>2 DEF Moves1
<1>4. Masked(4, x) = StackAt(l)
  BY <1>1, <1>3, StackMoves
<1>5. cpu'.a = [cpu.a EXCEPT ![7] = StackAt(l)]
  BY <1>2, <1>4 DEF Pops, Becomes, StackedA
<1>6. cpu'.a[7] = StackAt(l)
  BY <1>1, <1>5, SpIs
<1>7. cpu'.d = cpu.d /\ cpu'.pc = c /\ cpu'.mem = cpu.mem
  BY DEF Pops, Becomes
<1>8. StackAt(l)' = StackAt(l) /\ start'.a = start.a /\ start'.d = start.d
      /\ start'.mem = start.mem
      /\ \A j \in {4, 8} : OnStack(j)' = OnStack(j)
  BY <1>1, <1>7 DEF StackAt, OnStack
<1>9. CASE l = 0
  BY <1>1, <1>6, <1>7, <1>8, <1>9 DEF Stacked
<1>10. CASE l = 8
  BY <1>1, <1>6, <1>7, <1>8, <1>10 DEF Stacked
<1> QED BY <1>1, <1>7, <1>9, <1>10

\* movem.l d2/d3/d4,-(a7).
LEMMA SaveStacks ==
  ASSUME start \in Machine, start' = start, HasRoom, cpu \in Machine, cpu' \in Machine,
         Stacked(12), SavesThree(2, 3, 4)
  PROVE  Stacked(24)' /\ cpu'.pc = Ahead(4) /\ \A r \in Registers \ {7} : cpu'.a[r] = cpu.a[r]
<1>1. PICK t \in Int : t = cpu.a[7] /\ t = StackAt(12)
  BY SpIs DEF Stacked
<1>2. /\ Register(cpu, 2) = start.d[2] /\ Register(cpu, 3) = start.d[3]
      /\ Register(cpu, 4) = start.d[4]
  BY DEF Register, Stacked
<1>3. /\ Becomes(cpu', cpu.d, StackedA(cpu.a, -12), cpu'.mem, Ahead(4))
      /\ Wrote(cpu.mem, cpu'.mem, 12, t - 12)
      /\ LongIn(cpu'.mem, t - 12) = start.d[2] /\ LongIn(cpu'.mem, t - 12 + 4) = start.d[3]
      /\ LongIn(cpu'.mem, t - 12 + 8) = start.d[4]
  BY <1>1, <1>2 DEF SavesThree, StoredThree
<1>4. Moves1(12, 24, t - 12) /\ Moves1(12, 20, t - 12 + 4) /\ Moves1(12, 16, t - 12 + 8)
      /\ Moves1(12, 24, t + -12)
  BY <1>1 DEF Moves1
<1>5. Wrote(cpu.mem, cpu'.mem, 12, start.a[7] - 24)
  BY <1>3, <1>4, StackWrites
<1>6. /\ LongIn(cpu'.mem, t - 12) = LongIn(cpu'.mem, start.a[7] - 24)
      /\ LongIn(cpu'.mem, t - 12 + 4) = LongIn(cpu'.mem, start.a[7] - 20)
      /\ LongIn(cpu'.mem, t - 12 + 8) = LongIn(cpu'.mem, start.a[7] - 16)
  <2>1. cpu'.mem \in [Space -> Range0(1)]
    BY MachineIs
  <2> QED BY <1>4, <2>1, StackReads
<1>7. OnStack(24)' = start.d[2] /\ OnStack(20)' = start.d[3] /\ OnStack(16)' = start.d[4]
  BY <1>3, <1>6 DEF OnStack
<1>8. OnStack(4)' = Character /\ OnStack(8)' = Color /\ OnStack(12)' = Org + 68
  <2>1. Clear(24, 12, 4) /\ Clear(24, 12, 8) /\ Clear(24, 12, 12)
    BY DEF Clear
  <2>2. OnStack(4)' = OnStack(4) /\ OnStack(8)' = OnStack(8) /\ OnStack(12)' = OnStack(12)
    BY <1>5, <2>1, StackKept
  <2> QED BY <2>2 DEF Stacked
<1>9. \A b \in start.a[7]..(XOSERA_ADDRESS - 1) : cpu'.mem[b] = start.mem[b]
  <2>1. 24 \in 1..24 /\ 12 \in 1..24
    OBVIOUS
  <2>2. \A b \in start.a[7]..(XOSERA_ADDRESS - 1) : cpu.mem[b] = start.mem[b]
    BY DEF Stacked
  <2> QED BY <1>5, <2>1, <2>2, AboveStack
<1>10. Masked(4, t + -12) = StackAt(24)
  BY <1>4, StackMoves
<1>11. cpu'.a = [cpu.a EXCEPT ![7] = StackAt(24)]
  BY <1>1, <1>3, <1>10 DEF Becomes, StackedA
<1>12. cpu'.a[7] = StackAt(24) /\ \A r \in Registers \ {7} : cpu'.a[r] = cpu.a[r]
  BY <1>11, SpIs
<1>13. StackAt(24)' = StackAt(24) /\ start'.a = start.a /\ start'.d = start.d
      /\ start'.mem = start.mem
  BY DEF StackAt
<1>14. Stacked(24)'
  BY <1>7, <1>8, <1>9, <1>12, <1>13 DEF Stacked
<1> QED BY <1>3, <1>12, <1>14 DEF Becomes

\* movem.l (a7)+,d2/d3/d4.
LEMMA RestoreStacks ==
  ASSUME start \in Machine, start' = start, cpu \in Machine, Stacked(24),
         TakesThree({2, 3, 4}, 2, 3, 4)
  PROVE  Stacked(12)' /\ cpu'.pc = Ahead(4)
<1>1. PICK t \in Int : t = cpu.a[7] /\ t = StackAt(24)
  BY SpIs DEF Stacked
<1>2. Moves1(24, 24, t) /\ Moves1(24, 20, t + 4) /\ Moves1(24, 16, t + 8)
      /\ Moves1(24, 12, t + 12)
  BY <1>1 DEF Moves1
<1>3. /\ LongIn(cpu.mem, t) = start.d[2] /\ LongIn(cpu.mem, t + 4) = start.d[3]
      /\ LongIn(cpu.mem, t + 8) = start.d[4]
  <2>1. cpu.mem \in [Space -> Range0(1)]
    BY MachineIs
  <2>2. /\ LongIn(cpu.mem, t) = OnStack(24) /\ LongIn(cpu.mem, t + 4) = OnStack(20)
        /\ LongIn(cpu.mem, t + 8) = OnStack(16)
    BY <1>2, <2>1, StackReads DEF OnStack
  <2> QED BY <2>2 DEF Stacked
<1>4. Masked(4, t + 12) = StackAt(12)
  BY <1>2, StackMoves
<1>5. /\ cpu'.d[2] = start.d[2] /\ cpu'.d[3] = start.d[3] /\ cpu'.d[4] = start.d[4]
      /\ cpu'.a[7] = StackAt(12) /\ cpu'.mem = cpu.mem /\ cpu'.pc = Ahead(4)
  <2>1. /\ Register(cpu', 2) = cpu'.d[2] /\ Register(cpu', 3) = cpu'.d[3]
        /\ Register(cpu', 4) = cpu'.d[4]
    BY DEF Register
  <2> QED BY <1>1, <1>3, <1>4, <2>1 DEF TakesThree
<1>6. StackAt(12)' = StackAt(12) /\ start'.a = start.a /\ start'.d = start.d
      /\ start'.mem = start.mem
      /\ \A j \in {4, 8, 12} : OnStack(j)' = OnStack(j)
  BY <1>5 DEF StackAt, OnStack
<1> QED BY <1>5, <1>6 DEF Stacked

-----------------------------------------------------------------------------
(* A step of the test program.                                             *)

\* A step of the test program, on line k, and what it is known to be.
TestStep(k) ==
  /\ IInv /\ TypeOK' /\ Next /\ Running /\ code = TestCode /\ start' = start /\ HasRoom
  /\ k \in TestOffsets /\ cpu.pc = Org + k
Here ==
  /\ start \in Machine /\ start' = start /\ HasRoom /\ cpu \in Machine /\ cpu' \in Machine
Runs(i) ==
  /\ IsInstruction(i) /\ Handlers(i) /\ Here
  /\ (i.name = "move" => i.form # "toc") /\ (i.name = "addq" => i.form = "a") => Own(i)
  /\ i.name # "move" \/ i.to.mode # "di" => screen' = screen

\* Such a step is the handler of the line.
LEMMA TestRuns ==
  ASSUME NEW k, TestStep(k), NEW i, i = TestLine(k),
         i.name # "movep" \/ i.form # "re" \/ i.ea.e # 0
  PROVE  Runs(i) /\ i = Instr /\ ~Unready /\ Shows
<1>1. i = Instr
  BY TestingLines DEF TestStep
<1>2. ~Unready
  <2>1. SUFFICES ASSUME Unready PROVE FALSE
    OBVIOUS
  <2>2. i = Movep("re", 0, Di(0, 0))
    BY <1>1, <2>1 DEF Unready, XM_XR_ADDR
  <2>3. i.name = "movep" /\ i.form = "re" /\ i.ea = Di(0, 0)
    BY <2>2, MovepForm
  <2> QED BY <2>3, DiForm
<1>3. /\ IsInstruction(i) /\ Handlers(i) /\ cpu \in Machine /\ cpu' \in Machine
      /\ (i.name = "move" => i.form # "toc") /\ (i.name = "addq" => i.form = "a") => Own(i)
      /\ Quiet
  BY <1>1, <1>2, StepOwn DEF TestStep
<1>4. Shows
  BY <1>3 DEF Quiet
<1>5. i.name # "move" \/ i.to.mode # "di" => screen' = screen
  BY <1>1, <1>4 DEF Shows
<1>6. Here
  BY <1>3 DEF Here, TestStep, IInv, TypeOK
<1> QED BY <1>1, <1>2, <1>3, <1>4, <1>5, <1>6 DEF Runs

\* The counter goes to another line.
LEMMA TestGoes ==
  ASSUME NEW k, TestStep(k), NEW j \in Int, NEW l \in TestOffsets, l = k + j
  PROVE  Ahead(j) = Org + l
BY TestingNext DEF TestStep, IInv

\* Registers that the stack does not depend on take a value.
LEMMA LoadSpares ==
  ASSUME Here, NEW k \in Depths, NEW r \in Registers, k = 24 \/ r \notin {2, 3, 4}, NEW v, NEW c,
         Becomes(cpu', [cpu.d EXCEPT ![r] = v], cpu.a, cpu.mem, c)
  PROVE  /\ Spared(k) /\ cpu'.pc = c /\ cpu'.a = cpu.a /\ cpu'.mem = cpu.mem /\ cpu'.d[r] = v
         /\ \A q \in Registers \ {r} : cpu'.d[q] = cpu.d[q]
<1>1. cpu'.d = [cpu.d EXCEPT ![r] = v] /\ cpu'.a = cpu.a /\ cpu'.mem = cpu.mem /\ cpu'.pc = c
  BY DEF Becomes
<1>2. cpu'.d[r] = v /\ \A q \in Registers \ {r} : cpu'.d[q] = cpu.d[q]
  BY <1>1, SpIs DEF Here
<1>3. Beneath
  BY <1>1 DEF Beneath
<1>4. k < 24 => cpu'.d[2] = cpu.d[2] /\ cpu'.d[3] = cpu.d[3] /\ cpu'.d[4] = cpu.d[4]
  <2>1. k < 24 => r \notin {2, 3, 4}
    BY DEF Depths
  <2> QED BY <1>2, <2>1 DEF Registers
<1> QED BY <1>1, <1>2, <1>3, <1>4 DEF Spared, Here

\* The same of the pointers of the test program.
LEMMA BaseSpares ==
  ASSUME Here, NEW k \in Depths, NEW r \in {0, 1}, NEW v, NEW c,
         Becomes(cpu', cpu.d, [cpu.a EXCEPT ![r] = v], cpu.mem, c)
  PROVE  /\ Spared(k) /\ cpu'.pc = c /\ cpu'.d = cpu.d /\ cpu'.mem = cpu.mem /\ cpu'.a[r] = v
         /\ \A q \in Registers \ {r} : cpu'.a[q] = cpu.a[q]
<1>1. cpu'.a = [cpu.a EXCEPT ![r] = v] /\ cpu'.d = cpu.d /\ cpu'.mem = cpu.mem /\ cpu'.pc = c
  BY DEF Becomes
<1>2. cpu'.a[r] = v /\ \A q \in Registers \ {r} : cpu'.a[q] = cpu.a[q]
  BY <1>1, SpIs DEF Here, Registers
<1>3. Beneath
  BY <1>1 DEF Beneath
<1> QED BY <1>1, <1>2, <1>3 DEF Spared, Here, Registers

\* Registers of Xosera are written, and those of the CPU keep their values.
LEMMA WriteSpares ==
  ASSUME Here, NEW k \in Depths, NEW z \in 1..4, NEW r \in 0..(32 - z),
         Wrote(cpu.mem, cpu'.mem, z, XOSERA_ADDRESS + r), NEW c,
         Becomes(cpu', cpu.d, cpu.a, cpu'.mem, c)
  PROVE  Spared(k) /\ cpu'.pc = c /\ cpu'.d = cpu.d /\ cpu'.a = cpu.a
<1>1. cpu'.d = cpu.d /\ cpu'.a = cpu.a /\ cpu'.pc = c
  BY DEF Becomes
<1>2. Beneath
  BY BeneathXosera DEF Here
<1> QED BY <1>1, <1>2 DEF Spared, Here

\* Nothing but the counter and the flags.
LEMMA RestSpares ==
  ASSUME Here, NEW k \in Depths, NEW c, Becomes(cpu', cpu.d, cpu.a, cpu.mem, c)
  PROVE  Spared(k) /\ cpu'.pc = c /\ cpu'.d = cpu.d /\ cpu'.a = cpu.a /\ cpu'.mem = cpu.mem
BY DEF Becomes, Spared, Here, Beneath

-----------------------------------------------------------------------------
\* What is so on each line.  The loop draws a character a round: n are on the
\* screen before it, and as many are still to come as d3 says.
Given(k) == Stacked(k) /\ OnScreen(0)
Waits == Given(0) /\ cpu.a[0] = XOSERA_ADDRESS
Framed == Stacked(24) /\ cpu.a[0] = StackAt(12)
Based == Framed /\ cpu.a[1] = XOSERA_ADDRESS
Addressed(n) == cpu.mem[XOSERA_ADDRESS + 20] * Mod(1) + cpu.mem[XOSERA_ADDRESS + 22] = n
Draws(m, c, n) == Based /\ cpu.d[4] = m /\ cpu.d[3] = c /\ OnScreen(n)
Finishes(k) == Stacked(k) /\ OnScreen(Characters)
Round(k, n) ==
  /\ k \in {110, 114, 118, 122, 126} => Draws(n, Characters - n, n)
  /\ k \in {114, 118, 122, 126} => Addressed(n)
  /\ k = 118 => cpu.d[0] = Color
  /\ k \in {122, 126} => cpu.mem[XOSERA_ADDRESS + 24] = Color
  /\ k = 126 => cpu.d[0] = Character
  /\ k = 130 => Draws(n, Characters - n, n + 1)
  /\ k = 132 => Draws(n + 1, Characters - n, n + 1)
  /\ k = 134 => Draws(n + 1, Characters - n - 1, n + 1)
     /\ ((cpu.f.z = 1) <=> Characters - n - 1 = 0)
WaitLines == {6, 12, 16, 20, 24, 28, 34, 38, 42, 46, 50}
RoundLines == {110, 114, 118, 122, 126, 130, 132, 134}
Phase(k) ==
  /\ k = 0 => Given(0)
  /\ k \in WaitLines => Waits
  /\ k = 56 => Given(4)
  /\ k = 62 => Given(8)
  /\ k = 76 => Given(12)
  /\ k = 78 => Given(12) /\ cpu.a[0] = StackAt(12)
  /\ k = 82 => Framed /\ OnScreen(0)
  /\ k \in {88, 94, 98} => Based /\ OnScreen(0)
  /\ k = 104 => Based /\ OnScreen(0) /\ cpu.d[3] = Characters
  /\ k \in RoundLines => \E n \in 0..(Characters - 1) : Round(k, n)
  /\ k = 138 => Framed /\ OnScreen(Characters)
  /\ k = 142 => Finishes(12)
  /\ k = 68 => Finishes(8)
  /\ k = 70 => Finishes(0)
ClearInv ==
  code = TestCode /\ HasRoom => \E k \in TestOffsets : cpu.pc = Org + k /\ Phase(k)

-----------------------------------------------------------------------------
(* The wait for Xosera.                                                    *)

\* What goes on: the stack, the pointers and the screen are as before.
LEMMA StillGiven ==
  ASSUME NEW k, Spared(k), Given(k), screen' = screen
  PROVE  Given(k)'
BY StillStacked DEF Given, OnScreen

\* The wait goes on.
LEMMA StillWaits ==
  ASSUME Spared(0), Waits, cpu'.a[0] = cpu.a[0], screen' = screen
  PROVE  Waits'
BY StillGiven DEF Waits

\* The frame and the pointers are as before.
LEMMA StillBased ==
  ASSUME Spared(24), Based, cpu'.a[0] = cpu.a[0], cpu'.a[1] = cpu.a[1]
  PROVE  Based'
<1>1. Stacked(24)'
  BY StillStacked DEF Based, Framed
<1>2. StackAt(12)' = StackAt(12)
  BY DEF Spared, StackAt
<1> QED BY <1>1, <1>2 DEF Based, Framed

\* The screen is as before.
LEMMA StillDrawn ==
  ASSUME NEW n, OnScreen(n), screen' = screen
  PROVE  OnScreen(n)'
BY DEF OnScreen

\* A register of Xosera.
LEMMA XoseraNear ==
  ASSUME Here, NEW o, o.r \in Registers, o.e \in 0..28, cpu.a[o.r] = XOSERA_ADDRESS
  PROVE  /\ o.e \in Range0(2) /\ Near(o) = XOSERA_ADDRESS + o.e
         /\ XOSERA_ADDRESS + o.e \in 0..(AddressSpace - 4)
<1>1. PICK e \in 0..28 : e = o.e
  OBVIOUS
<1>2. PICK h \in Int, w \in Int : h = Half[2] /\ w = Mod(2) /\ h >= 128 /\ w = 2 * h
  BY WordsHold
<1>3. e \in Range0(2) /\ Signed(2, e) = e
  BY <1>2 DEF Range0, Signed
<1>4. PICK x \in Nat, a \in Nat : x = XOSERA_ADDRESS /\ a = AddressSpace /\ x + 32 <= a
  BY RoomIs DEF Here
<1>5. x + e \in 0..(a - 4)
  BY <1>4
<1> QED BY <1>1, <1>3, <1>4, <1>5 DEF Near

\* lea XOSERA_ADDRESS,a0.
LEMMA TestBegins == ASSUME TestStep(0), Given(0) PROVE cpu'.pc = Org + 6 /\ Waits'
<1>1. PICK i : i = TestLine(0) /\ i = Lea(At(XOSERA_ADDRESS), 0)
  BY MainIs DEF TestLine
<1>2. i.name = "lea" /\ i.ea.mode = "al" /\ i.ea.e = XOSERA_ADDRESS /\ i.x = 0
  BY <1>1, LeaForm, OperandForm
<1>3. Runs(i)
  BY <1>1, <1>2, TestRuns
<1>4. lea_32(i) /\ IsInstruction(i) /\ Here /\ screen' = screen
  BY <1>2, <1>3 DEF Runs, Own
<1>5. Ahead(6) = Org + 6
  <2>1. 6 \in Int /\ 6 \in TestOffsets /\ 6 = 0 + 6
    BY DEF TestOffsets
  <2> QED BY <2>1, TestGoes
<1>6. Becomes(cpu', cpu.d, [cpu.a EXCEPT ![0] = XOSERA_ADDRESS], cpu.mem, Org + 6)
  BY <1>2, <1>4, <1>5, LeaBecomes DEF Here
<1>7. Spared(0) /\ cpu'.pc = Org + 6 /\ cpu'.a[0] = XOSERA_ADDRESS
  BY <1>4, <1>6, BaseSpares DEF Depths
<1> QED BY <1>4, <1>7, StillGiven DEF Waits

\* The wait for a pattern, in five lines from b on.
WaitStep(b, j, p) ==
  /\ b \in {6, 28} /\ TestStep(b + j) /\ TestLine(b + j) = Waiting(j, p) /\ Waits

\* Every line of the wait but the last is one of the five.
LEMMA WaitLine ==
  ASSUME NEW k \in WaitLines \ {50}, TestStep(k), Waits
  PROVE  \E b, j, p : j \in {0, 6, 10, 14, 18} /\ k = b + j /\ WaitStep(b, j, p)
<1>1. CASE k \in {6, 12, 16, 20, 24}
  <2>1. PICK j \in {0, 6, 10, 14, 18} : j = k - 6 /\ k = 6 + j
    BY <1>1
  <2>2. TestLine(k) = Waiting(j, Patterns[1])
    BY <1>1, <2>1, MainIs DEF TestLine
  <2> QED BY <2>1, <2>2 DEF WaitStep
<1>2. CASE k \in {28, 34, 38, 42, 46}
  <2>1. PICK j \in {0, 6, 10, 14, 18} : j = k - 28 /\ k = 28 + j
    BY <1>2
  <2>2. TestLine(k) = Waiting(j, Patterns[2])
    BY <1>2, <2>1, MainIs DEF TestLine
  <2> QED BY <2>1, <2>2 DEF WaitStep
<1> QED BY <1>1, <1>2 DEF WaitLines

StillWaiting(k) == cpu'.pc = Org + k /\ Waits'

\* The wait leads to lines of the wait.
LEMMA WaitGoes ==
  ASSUME NEW b, NEW j \in {0, 6, 10, 14, 18}, NEW p, WaitStep(b, j, p), NEW d \in {4, 6, -18},
         d # 6 <=> j > 0,
         d = -18 => j = 18
  PROVE  Ahead(d) = Org + (b + j + d) /\ b + j + d \in WaitLines
<1>1. b \in {6, 28} /\ TestStep(b + j)
  BY DEF WaitStep
<1>2. PICK l \in TestOffsets, e \in Int : e = d /\ l = (b + j) + e /\ l \in WaitLines
  BY <1>1 DEF TestOffsets, WaitLines
<1>3. PICK k : k = b + j
  OBVIOUS
<1>4. Ahead(e) = Org + l
  BY <1>1, <1>2, <1>3, TestGoes
<1> QED BY <1>2, <1>4

\* move.l #pattern,d0.
LEMMA WaitPattern ==
  ASSUME NEW b, NEW p, WaitStep(b, 0, p)
  PROVE  \E l \in WaitLines : StillWaiting(l)
<1>1. PICK k, i : k = b + 0 /\ i = TestLine(k) /\ i = Move_(4, Value(p), D(0)) /\ TestStep(k)
  BY WaitingIs DEF WaitStep
<1>2. /\ i.name = "move" /\ i.z = 4 /\ i.form = "d" /\ i.ea.mode = "i" /\ i.to.mode = "d"
      /\ i.to.r = 0
  BY <1>1, MoveForm, OperandForm
<1>3. Runs(i)
  BY <1>1, <1>2, TestRuns
<1>4. MoveHandlers(i) /\ IsInstruction(i) /\ Here /\ screen' = screen
  BY <1>2, <1>3 DEF Runs, Own
<1>5. PICK l \in WaitLines : Ahead(6) = Org + l
  BY WaitGoes
<1>6. PICK v : Becomes(cpu', [cpu.d EXCEPT ![0] = v], cpu.a, cpu.mem, Org + l)
  BY <1>2, <1>4, <1>5, MoveValue DEF Here
<1>7. 0 \in Depths /\ 0 \in Registers /\ 0 \notin {2, 3, 4}
  BY DEF Depths, Registers
<1>8. Spared(0) /\ cpu'.pc = Org + l /\ cpu'.a = cpu.a
  BY <1>4, <1>6, <1>7, LoadSpares
<1> QED BY <1>4, <1>8, StillWaits DEF StillWaiting, WaitStep

\* movep.w d0,0(a0): Xosera takes it, or does not yet.
LEMMA WaitWrites ==
  ASSUME NEW b, NEW p, WaitStep(b, 6, p)
  PROVE  \E l \in WaitLines : StillWaiting(l)
<1>1. PICK k, i : k = b + 6 /\ i = TestLine(k) /\ i = Movep("re", 0, Di(0, 0)) /\ TestStep(k)
  BY WaitingIs DEF WaitStep
<1>2. /\ i.name = "movep" /\ i.z = 2 /\ i.form = "re" /\ i.x = 0
      /\ i.ea.mode = "di" /\ i.ea.r = 0 /\ i.ea.e = 0
  BY <1>1, MovepForm, DiForm
<1>3. PICK l \in WaitLines : Ahead(4) = Org + l
  <2>1. PICK j \in {0, 6, 10, 14, 18}, d \in {4, 6, -18} :
          j = 6 /\ d = 4 /\ (d # 6 <=> j > 0) /\ (d = -18 => j = 18) /\ WaitStep(b, j, p)
    OBVIOUS
  <2>2. Ahead(d) = Org + (b + j + d) /\ b + j + d \in WaitLines
    BY <2>1, WaitGoes
  <2> QED BY <2>1, <2>2
<1>4. Here
  <2>1. start \in Machine /\ cpu \in Machine /\ cpu' \in Machine /\ start' = start /\ HasRoom
    BY <1>1 DEF TestStep, IInv, TypeOK
  <2> QED BY <2>1 DEF Here
<1>5. 0 \in Depths
  BY DEF Depths
<1>6. CASE Unready
  <2>1. Becomes(cpu', cpu.d, cpu.a, cpu.mem, Org + l) /\ screen' = screen
    BY <1>3, <1>4, <1>6, UnreadyBecomes DEF Here
  <2>2. Spared(0) /\ cpu'.pc = Org + l /\ cpu'.a = cpu.a
    BY <1>4, <1>5, <2>1, RestSpares
  <2> QED BY <2>1, <2>2, StillWaits DEF StillWaiting, WaitStep
<1>7. CASE ~Unready
  <2>1. i = Instr
    BY <1>1, TestingLines DEF TestStep
  <2>2. Own(i) /\ Quiet
    BY <1>1, <1>2, <1>7, <2>1, StepOwn DEF TestStep
  <2>3. screen' = screen
    BY <1>2, <2>1, <2>2 DEF Quiet, Shows
  <2>4. movep_16_re(i)
    BY <1>2, <2>2 DEF Own, movep_16_er, movep_32_er, movep_32_re, Does
  <2>5. MovepAt(i, XOSERA_ADDRESS)
    <3>1. 0 \in Registers /\ 0 \in 0..28 /\ cpu.a[0] = XOSERA_ADDRESS
      BY DEF Registers, Waits, WaitStep
    <3>2. PICK o : o = i.ea /\ o.r = 0 /\ o.e = 0 /\ o.mode = "di"
      BY <1>2
    <3>3. /\ o.e \in Range0(2) /\ Near(o) = XOSERA_ADDRESS + o.e
          /\ XOSERA_ADDRESS + o.e \in 0..(AddressSpace - 4)
      BY <1>4, <3>1, <3>2, XoseraNear
    <3>4. XOSERA_ADDRESS + 0 = XOSERA_ADDRESS
      BY <1>4, RoomIs DEF Here
    <3> QED BY <1>2, <3>1, <3>2, <3>3, <3>4 DEF MovepAt
  <2>6. MovepSaved(XOSERA_ADDRESS, cpu.d[i.x])
    BY <1>4, <2>4, <2>5, MovepSaves DEF Here
  <2>7. PICK x \in Int, r \in 0..28, z \in 1..4 : x = XOSERA_ADDRESS /\ x + 0 = x /\ r = 0
        /\ z = 4
    BY TestAssumption, RoomIs, <1>4 DEF Here
  <2>8. Wrote(cpu.mem, cpu'.mem, z, XOSERA_ADDRESS + r)
        /\ Becomes(cpu', cpu.d, cpu.a, cpu'.mem, Org + l)
    BY <1>3, <2>6, <2>7 DEF MovepSaved
  <2>9. Spared(0) /\ cpu'.pc = Org + l /\ cpu'.a = cpu.a
    BY <1>4, <1>5, <2>7, <2>8, WriteSpares
  <2> QED BY <2>3, <2>9, StillWaits DEF StillWaiting, WaitStep
<1> QED BY <1>6, <1>7

-----------------------------------------------------------------------------
\* movep.w 0(a0),d0.
LEMMA WaitReads ==
  ASSUME NEW b, NEW p, WaitStep(b, 10, p)
  PROVE  \E l \in WaitLines : StillWaiting(l)
<1>1. PICK k, i : k = b + 10 /\ i = TestLine(k) /\ i = Movep("er", 0, Di(0, 0)) /\ TestStep(k)
  BY WaitingIs DEF WaitStep
<1>2. /\ i.name = "movep" /\ i.z = 2 /\ i.form = "er" /\ i.x = 0
      /\ i.ea.mode = "di" /\ i.ea.r = 0 /\ i.ea.e = 0
  BY <1>1, MovepForm, DiForm
<1>3. PICK l \in WaitLines : Ahead(4) = Org + l
  <2>1. PICK j \in {0, 6, 10, 14, 18}, d \in {4, 6, -18} :
          j = 10 /\ d = 4 /\ (d # 6 <=> j > 0) /\ (d = -18 => j = 18) /\ WaitStep(b, j, p)
    OBVIOUS
  <2>2. Ahead(d) = Org + (b + j + d) /\ b + j + d \in WaitLines
    BY <2>1, WaitGoes
  <2> QED BY <2>1, <2>2
<1>4. Runs(i)
  BY <1>1, <1>2, TestRuns
<1>5. movep_16_er(i) /\ Here /\ screen' = screen
  BY <1>2, <1>4 DEF Runs, Own, movep_32_er, movep_16_re, movep_32_re, Does
<1>6. MovepAt(i, XOSERA_ADDRESS)
  <2>1. 0 \in Registers /\ 0 \in 0..28 /\ cpu.a[0] = XOSERA_ADDRESS
    BY DEF Registers, Waits, WaitStep
  <2>2. PICK o : o = i.ea /\ o.r = 0 /\ o.e = 0 /\ o.mode = "di"
    BY <1>2
  <2>3. /\ o.e \in Range0(2) /\ Near(o) = XOSERA_ADDRESS + o.e
        /\ XOSERA_ADDRESS + o.e \in 0..(AddressSpace - 4)
    BY <1>5, <2>1, <2>2, XoseraNear
  <2>4. XOSERA_ADDRESS + 0 = XOSERA_ADDRESS
    BY <1>5, RoomIs DEF Here
  <2> QED BY <1>2, <2>1, <2>2, <2>3, <2>4 DEF MovepAt
<1>7. PICK v : Becomes(cpu', [cpu.d EXCEPT ![0] = v], cpu.a, cpu.mem, Org + l)
  <2>1. \E v : Becomes(cpu', [cpu.d EXCEPT ![i.x] = v], cpu.a, cpu.mem, Ahead(4))
    BY <1>5, <1>6, MovepLoads DEF Here
  <2> QED BY <1>2, <1>3, <2>1
<1>8. 0 \in Depths /\ 0 \in Registers /\ 0 \notin {2, 3, 4}
  BY DEF Depths, Registers
<1>9. Spared(0) /\ cpu'.pc = Org + l /\ cpu'.a = cpu.a
  BY <1>5, <1>7, <1>8, LoadSpares
<1> QED BY <1>5, <1>9, StillWaits DEF StillWaiting, WaitStep

\* cmp.w #pattern,d0.
LEMMA WaitCompares ==
  ASSUME NEW b, NEW p, WaitStep(b, 14, p)
  PROVE  \E l \in WaitLines : StillWaiting(l)
<1>1. PICK k, i : /\ k = b + 14 /\ i = TestLine(k) /\ TestStep(k)
                  /\ i = [Plain EXCEPT !.name = "cmp", !.z = 2, !.ea = Value(p), !.x = 0]
  BY WaitingIs DEF WaitStep
<1>2. i.name = "cmp" /\ i.z = 2 /\ i.ea.mode = "i"
  <2>1. i.name = "cmp" /\ i.z = 2 /\ i.ea = Value(p)
    BY <1>1 DEF Plain
  <2> QED BY <2>1, OperandForm
<1>3. PICK l \in WaitLines : Ahead(4) = Org + l
  <2>1. PICK j \in {0, 6, 10, 14, 18}, d \in {4, 6, -18} :
          j = 14 /\ d = 4 /\ (d # 6 <=> j > 0) /\ (d = -18 => j = 18) /\ WaitStep(b, j, p)
    OBVIOUS
  <2>2. Ahead(d) = Org + (b + j + d) /\ b + j + d \in WaitLines
    BY <2>1, WaitGoes
  <2> QED BY <2>1, <2>2
<1>4. Runs(i)
  BY <1>1, <1>2, TestRuns
<1>5. ShowHandlers(i) /\ IsInstruction(i) /\ Here /\ screen' = screen
  BY <1>2, <1>4 DEF Runs, Own
<1>6. Becomes(cpu', cpu.d, cpu.a, cpu.mem, Org + l)
  BY <1>2, <1>3, <1>5, CmpBecomes DEF Here
<1>7. Spared(0) /\ cpu'.pc = Org + l /\ cpu'.a = cpu.a
  BY <1>5, <1>6, RestSpares DEF Depths
<1> QED BY <1>5, <1>7, StillWaits DEF StillWaiting, WaitStep

\* bne to the first of the five, as long as the pattern is not there.
LEMMA WaitTurns ==
  ASSUME NEW b, NEW p, WaitStep(b, 18, p)
  PROVE  \E l \in WaitLines : StillWaiting(l)
<1>1. PICK k, i : k = b + 18 /\ i = TestLine(k) /\ i = Bne(18, 0) /\ TestStep(k)
  BY WaitingIs DEF WaitStep
<1>2. i.name = "bcc" /\ i.z = 2 /\ i.q = Masked(2, -20)
  <2>1. 0 - 18 - 2 = -20
    OBVIOUS
  <2> QED BY <1>1, <2>1, BneForm
<1>3. Runs(i)
  BY <1>1, <1>2, TestRuns
<1>4. bcc_16(i) /\ IsInstruction(i) /\ Here /\ screen' = screen
  BY <1>2, <1>3 DEF Runs, Own, bcc_8, Does
<1>5. PICK c : Becomes(cpu', cpu.d, cpu.a, cpu.mem, c)
      /\ c \in {Ahead(2 + Signed(2, i.q)), Ahead(4)}
  BY <1>4, BccBecomes DEF Here
<1>6. 2 + Signed(2, i.q) = -18
  <2>1. PICK t \in 1..128 : t = 20
    OBVIOUS
  <2>2. Signed(2, Masked(2, -t)) = -t
    BY BackIs
  <2> QED BY <1>2, <2>1, <2>2
<1>7. PICK l \in WaitLines : c = Org + l
  <2>1. PICK j \in {0, 6, 10, 14, 18}, d \in {4, 6, -18} :
          /\ j = 18 /\ (d # 6 <=> j > 0) /\ (d = -18 => j = 18) /\ WaitStep(b, j, p)
          /\ c = Ahead(d)
    BY <1>5, <1>6
  <2>2. Ahead(d) = Org + (b + j + d) /\ b + j + d \in WaitLines
    BY <2>1, WaitGoes
  <2> QED BY <2>1, <2>2
<1>8. Spared(0) /\ cpu'.pc = c /\ cpu'.a = cpu.a
  BY <1>4, <1>5, RestSpares DEF Depths
<1> QED BY <1>4, <1>7, <1>8, StillWaits DEF StillWaiting, WaitStep

\* The wait goes on, until it leads to its last line.
LEMMA WaitGoesOn ==
  ASSUME NEW k \in WaitLines \ {50}, TestStep(k), Waits
  PROVE  \E l \in WaitLines : StillWaiting(l)
<1>1. PICK b, j, p : j \in {0, 6, 10, 14, 18} /\ k = b + j /\ WaitStep(b, j, p)
  BY WaitLine
<1> QED BY <1>1, WaitPattern, WaitWrites, WaitReads, WaitCompares, WaitTurns

-----------------------------------------------------------------------------
(* The parameters, the call and the frame.                                 *)

\* move.l #Character,-(a7) and move.l #Color,-(a7).
PushLine(k, v, l) ==
  /\ TestStep(k) /\ TestLine(k) = Move_(4, Value(v), Pd(7)) /\ l \in {0, 4}
  /\ v = (IF l = 0 THEN Character ELSE IF l = 4 THEN Color ELSE Org + 68)
  /\ k + 6 \in TestOffsets /\ Given(l)

\* A parameter goes onto the stack.
LEMMA TestPushes ==
  ASSUME NEW k \in Int, NEW v, NEW l, PushLine(k, v, l), NEW d, d = l + 4
  PROVE  cpu'.pc = Org + (k + 6) /\ Given(d)'
<1>1. PICK i : i = TestLine(k) /\ i = Move_(4, Value(v), Pd(7)) /\ TestStep(k)
  BY DEF PushLine
<1>2. /\ i.name = "move" /\ i.z = 4 /\ i.form = "pd" /\ i.ea.mode = "i" /\ i.ea.e = v
      /\ i.to.mode = "pd" /\ i.to.r = 7
  BY <1>1, MoveForm, OperandForm
<1>3. Runs(i)
  BY <1>1, <1>2, TestRuns
<1>4. MoveHandlers(i) /\ IsInstruction(i) /\ Here /\ screen' = screen
  BY <1>2, <1>3 DEF Runs, Own
<1>5. Ahead(6) = Org + (k + 6)
  BY <1>1, TestGoes DEF PushLine
<1>6. /\ Becomes(cpu', cpu.d, StackedA(cpu.a, -4), cpu'.mem, Org + (k + 6))
      /\ WroteLong(cpu.mem, cpu'.mem, cpu.a[7] - 4, v)
  BY <1>2, <1>4, <1>5, MovePush DEF Here
<1>7. Pushes(l, v, Org + (k + 6))
  BY <1>4, <1>6 DEF Pushes, PushLine, Here
<1>8. Stacked(d)' /\ cpu'.pc = Org + (k + 6)
  BY <1>7, PushStacks DEF PushLine, Given
<1> QED BY <1>4, <1>8, StillDrawn DEF Given, PushLine

\* The character is the first.
LEMMA TestCharacter == ASSUME TestStep(50), Waits PROVE cpu'.pc = Org + 56 /\ Given(4)'
<1>1. PICK k \in Int, l \in Int, d \in Int : k = 50 /\ l = 0 /\ d = l + 4 /\ k + 6 = 56 /\ d = 4
  OBVIOUS
<1>2. PushLine(k, Character, l)
  BY <1>1, MainIs DEF PushLine, TestLine, TestOffsets, Waits
<1>3. cpu'.pc = Org + (k + 6) /\ Given(d)'
  BY <1>1, <1>2, TestPushes
<1> QED BY <1>1, <1>3

\* The color is the second.
LEMMA TestColor == ASSUME TestStep(56), Given(4) PROVE cpu'.pc = Org + 62 /\ Given(8)'
<1>1. PICK k \in Int, l \in Int, d \in Int : k = 56 /\ l = 4 /\ d = l + 4 /\ k + 6 = 62 /\ d = 8
  OBVIOUS
<1>2. PushLine(k, Color, l)
  BY <1>1, MainIs DEF PushLine, TestLine, TestOffsets
<1>3. cpu'.pc = Org + (k + 6) /\ Given(d)'
  BY <1>1, <1>2, TestPushes
<1> QED BY <1>1, <1>3

\* jsr xcls.
LEMMA TestCalls == ASSUME TestStep(62), Given(8) PROVE cpu'.pc = Org + 76 /\ Given(12)'
<1>1. PICK i : i = TestLine(62) /\ i = [Plain EXCEPT !.name = "jsr", !.ea = At(Org + 76)]
  BY MainIs DEF TestLine
<1>2. i.name = "jsr" /\ i.ea.mode = "al" /\ i.ea.e = Org + 76
  <2>1. i.name = "jsr" /\ i.ea = At(Org + 76)
    BY <1>1 DEF Plain
  <2> QED BY <2>1, OperandForm
<1>3. Runs(i)
  BY <1>1, <1>2, TestRuns
<1>4. jsr_32(i) /\ IsInstruction(i) /\ Here /\ screen' = screen
  BY <1>2, <1>3 DEF Runs, Own
<1>5. Ahead(6) = Org + 68
  <2>1. 6 \in Int /\ 68 \in TestOffsets /\ 68 = 62 + 6
    BY DEF TestOffsets
  <2> QED BY <2>1, TestGoes
<1>6. CallBecomes(Org + 68, Org + 76)
  BY <1>2, <1>4, <1>5, JsrBecomes DEF Here
<1>7. PICK l, d : l = 8 /\ d = 12 /\ d = l + 4
  OBVIOUS
<1>8. Pushes(l, Org + 68, Org + 76)
  BY <1>4, <1>6, <1>7 DEF Pushes, Here, CallBecomes
<1>9. Stacked(d)' /\ cpu'.pc = Org + 76
  BY <1>7, <1>8, PushStacks DEF Given
<1> QED BY <1>4, <1>7, <1>9, StillDrawn DEF Given

\* movea.l a7,a0.
LEMMA TestPoints ==
  ASSUME TestStep(76), Given(12)
  PROVE  cpu'.pc = Org + 78 /\ Given(12)' /\ cpu'.a[0] = StackAt(12)'
<1>1. PICK i : i = TestLine(76) /\ i = [Plain EXCEPT !.name = "movea", !.ea = A(7), !.x = 0]
  BY ClearScreenIs DEF TestLine
<1>2. i.name = "movea" /\ i.z = 4 /\ i.ea.mode = "a" /\ i.ea.r = 7 /\ i.x = 0
  <2>1. i.name = "movea" /\ i.z = 4 /\ i.ea = A(7) /\ i.x = 0
    BY <1>1 DEF Plain
  <2> QED BY <2>1, OperandForm
<1>3. Runs(i)
  BY <1>1, <1>2, TestRuns
<1>4. movea_32(i) /\ IsInstruction(i) /\ Here /\ screen' = screen
  BY <1>2, <1>3 DEF Runs, Own, movea_16, Does
<1>5. Ahead(2) = Org + 78
  <2>1. 2 \in Int /\ 78 \in TestOffsets /\ 78 = 76 + 2
    BY DEF TestOffsets
  <2> QED BY <2>1, TestGoes
<1>6. Becomes(cpu', cpu.d, [cpu.a EXCEPT ![0] = cpu.a[7]], cpu.mem, Org + 78)
  BY <1>2, <1>4, <1>5, MoveaBecomes DEF Here
<1>7. Spared(12) /\ cpu'.pc = Org + 78 /\ cpu'.a[0] = cpu.a[7]
  BY <1>4, <1>6, BaseSpares DEF Depths
<1>8. cpu.a[7] = StackAt(12) /\ StackAt(12)' = StackAt(12)
  BY <1>4 DEF Given, Stacked, StackAt, Here
<1> QED BY <1>4, <1>7, <1>8, StillGiven

\* movem.l d2-d4,-(a7).
LEMMA TestSaves ==
  ASSUME TestStep(78), Given(12), cpu.a[0] = StackAt(12)
  PROVE  cpu'.pc = Org + 82 /\ Framed' /\ OnScreen(0)'
<1>1. PICK i : i = TestLine(78) /\ i = Movem("re", Pd(7), {2, 3, 4})
  BY ClearScreenIs DEF TestLine
<1>2. i.name = "movem" /\ i.z = 4 /\ i.form = "re" /\ i.ea.mode = "pd" /\ i.ea.r = 7
      /\ i.regs = {2, 3, 4}
  BY <1>1, MovemForm, OperandForm
<1>3. Runs(i)
  BY <1>1, <1>2, TestRuns
<1>4. Own(i) /\ IsInstruction(i) /\ Here /\ screen' = screen
  BY <1>2, <1>3 DEF Runs
<1>5. movem_32_re_pd(i)
  BY <1>2, <1>4
     DEF Own, SaveHandlers, RestoreHandlers, Does, movem_16_re_pd, movem_16_re, movem_32_re,
         movem_16_er_pi, movem_32_er_pi, movem_16_er, movem_32_er, Memory, Control
<1>6. SavesThree(2, 3, 4)
  <2>1. InOrder(i.regs, 2, 3, 4)
    BY <1>2 DEF InOrder
  <2> QED BY <1>2, <1>4, <1>5, <2>1, SaveBecomes DEF Here
<1>7. Ahead(4) = Org + 82
  <2>1. 4 \in Int /\ 82 \in TestOffsets /\ 82 = 78 + 4
    BY DEF TestOffsets
  <2> QED BY <2>1, TestGoes
<1>8. Stacked(24)' /\ cpu'.pc = Ahead(4) /\ \A r \in Registers \ {7} : cpu'.a[r] = cpu.a[r]
  BY <1>4, <1>6, SaveStacks DEF Here, Given
<1>9. cpu'.a[0] = StackAt(12)'
  BY <1>4, <1>8 DEF Registers, Here, StackAt
<1> QED BY <1>4, <1>7, <1>8, <1>9, StillDrawn DEF Framed, Given

\* lea XOSERA_ADDRESS,a1.
LEMMA TestBases ==
  ASSUME TestStep(82), Framed, OnScreen(0)
  PROVE  cpu'.pc = Org + 88 /\ Based' /\ OnScreen(0)'
<1>1. PICK i : i = TestLine(82) /\ i = Lea(At(XOSERA_ADDRESS), 1)
  BY ClearScreenIs DEF TestLine
<1>2. i.name = "lea" /\ i.ea.mode = "al" /\ i.ea.e = XOSERA_ADDRESS /\ i.x = 1
  BY <1>1, LeaForm, OperandForm
<1>3. Runs(i)
  BY <1>1, <1>2, TestRuns
<1>4. lea_32(i) /\ IsInstruction(i) /\ Here /\ screen' = screen
  BY <1>2, <1>3 DEF Runs, Own
<1>5. Ahead(6) = Org + 88
  <2>1. 6 \in Int /\ 88 \in TestOffsets /\ 88 = 82 + 6
    BY DEF TestOffsets
  <2> QED BY <2>1, TestGoes
<1>6. Becomes(cpu', cpu.d, [cpu.a EXCEPT ![1] = XOSERA_ADDRESS], cpu.mem, Org + 88)
  BY <1>2, <1>4, <1>5, LeaBecomes DEF Here
<1>7. /\ Spared(24) /\ cpu'.pc = Org + 88 /\ cpu'.a[1] = XOSERA_ADDRESS
      /\ \A q \in Registers \ {1} : cpu'.a[q] = cpu.a[q]
  BY <1>4, <1>6, BaseSpares DEF Depths
<1>8. cpu'.a[0] = StackAt(12)' /\ Stacked(24)'
  BY <1>4, <1>7, StillStacked DEF Registers, Here, StackAt, Framed
<1> QED BY <1>4, <1>7, <1>8, StillDrawn DEF Framed, Based

-----------------------------------------------------------------------------
(* Lines of xcls.                                                          *)

\* A line of xcls that leaves the frame and the pointers alone.
LEMMA BasedStays ==
  ASSUME Here, Spared(24), Based, cpu'.a = cpu.a
  PROVE  Based'
BY StillBased

\* move.l #value,dr.
BasedMove(k, v, r) ==
  /\ TestStep(k) /\ TestLine(k) = Move_(4, Value(v), D(r)) /\ k + 6 \in TestOffsets /\ Based

\* A value goes to a register and the rest stays.
LEMMA TestMoves ==
  ASSUME NEW k \in Int, NEW v, NEW r \in Registers, BasedMove(k, v, r)
  PROVE  /\ cpu'.pc = Org + (k + 6) /\ Based' /\ screen' = screen /\ cpu'.d[r] = v
         /\ \A q \in Registers \ {r} : cpu'.d[q] = cpu.d[q]
<1>1. PICK i : i = TestLine(k) /\ i = Move_(4, Value(v), D(r)) /\ TestStep(k) /\ Based
  BY DEF BasedMove
<1>2. /\ i.name = "move" /\ i.z = 4 /\ i.form = "d" /\ i.ea.mode = "i" /\ i.ea.e = v
      /\ i.to.mode = "d" /\ i.to.r = r
  BY <1>1, MoveForm, OperandForm
<1>3. Runs(i)
  BY <1>1, <1>2, TestRuns
<1>4. MoveHandlers(i) /\ IsInstruction(i) /\ Here /\ screen' = screen
  BY <1>2, <1>3 DEF Runs, Own
<1>5. Ahead(6) = Org + (k + 6)
  BY <1>1, TestGoes DEF BasedMove
<1>6. Becomes(cpu', [cpu.d EXCEPT ![r] = v], cpu.a, cpu.mem, Org + (k + 6))
  BY <1>2, <1>4, <1>5, MoveValue DEF Here
<1>7. /\ Spared(24) /\ cpu'.pc = Org + (k + 6) /\ cpu'.a = cpu.a /\ cpu'.d[r] = v
      /\ \A q \in Registers \ {r} : cpu'.d[q] = cpu.d[q]
  <2>1. PICK l \in Depths : l = 24
    BY DEF Depths
  <2> QED BY <1>4, <1>6, <2>1, LoadSpares
<1> QED BY <1>1, <1>4, <1>7, BasedStays

\* movep.w dx,e(a1).
BasedMovep(k, x, e) ==
  /\ TestStep(k) /\ TestLine(k) = Movep("re", x, Di(e, 1)) /\ k + 4 \in TestOffsets /\ Based

\* A word goes to a register of Xosera.
LEMMA TestMoveps ==
  ASSUME NEW k \in Int, NEW x \in Registers, NEW e \in {16, 20}, BasedMovep(k, x, e)
  PROVE  /\ cpu'.pc = Org + (k + 4) /\ Based' /\ screen' = screen /\ cpu'.d = cpu.d
         /\ cpu'.mem[XOSERA_ADDRESS + e] = ByteOf(2, cpu.d[x], 0)
         /\ cpu'.mem[XOSERA_ADDRESS + e + 2] = ByteOf(2, cpu.d[x], 1)
<1>1. PICK i : i = TestLine(k) /\ i = Movep("re", x, Di(e, 1)) /\ TestStep(k) /\ Based
  BY DEF BasedMovep
<1>2. /\ i.name = "movep" /\ i.z = 2 /\ i.form = "re" /\ i.x = x
      /\ i.ea.mode = "di" /\ i.ea.r = 1 /\ i.ea.e = e
  BY <1>1, MovepForm, DiForm
<1>3. e # 0
  OBVIOUS
<1>4. Runs(i)
  BY <1>1, <1>2, <1>3, TestRuns
<1>5. movep_16_re(i) /\ Here /\ screen' = screen
  BY <1>2, <1>4 DEF Runs, Own, movep_16_er, movep_32_er, movep_32_re, Does
<1>6. PICK at : at = XOSERA_ADDRESS + e
  OBVIOUS
<1>7. MovepAt(i, at)
  <2>1. PICK o : o = i.ea /\ o.r = 1 /\ o.e = e /\ o.mode = "di"
    BY <1>2
  <2>2. o.r \in Registers /\ o.e \in 0..28 /\ cpu.a[o.r] = XOSERA_ADDRESS
    BY <1>1, <2>1 DEF Registers, Based
  <2>3. /\ o.e \in Range0(2) /\ Near(o) = XOSERA_ADDRESS + o.e
        /\ XOSERA_ADDRESS + o.e \in 0..(AddressSpace - 4)
    BY <1>5, <2>2, XoseraNear
  <2> QED BY <1>2, <1>6, <2>1, <2>2, <2>3 DEF MovepAt
<1>8. MovepSaved(at, cpu.d[x])
  BY <1>2, <1>5, <1>7, MovepSaves DEF Here
<1>9. Ahead(4) = Org + (k + 4)
  BY <1>1, TestGoes DEF BasedMovep
<1>10. /\ Becomes(cpu', cpu.d, cpu.a, cpu'.mem, Org + (k + 4)) /\ Wrote(cpu.mem, cpu'.mem, 4, at)
       /\ cpu'.mem[at] = ByteOf(2, cpu.d[x], 0) /\ cpu'.mem[at + 2] = ByteOf(2, cpu.d[x], 1)
  BY <1>8, <1>9 DEF MovepSaved
<1>11. Spared(24) /\ cpu'.pc = Org + (k + 4) /\ cpu'.d = cpu.d /\ cpu'.a = cpu.a
  <2>1. PICK l \in Depths, z \in 1..4 : l = 24 /\ z = 4 /\ e \in 0..(32 - z)
    BY DEF Depths
  <2> QED BY <1>5, <1>6, <1>10, <2>1, WriteSpares
<1> QED BY <1>1, <1>5, <1>6, <1>10, <1>11, BasedStays

\* move.l e(a0),d0: a parameter, behind the return address.
BasedLoad(k, e) ==
  /\ TestStep(k) /\ TestLine(k) = Move_(4, Di(e, 0), D(0)) /\ k + 4 \in TestOffsets /\ Based

\* A parameter comes from the stack.
LEMMA TestLoads ==
  ASSUME NEW k \in Int, NEW e \in {4, 8}, BasedLoad(k, e)
  PROVE  /\ cpu'.pc = Org + (k + 4) /\ Based' /\ screen' = screen /\ cpu'.mem = cpu.mem
         /\ cpu'.d[0] = (IF e = 4 THEN Color ELSE Character)
         /\ \A q \in Registers \ {0} : cpu'.d[q] = cpu.d[q]
<1>1. PICK i : i = TestLine(k) /\ i = Move_(4, Di(e, 0), D(0)) /\ TestStep(k) /\ Based
  BY DEF BasedLoad
<1>2. /\ i.name = "move" /\ i.z = 4 /\ i.form = "d" /\ i.ea.mode = "di" /\ i.ea.e = e
         /\ i.ea.r = 0
      /\ i.to.mode = "d" /\ i.to.r = 0
  BY <1>1, MoveForm, OperandForm, DiForm
<1>3. Runs(i)
  BY <1>1, <1>2, TestRuns
<1>4. MoveHandlers(i) /\ IsInstruction(i) /\ Here /\ screen' = screen
  BY <1>2, <1>3 DEF Runs, Own
<1>5. PICK h \in Int, w \in Int : h = Half[2] /\ w = Mod(2) /\ h >= 128 /\ w = 2 * h
  BY WordsHold
<1>6. e \in Range0(2) /\ Signed(2, e) = e
  BY <1>5 DEF Range0, Signed
<1>7. Ahead(4) = Org + (k + 4)
  BY <1>1, TestGoes DEF BasedLoad
<1>8. Becomes(cpu', [cpu.d EXCEPT ![0] = LongIn(cpu.mem, Near(i.ea))], cpu.a, cpu.mem,
          Org + (k + 4))
  BY <1>2, <1>4, <1>6, <1>7, MoveLoad DEF Here
<1>9. LongIn(cpu.mem, Near(i.ea)) = (IF e = 4 THEN Color ELSE Character)
  <2>1. PICK t \in Int, x \in Int : t = StackAt(12) /\ x = t + e
    BY <1>4, StackIs DEF Here
  <2>2. Near(i.ea) = x
    BY <1>1, <1>2, <1>6, <2>1 DEF Near, Based, Framed
  <2>3. Moves1(12, 12 - e, x)
    BY <2>1 DEF Moves1
  <2>4. LongIn(cpu.mem, x) = OnStack(12 - e)
    <3>1. cpu.mem \in [Space -> Range0(1)]
      BY <1>4, MachineIs DEF Here
    <3> QED BY <1>4, <2>3, <3>1, StackReads DEF OnStack, Here
  <2>5. 12 - e = (IF e = 4 THEN 8 ELSE 4)
    OBVIOUS
  <2> QED BY <1>1, <2>2, <2>4, <2>5 DEF Based, Framed, Stacked
<1>10. PICK v : /\ v = (IF e = 4 THEN Color ELSE Character)
                /\ Becomes(cpu', [cpu.d EXCEPT ![0] = v], cpu.a, cpu.mem, Org + (k + 4))
  BY <1>8, <1>9
<1>11. /\ Spared(24) /\ cpu'.pc = Org + (k + 4) /\ cpu'.a = cpu.a /\ cpu'.mem = cpu.mem
          /\ cpu'.d[0] = v
       /\ \A q \in Registers \ {0} : cpu'.d[q] = cpu.d[q]
  <2>1. PICK l \in Depths, r \in Registers : l = 24 /\ r = 0
    BY DEF Depths, Registers
  <2> QED BY <1>4, <1>10, <2>1, LoadSpares
<1> QED BY <1>1, <1>4, <1>10, <1>11, BasedStays

-----------------------------------------------------------------------------
\* The number of characters is addressed by a word, which has two bytes.
LEMMA CharactersAre ==
  \E h \in Nat \ {0}, w \in Nat, c \in Nat :
    /\ h = Mod(1) /\ w = h * h /\ w = Mod(2) /\ c = Characters /\ c \in 1..w
    /\ \A v \in 0..w : v \in Range0(4)
<1>1. PICK h \in Nat \ {0} : h = Mod(1)
  BY Widths DEF Sizes
<1>2. PICK w \in Nat : w = h * h /\ w = Mod(2)
  <2>1. h * h \in Nat
    OBVIOUS
  <2> QED BY <1>1, <2>1, Widths
<1>3. PICK l \in Nat : l = w * w /\ l = Mod(4)
  <2>1. w * w \in Nat
    OBVIOUS
  <2> QED BY <1>1, <1>2, <2>1, Widths
<1>4. w >= 2
  BY <1>2, WordsHold
<1>5. w < l
  <2>1. PICK d \in Nat : w = 2 + d
    <3>1. w - 2 \in Nat /\ w = 2 + (w - 2)
      BY <1>4
    <3> QED BY <3>1
  <2>2. (2 + d) * (2 + d) > 2 + d
    OBVIOUS
  <2> QED BY <1>3, <2>1, <2>2
<1>6. \A v \in 0..w : v \in Range0(4)
  BY <1>3, <1>5 DEF Range0
<1>7. PICK c \in Nat : c = Characters /\ c \in 1..w
  BY <1>2, TestAssumption
<1> QED BY <1>1, <1>2, <1>6, <1>7

\* A word from its two bytes.
LEMMA TwoBytes ==
  ASSUME NEW h \in Nat \ {0}, NEW n \in 0..(h * h - 1)
  PROVE  ((n \div h) % h) * h + (n % h) = n
<1>1. PICK w \in Nat : w = h * h /\ n \in 0..(w - 1) /\ n \in Int
  <2>1. h * h \in Nat
    OBVIOUS
  <2> QED BY <2>1
<1>2. PICK q \in Int, r \in 0..(h - 1) : q = n \div h /\ r = n % h /\ n = q * h + r
      /\ q * h \in Int
  BY <1>1, DivMod
<1>3. q >= 0
  <2>1. SUFFICES ASSUME q <= -1 PROVE FALSE
    BY <1>2
  <2>2. q * h <= -1 * h
    BY <2>1, Times
  <2> QED BY <1>1, <1>2, <2>2
<1>4. q < h
  <2>1. SUFFICES ASSUME h <= q PROVE FALSE
    BY <1>2
  <2>2. h * h <= q * h
    BY <1>2, <2>1, Times
  <2> QED BY <1>1, <1>2, <2>2
<1>5. q % h = q
  <2>1. PICK k \in Int : k = 0 /\ k * h = 0
    OBVIOUS
  <2>2. k * h <= q /\ q < k * h + h
    BY <1>2, <1>3, <1>4, <2>1
  <2>3. q % h = q - k * h
    BY <1>2, <2>2, DivIs
  <2> QED BY <1>2, <2>1, <2>3
<1> QED BY <1>2, <1>5

\* One register of Xosera is written, and another one is not.
LEMMA OtherPort ==
  ASSUME Here, NEW r \in 0..28, NEW q \in 0..28, q # r,
         Wrote(cpu.mem, cpu'.mem, 1, XOSERA_ADDRESS + r)
  PROVE  cpu'.mem[XOSERA_ADDRESS + q] = cpu.mem[XOSERA_ADDRESS + q]
<1>1. PICK x \in Nat, a \in Nat \ {0} : x = XOSERA_ADDRESS /\ a = AddressSpace /\ x + 32 <= a
  BY RoomIs DEF Here
<1>2. PICK d \in Int, b \in 0..(a - 1) : d = q - r /\ b = x + q /\ d = b - (x + r) /\ d # 0
      /\ -a < d /\ d < a
  BY <1>1
<1>3. d % a >= 1
  <2>1. CASE d > 0
    <3>1. PICK n \in Int : n = 0 /\ n * a = 0
      OBVIOUS
    <3>2. n * a <= d /\ d < n * a + a
      BY <1>2, <2>1, <3>1
    <3>3. d % a = d - n * a
      BY <3>2, DivIs
    <3> QED BY <1>2, <2>1, <3>1, <3>3
  <2>2. CASE d < 0
    <3>1. PICK n \in Int : n = -1 /\ n * a = -a
      OBVIOUS
    <3>2. n * a <= d /\ d < n * a + a
      BY <1>2, <2>2, <3>1
    <3>3. d % a = d - n * a
      BY <3>2, DivIs
    <3> QED BY <1>2, <2>2, <3>1, <3>3
  <2> QED BY <1>2, <2>1, <2>2
<1>4. b \in Space /\ ~((b - (x + r)) % a < 1)
  BY <1>1, <1>2, <1>3 DEF Space
<1> QED BY <1>1, <1>2, <1>4 DEF Wrote

\* A register of Xosera does not go around.
LEMMA PortIs ==
  ASSUME Here, NEW r \in 0..28
  PROVE  /\ (XOSERA_ADDRESS + r) % AddressSpace = XOSERA_ADDRESS + r
         /\ XOSERA_ADDRESS + r \in Range0(4)
            /\ Masked(4, XOSERA_ADDRESS + r) = XOSERA_ADDRESS + r
<1>1. PICK x \in Nat, a \in Nat \ {0} : x = XOSERA_ADDRESS /\ a = AddressSpace /\ x + 32 <= a
  BY RoomIs DEF Here
<1>2. PICK b \in Int : b = x + r /\ b \in 0..(a - 1)
  BY <1>1
<1>3. PICK n \in Int : n = 0 /\ n * a = 0
  OBVIOUS
<1>4. n * a <= b /\ b < n * a + a
  BY <1>2, <1>3
<1>5. b % a = b
  <2>1. b % a = b - n * a
    BY <1>4, DivIs
  <2> QED BY <1>2, <1>3, <2>1
<1>6. b \in Range0(4)
  <2>1. PICK w \in Nat : w = Mod(4) /\ a \in 64..w
    BY <1>1, LongIs, AddressAssumption
  <2> QED BY <1>2, <2>1 DEF Range0
<1> QED BY <1>1, <1>2, <1>5, <1>6, LongIs

\* move.b d0,e(a1).
BasedByte(k, e, v) ==
  /\ TestStep(k) /\ TestLine(k) = Move_(1, D(0), Di(e, 1)) /\ k + 4 \in TestOffsets /\ Based
  /\ cpu.d[0] = v /\ v \in Range0(1)

\* A byte goes to a register of Xosera.
LEMMA TestBytes ==
  ASSUME NEW k \in Int, NEW e \in {24, 26}, NEW v, BasedByte(k, e, v)
  PROVE  /\ cpu'.pc = Org + (k + 4) /\ Based' /\ cpu'.d = cpu.d
         /\ cpu'.mem[XOSERA_ADDRESS + e] = v /\ Here /\ Shows /\ Instr = TestLine(k)
         /\ Wrote(cpu.mem, cpu'.mem, 1, XOSERA_ADDRESS + e)
         /\ \A q \in 0..28 \ {e} : cpu'.mem[XOSERA_ADDRESS + q] = cpu.mem[XOSERA_ADDRESS + q]
<1>1. PICK i : /\ i = TestLine(k) /\ i = Move_(1, D(0), Di(e, 1)) /\ TestStep(k) /\ Based
               /\ v = cpu.d[0] /\ v \in Range0(1)
  BY DEF BasedByte
<1>2. /\ i.name = "move" /\ i.z = 1 /\ i.form = "di" /\ i.ea.mode = "d" /\ i.ea.r = 0
      /\ i.to.mode = "di" /\ i.to.r = 1 /\ i.to.e = e
  BY <1>1, MoveForm, OperandForm, DiForm
<1>3. Runs(i) /\ i = Instr /\ Shows
  BY <1>1, <1>2, TestRuns
<1>4. MoveHandlers(i) /\ IsInstruction(i) /\ Here
  BY <1>2, <1>3 DEF Runs, Own
<1>5. i.to.e \in Range0(2) /\ Near(i.to) = XOSERA_ADDRESS + e
  <2>1. PICK o : o = i.to /\ o.r = 1 /\ o.e = e /\ o.mode = "di"
    BY <1>2
  <2>2. o.r \in Registers /\ o.e \in 0..28 /\ cpu.a[o.r] = XOSERA_ADDRESS
    BY <1>1, <2>1 DEF Registers, Based
  <2>3. o.e \in Range0(2) /\ Near(o) = XOSERA_ADDRESS + o.e
    BY <1>4, <2>2, XoseraNear
  <2> QED BY <2>1, <2>3
<1>6. Ahead(4) = Org + (k + 4)
  BY <1>1, TestGoes DEF BasedByte
<1>7. /\ Becomes(cpu', cpu.d, cpu.a, cpu'.mem, Org + (k + 4))
      /\ Wrote(cpu.mem, cpu'.mem, 1, XOSERA_ADDRESS + e)
      /\ cpu'.mem[(XOSERA_ADDRESS + e) % AddressSpace] = Masked(1, cpu.d[0])
  BY <1>2, <1>4, <1>5, <1>6, MoveByte DEF Here
<1>8. Masked(1, v) = v
  BY <1>1, SizeIs, MaskedSame
<1>9. cpu'.mem[XOSERA_ADDRESS + e] = v
  <2>1. e \in 0..28
    OBVIOUS
  <2> QED BY <1>1, <1>4, <1>7, <1>8, <2>1, PortIs
<1>10. Spared(24) /\ cpu'.pc = Org + (k + 4) /\ cpu'.d = cpu.d /\ cpu'.a = cpu.a
  <2>1. PICK l \in Depths, z \in 1..4 : l = 24 /\ z = 1 /\ e \in 0..(32 - z)
    BY DEF Depths
  <2> QED BY <1>4, <1>7, <2>1, WriteSpares
<1>11. ASSUME NEW q \in 0..28, q # e
       PROVE  cpu'.mem[XOSERA_ADDRESS + q] = cpu.mem[XOSERA_ADDRESS + q]
  <2>1. PICK r \in 0..28 : r = e
    OBVIOUS
  <2>2. Here /\ Wrote(cpu.mem, cpu'.mem, 1, XOSERA_ADDRESS + r)
    BY <1>4, <1>7, <2>1
  <2> QED BY <2>1, <2>2, <1>11, OtherPort
<1> QED BY <1>1, <1>3, <1>4, <1>7, <1>9, <1>10, <1>11, BasedStays

-----------------------------------------------------------------------------
(* Up to the loop.                                                         *)

\* move.l #0,d0 and movep.w d0,XM_WR_INCR(a1).
LEMMA TestZero == ASSUME TestStep(88), Based, OnScreen(0) PROVE cpu'.pc = Org + 94
/\ Based' /\ OnScreen(0)'
<1>1. PICK k \in Int, v, r \in Registers : k = 88 /\ v = 0 /\ r = 0 /\ k + 6 = 94
  BY DEF Registers
<1>2. BasedMove(k, v, r)
  BY <1>1, ClearScreenIs DEF BasedMove, TestLine, TestOffsets
<1>3. cpu'.pc = Org + (k + 6) /\ Based' /\ screen' = screen
  BY <1>2, TestMoves
<1> QED BY <1>1, <1>3, StillDrawn

\* The address of Xosera does not move by itself.
LEMMA TestIncrement ==
  ASSUME TestStep(94), Based, OnScreen(0) PROVE cpu'.pc = Org + 98 /\ Based' /\ OnScreen(0)'
<1>1. PICK k \in Int, x \in Registers, e \in {16, 20} : k = 94 /\ x = 0 /\ e = 16 /\ k + 4 = 98
  BY DEF Registers
<1>2. BasedMovep(k, x, e)
  BY <1>1, ClearScreenIs DEF BasedMovep, TestLine, TestOffsets
<1>3. cpu'.pc = Org + (k + 4) /\ Based' /\ screen' = screen
  BY <1>2, TestMoveps
<1> QED BY <1>1, <1>3, StillDrawn

\* move.l #characters,d3.
LEMMA TestNumbers ==
  ASSUME TestStep(98), Based, OnScreen(0)
  PROVE  cpu'.pc = Org + 104 /\ Based' /\ OnScreen(0)' /\ cpu'.d[3] = Characters
<1>1. PICK k \in Int, r \in Registers : k = 98 /\ r = 3 /\ k + 6 = 104
  BY DEF Registers
<1>2. BasedMove(k, Characters, r)
  BY <1>1, ClearScreenIs DEF BasedMove, TestLine, TestOffsets
<1>3. cpu'.pc = Org + (k + 6) /\ Based' /\ screen' = screen /\ cpu'.d[r] = Characters
  BY <1>2, TestMoves
<1> QED BY <1>1, <1>3, StillDrawn

\* move.l #0,d4.
LEMMA TestRounds ==
  ASSUME TestStep(104), Based, OnScreen(0), cpu.d[3] = Characters
  PROVE  cpu'.pc = Org + 110 /\ Draws(0, Characters - 0, 0)'
<1>1. PICK k \in Int, v, r \in Registers : k = 104 /\ v = 0 /\ r = 4 /\ k + 6 = 110
  BY DEF Registers
<1>2. BasedMove(k, v, r)
  BY <1>1, ClearScreenIs DEF BasedMove, TestLine, TestOffsets
<1>3. /\ cpu'.pc = Org + (k + 6) /\ Based' /\ screen' = screen /\ cpu'.d[r] = v
      /\ \A q \in Registers \ {r} : cpu'.d[q] = cpu.d[q]
  BY <1>2, TestMoves
<1>4. cpu'.d[3] = Characters - 0
  BY <1>1, <1>3, CharactersAre DEF Registers
<1> QED BY <1>1, <1>3, <1>4, StillDrawn DEF Draws

-----------------------------------------------------------------------------
\* A line of the loop.
Drawing(k, n) == TestStep(k) /\ n \in 0..(Characters - 1)

\* movep.w d4,XM_WR_ADDR(a1).
LEMMA LoopAddresses ==
  ASSUME NEW n, Drawing(110, n), Draws(n, Characters - n, n)
  PROVE  cpu'.pc = Org + 114 /\ Draws(n, Characters - n, n)' /\ Addressed(n)'
<1>1. PICK k \in Int, x \in Registers, e \in {16, 20} : k = 110 /\ x = 4 /\ e = 20 /\ k + 4 = 114
  BY DEF Registers
<1>2. BasedMovep(k, x, e)
  BY <1>1, ClearScreenIs DEF BasedMovep, TestLine, TestOffsets, Draws, Drawing
<1>3. /\ cpu'.pc = Org + (k + 4) /\ Based' /\ screen' = screen /\ cpu'.d = cpu.d
      /\ cpu'.mem[XOSERA_ADDRESS + e] = ByteOf(2, cpu.d[x], 0)
      /\ cpu'.mem[XOSERA_ADDRESS + e + 2] = ByteOf(2, cpu.d[x], 1)
  BY <1>2, TestMoveps
<1>4. PICK h \in Nat \ {0} : h = Mod(1) /\ n \in 0..(h * h - 1)
  <2>1. PICK h \in Nat \ {0}, w \in Nat, c \in Nat :
          h = Mod(1) /\ w = h * h /\ c = Characters /\ c \in 1..w
    BY CharactersAre
  <2>2. n \in 0..(w - 1)
    BY <2>1 DEF Drawing
  <2> QED BY <2>1, <2>2
<1>5. n \in Int /\ cpu.d[x] = n
  BY <1>1, <1>4 DEF Draws
<1>6. ByteOf(2, n, 0) = (n \div h) % h /\ ByteOf(2, n, 1) = n % h
  BY <1>4, <1>5, BytesOf
<1>7. ((n \div h) % h) * h + (n % h) = n
  BY <1>4, TwoBytes
<1>8. XOSERA_ADDRESS + e + 2 = XOSERA_ADDRESS + 22
  BY <1>1, TestAssumption
<1>9. Addressed(n)'
  BY <1>1, <1>3, <1>4, <1>5, <1>6, <1>7, <1>8 DEF Addressed
<1> QED BY <1>1, <1>3, <1>9, StillDrawn DEF Draws

\* move.l 4(a0),d0.
LEMMA LoopColor ==
  ASSUME NEW n, Drawing(114, n), Draws(n, Characters - n, n), Addressed(n)
  PROVE  /\ cpu'.pc = Org + 118 /\ Draws(n, Characters - n, n)' /\ Addressed(n)'
         /\ cpu'.d[0] = Color
<1>1. PICK k \in Int, e \in {4, 8} : k = 114 /\ e = 4 /\ k + 4 = 118
  OBVIOUS
<1>2. BasedLoad(k, e)
  BY <1>1, ClearScreenIs DEF BasedLoad, TestLine, TestOffsets, Draws, Drawing
<1>3. /\ cpu'.pc = Org + (k + 4) /\ Based' /\ screen' = screen /\ cpu'.mem = cpu.mem
      /\ cpu'.d[0] = Color /\ \A q \in Registers \ {0} : cpu'.d[q] = cpu.d[q]
  BY <1>1, <1>2, TestLoads
<1>4. cpu'.d[3] = cpu.d[3] /\ cpu'.d[4] = cpu.d[4]
  BY <1>3 DEF Registers
<1> QED BY <1>1, <1>3, <1>4, StillDrawn DEF Draws, Addressed

\* move.l 8(a0),d0.
LEMMA LoopCharacter ==
  ASSUME NEW n, Drawing(122, n), Draws(n, Characters - n, n), Addressed(n),
         cpu.mem[XOSERA_ADDRESS + 24] = Color
  PROVE  /\ cpu'.pc = Org + 126 /\ Draws(n, Characters - n, n)' /\ Addressed(n)'
         /\ cpu'.mem[XOSERA_ADDRESS + 24] = Color /\ cpu'.d[0] = Character
<1>1. PICK k \in Int, e \in {4, 8} : k = 122 /\ e = 8 /\ e # 4 /\ k + 4 = 126
  OBVIOUS
<1>2. BasedLoad(k, e)
  BY <1>1, ClearScreenIs DEF BasedLoad, TestLine, TestOffsets, Draws, Drawing
<1>3. /\ cpu'.pc = Org + (k + 4) /\ Based' /\ screen' = screen /\ cpu'.mem = cpu.mem
      /\ cpu'.d[0] = Character /\ \A q \in Registers \ {0} : cpu'.d[q] = cpu.d[q]
  BY <1>1, <1>2, TestLoads
<1>4. cpu'.d[3] = cpu.d[3] /\ cpu'.d[4] = cpu.d[4]
  BY <1>3 DEF Registers
<1> QED BY <1>1, <1>3, <1>4, StillDrawn DEF Draws, Addressed

-----------------------------------------------------------------------------
(* A round of the loop.                                                    *)

\* A byte to the low half of XM_DATA shows a word, one to the high half does not.
LEMMA PortAddress ==
  ASSUME Here, NEW o, o.r \in Registers, o.e \in {24, 26}, cpu.a[o.r] = XOSERA_ADDRESS
  PROVE  Masked(4, cpu.a[o.r] + MakeInt(2, o.e)) = XOSERA_ADDRESS + o.e
<1>1. PICK e \in 0..28 : e = o.e
  OBVIOUS
<1>2. o.e \in Range0(2) /\ Near(o) = XOSERA_ADDRESS + o.e
  BY <1>1, XoseraNear
<1>3. MakeInt(2, o.e) = Signed(2, o.e)
  BY <1>2, SizeIs, SignedIs
<1>4. Masked(4, XOSERA_ADDRESS + e) = XOSERA_ADDRESS + e
  BY PortIs
<1> QED BY <1>1, <1>2, <1>3, <1>4 DEF Near

\* A byte of a register of Xosera.
LEMMA PortRead ==
  ASSUME Here, NEW m, NEW register \in {20, 24}, NEW byte \in {0, 1}
  PROVE  Port(m, register, byte) = m.mem[XOSERA_ADDRESS + register + 2 * byte]
<1>1. PICK r \in 0..28 : r = register + 2 * byte
  OBVIOUS
<1>2. (XOSERA_ADDRESS + r) % AddressSpace = XOSERA_ADDRESS + r
  BY PortIs
<1>3. XOSERA_ADDRESS + register + 2 * byte = XOSERA_ADDRESS + r
  BY <1>1, TestAssumption
<1> QED BY <1>2, <1>3 DEF Port

\* move.b d0,XM_DATA(a1).
LEMMA LoopHigh ==
  ASSUME NEW n, Drawing(118, n), Draws(n, Characters - n, n), Addressed(n), cpu.d[0] = Color
  PROVE  /\ cpu'.pc = Org + 122 /\ Draws(n, Characters - n, n)' /\ Addressed(n)'
         /\ cpu'.mem[XOSERA_ADDRESS + 24] = Color
<1>1. PICK k \in Int, e \in {24, 26} : k = 118 /\ e = 24 /\ k + 4 = 122
  OBVIOUS
<1>2. BasedByte(k, e, Color)
  BY <1>1, ClearScreenIs, TestAssumption DEF BasedByte, TestLine, TestOffsets, Draws, Drawing
<1>3. /\ cpu'.pc = Org + (k + 4) /\ Based' /\ cpu'.d = cpu.d
      /\ cpu'.mem[XOSERA_ADDRESS + e] = Color /\ Here /\ Shows /\ Instr = TestLine(k)
      /\ \A q \in 0..28 \ {e} : cpu'.mem[XOSERA_ADDRESS + q] = cpu.mem[XOSERA_ADDRESS + q]
  BY <1>2, TestBytes
<1>4. PICK i : i = Instr /\ i = Move_(1, D(0), Di(e, 1))
  BY <1>2, <1>3 DEF BasedByte
<1>5. i.to.r = 1 /\ i.to.e = 24
  BY <1>1, <1>4, MoveForm, DiForm
<1>6. Masked(4, cpu.a[i.to.r] + MakeInt(2, i.to.e)) = XOSERA_ADDRESS + 24
  <2>1. PICK o : o = i.to /\ o.r = 1 /\ o.e = 24
    BY <1>5
  <2>2. o.r \in Registers /\ o.e \in {24, 26} /\ cpu.a[o.r] = XOSERA_ADDRESS
    BY <2>1 DEF Registers, Draws, Based
  <2>3. Masked(4, cpu.a[o.r] + MakeInt(2, o.e)) = XOSERA_ADDRESS + o.e
    BY <1>3, <2>2, PortAddress
  <2> QED BY <2>1, <2>3
<1>7. XOSERA_ADDRESS + 24 # XOSERA_ADDRESS + XM_DATA + 2
  BY TestAssumption DEF XM_DATA
<1>8. screen' = screen
  <2>1. ~(/\ code = TestCode /\ Instr.name = "move" /\ Instr.to.mode = "di"
          /\ Masked(4, cpu.a[Instr.to.r] + MakeInt(2,
                 Instr.to.e)) = XOSERA_ADDRESS + XM_DATA + 2)
    BY <1>4, <1>6, <1>7
  <2> QED BY <1>3, <2>1 DEF Shows
<1>9. Addressed(n)'
  BY <1>1, <1>3 DEF Addressed
<1> QED BY <1>1, <1>3, <1>8, <1>9, StillDrawn DEF Draws

\* One character more is on the screen.
LEMMA Drawn ==
  ASSUME NEW n \in Nat, OnScreen(n),
         screen' = [b \in DOMAIN screen \cup {n} |-> IF b = n THEN <<Color,
             Character>> ELSE screen[b]]
  PROVE  OnScreen(n + 1)'
<1>1. DOMAIN screen = 0..(n - 1) /\ \A b \in 0..(n - 1) : screen[b] = <<Color, Character>>
  BY DEF OnScreen
<1>2. DOMAIN screen \cup {n} = 0..((n + 1) - 1)
  BY <1>1
<1> QED BY <1>1, <1>2 DEF OnScreen

\* move.b d0,XM_DATA+2(a1).
LEMMA LoopLow ==
  ASSUME NEW n, Drawing(126, n), Draws(n, Characters - n, n), Addressed(n),
         cpu.mem[XOSERA_ADDRESS + 24] = Color, cpu.d[0] = Character
  PROVE  cpu'.pc = Org + 130 /\ Draws(n, Characters - n, n + 1)'
<1>1. PICK k \in Int, e \in {24, 26} : k = 126 /\ e = 26 /\ k + 4 = 130
  OBVIOUS
<1>2. BasedByte(k, e, Character)
  BY <1>1, ClearScreenIs, TestAssumption DEF BasedByte, TestLine, TestOffsets, Draws, Drawing
<1>3. /\ cpu'.pc = Org + (k + 4) /\ Based' /\ cpu'.d = cpu.d
      /\ cpu'.mem[XOSERA_ADDRESS + e] = Character /\ Here /\ Shows /\ Instr = TestLine(k)
      /\ \A q \in 0..28 \ {e} : cpu'.mem[XOSERA_ADDRESS + q] = cpu.mem[XOSERA_ADDRESS + q]
  BY <1>2, TestBytes
<1>4. PICK i : i = Instr /\ i = Move_(1, D(0), Di(e, 1))
  BY <1>2, <1>3 DEF BasedByte
<1>5. i.name = "move" /\ i.to.mode = "di" /\ i.to.r = 1 /\ i.to.e = 26
  BY <1>1, <1>4, MoveForm, DiForm
<1>6. Masked(4, cpu.a[i.to.r] + MakeInt(2, i.to.e)) = XOSERA_ADDRESS + 26
  <2>1. PICK o : o = i.to /\ o.r = 1 /\ o.e = 26
    BY <1>5
  <2>2. o.r \in Registers /\ o.e \in {24, 26} /\ cpu.a[o.r] = XOSERA_ADDRESS
    BY <2>1 DEF Registers, Draws, Based
  <2>3. Masked(4, cpu.a[o.r] + MakeInt(2, o.e)) = XOSERA_ADDRESS + o.e
    BY <1>3, <2>2, PortAddress
  <2> QED BY <2>1, <2>3
<1>7. XOSERA_ADDRESS + 26 = XOSERA_ADDRESS + XM_DATA + 2
  BY TestAssumption DEF XM_DATA
<1>8. PICK g, t : /\ g = Address(cpu') /\ t = <<Port(cpu', XM_DATA, 0), Port(cpu', XM_DATA, 1)>>
                  /\ screen' = [b \in DOMAIN screen \cup {g} |-> IF b = g THEN t ELSE screen[b]]
  <2>1. /\ code = TestCode /\ Instr.name = "move" /\ Instr.to.mode = "di"
        /\ Masked(4, cpu.a[Instr.to.r] + MakeInt(2, Instr.to.e)) = XOSERA_ADDRESS + XM_DATA + 2
    BY <1>4, <1>5, <1>6, <1>7 DEF Drawing, TestStep
  <2>2. PICK g, t : g = Address(cpu') /\ t = <<Port(cpu', XM_DATA, 0), Port(cpu', XM_DATA, 1)>>
    OBVIOUS
  <2>3. screen' = [b \in DOMAIN screen \cup {g} |-> IF b = g THEN t ELSE screen[b]]
    BY <1>3, <2>1, <2>2, Zenon DEF Shows
  <2> QED BY <2>2, <2>3
<1>9. g = n
  <2>1. Port(cpu', 20, 0) = cpu'.mem[XOSERA_ADDRESS + 20]
        /\ Port(cpu', 20, 1) = cpu'.mem[XOSERA_ADDRESS + 22]
    <3>1. XOSERA_ADDRESS + 20 + 2 * 0 = XOSERA_ADDRESS + 20
          /\ XOSERA_ADDRESS + 20 + 2 * 1 = XOSERA_ADDRESS + 22
      BY TestAssumption
    <3>2. /\ Port(cpu', 20, 0) = cpu'.mem[XOSERA_ADDRESS + 20 + 2 * 0]
          /\ Port(cpu', 20, 1) = cpu'.mem[XOSERA_ADDRESS + 20 + 2 * 1]
      BY <1>3, PortRead
    <3> QED BY <3>1, <3>2
  <2>2. /\ cpu'.mem[XOSERA_ADDRESS + 20] = cpu.mem[XOSERA_ADDRESS + 20]
        /\ cpu'.mem[XOSERA_ADDRESS + 22] = cpu.mem[XOSERA_ADDRESS + 22]
    BY <1>1, <1>3
  <2> QED BY <1>8, <2>1, <2>2 DEF Address, XM_WR_ADDR, Addressed
<1>10. t = <<Color, Character>>
  <2>1. Port(cpu', 24, 0) = cpu'.mem[XOSERA_ADDRESS + 24]
        /\ Port(cpu', 24, 1) = cpu'.mem[XOSERA_ADDRESS + 26]
    <3>1. XOSERA_ADDRESS + 24 + 2 * 0 = XOSERA_ADDRESS + 24
          /\ XOSERA_ADDRESS + 24 + 2 * 1 = XOSERA_ADDRESS + 26
      BY TestAssumption
    <3>2. /\ Port(cpu', 24, 0) = cpu'.mem[XOSERA_ADDRESS + 24 + 2 * 0]
          /\ Port(cpu', 24, 1) = cpu'.mem[XOSERA_ADDRESS + 24 + 2 * 1]
      BY <1>3, PortRead
    <3> QED BY <3>1, <3>2
  <2>2. cpu'.mem[XOSERA_ADDRESS + 24] = Color /\ cpu'.mem[XOSERA_ADDRESS + 26] = Character
    BY <1>1, <1>3
  <2> QED BY <1>8, <2>1, <2>2 DEF XM_DATA
<1>11. OnScreen(n + 1)'
  <2>1. n \in Nat
    BY CharactersAre DEF Drawing
  <2> QED BY <1>8, <1>9, <1>10, <2>1, Drawn DEF Draws
<1> QED BY <1>1, <1>3, <1>11 DEF Draws

-----------------------------------------------------------------------------
\* addq.l #1,d4 and subq.l #1,d3.
QuickLine(k, word, r, v) ==
  /\ TestStep(k) /\ TestLine(k) = OneMore(word, 1, D(r)) /\ word \in {"addq", "subq"}
  /\ k + 2 \in TestOffsets /\ Based /\ v \in Range0(4)
  /\ v = (IF word = "addq" THEN cpu.d[r] + 1 ELSE cpu.d[r] - 1)

\* A register goes one up or down, and Z tells whether it is 0.
LEMMA TestQuick ==
  ASSUME NEW k \in Int, NEW word, NEW r \in Registers, NEW v, QuickLine(k, word, r, v)
  PROVE  /\ cpu'.pc = Org + (k + 2) /\ Based' /\ screen' = screen /\ cpu'.d[r] = v
         /\ \A q \in Registers \ {r} : cpu'.d[q] = cpu.d[q]
         /\ (cpu'.f.z = 1) <=> v = 0
<1>1. PICK i : i = TestLine(k) /\ i = OneMore(word, 1, D(r)) /\ TestStep(k) /\ Based
  BY DEF QuickLine
<1>2. i.name = word /\ i.z = 4 /\ i.q = 1 /\ i.ea.mode = "d" /\ i.ea.r = r /\ i.form = ""
  <2>1. PICK o, q : o = D(r) /\ o.mode = "d" /\ o.r = r /\ q = 1
    BY OperandForm
  <2>2. i = [Plain EXCEPT !.name = word, !.form = "", !.q = q, !.ea = o]
    BY <1>1, <2>1 DEF OneMore
  <2>3. i.name = word /\ i.z = 4 /\ i.q = q /\ i.ea = o /\ i.form = ""
    BY <2>2 DEF Plain
  <2> QED BY <2>1, <2>3
<1>3. i.name \in {"addq", "subq"} /\ i.name # "movep" /\ i.name # "move"
  BY <1>2 DEF QuickLine
<1>4. Runs(i)
  BY <1>1, <1>3, TestRuns
<1>5. Handlers(i) /\ IsInstruction(i) /\ Here /\ screen' = screen
  BY <1>3, <1>4 DEF Runs
<1>6. /\ Becomes(cpu', [cpu.d EXCEPT ![r] = Masked(4, QuickSum(i))], cpu.a, cpu.mem, Ahead(2))
      /\ (cpu'.f.z = 1) <=> Masked(4, QuickSum(i)) = 0
  BY <1>2, <1>3, <1>5, QuickBecomes DEF Here
<1>7. QuickSum(i) = v
  BY <1>2 DEF QuickSum, QuickLine
<1>8. Masked(4, v) = v
  BY LongIs DEF QuickLine
<1>9. Ahead(2) = Org + (k + 2)
  BY <1>1, TestGoes DEF QuickLine
<1>10. Becomes(cpu', [cpu.d EXCEPT ![r] = v], cpu.a, cpu.mem, Org + (k + 2))
  BY <1>6, <1>7, <1>8, <1>9
<1>11. /\ Spared(24) /\ cpu'.pc = Org + (k + 2) /\ cpu'.a = cpu.a /\ cpu'.d[r] = v
       /\ \A q \in Registers \ {r} : cpu'.d[q] = cpu.d[q]
  <2>1. PICK l \in Depths : l = 24
    BY DEF Depths
  <2> QED BY <1>5, <1>10, <2>1, LoadSpares
<1> QED BY <1>1, <1>5, <1>6, <1>7, <1>8, <1>11, BasedStays

\* The next address.
LEMMA LoopNext ==
  ASSUME NEW n, Drawing(130, n), Draws(n, Characters - n, n + 1)
  PROVE  cpu'.pc = Org + 132 /\ Draws(n + 1, Characters - n, n + 1)'
<1>1. PICK k \in Int, r \in Registers : k = 130 /\ r = 4 /\ k + 2 = 132
  BY DEF Registers
<1>2. n \in Nat /\ n + 1 \in Range0(4)
  <2>1. PICK w \in Nat, c \in Nat : c = Characters /\ c \in 1..w
        /\ \A u \in 0..w : u \in Range0(4)
    BY CharactersAre
  <2>2. n \in Nat /\ n + 1 \in 0..w
    BY <2>1 DEF Drawing
  <2> QED BY <2>1, <2>2
<1>3. QuickLine(k, "addq", r, n + 1)
  BY <1>1, <1>2, ClearScreenIs DEF QuickLine, TestLine, TestOffsets, Draws, Drawing
<1>4. /\ cpu'.pc = Org + (k + 2) /\ Based' /\ screen' = screen /\ cpu'.d[r] = n + 1
      /\ \A q \in Registers \ {r} : cpu'.d[q] = cpu.d[q]
  BY <1>3, TestQuick
<1>5. cpu'.d[3] = cpu.d[3]
  BY <1>1, <1>4 DEF Registers
<1> QED BY <1>1, <1>4, <1>5, StillDrawn DEF Draws

\* One character less.
LEMMA LoopLess ==
  ASSUME NEW n, Drawing(132, n), Draws(n + 1, Characters - n, n + 1)
  PROVE  /\ cpu'.pc = Org + 134 /\ Draws(n + 1, Characters - n - 1, n + 1)'
         /\ (cpu'.f.z = 1) <=> Characters - n - 1 = 0
<1>1. PICK k \in Int, r \in Registers : k = 132 /\ r = 3 /\ k + 2 = 134
  BY DEF Registers
<1>2. Characters - n - 1 \in Range0(4)
  <2>1. PICK w \in Nat, c \in Nat : c = Characters /\ c \in 1..w
        /\ \A u \in 0..w : u \in Range0(4)
    BY CharactersAre
  <2>2. c - n - 1 \in 0..w
    BY <2>1 DEF Drawing
  <2> QED BY <2>1, <2>2
<1>6. PICK v : v = Characters - n - 1
  OBVIOUS
<1>3. QuickLine(k, "subq", r, v)
  BY <1>1, <1>6, <1>2, ClearScreenIs DEF QuickLine, TestLine, TestOffsets, Draws, Drawing
<1>4. /\ cpu'.pc = Org + (k + 2) /\ Based' /\ screen' = screen /\ cpu'.d[r] = v
      /\ \A q \in Registers \ {r} : cpu'.d[q] = cpu.d[q]
      /\ (cpu'.f.z = 1) <=> v = 0
  BY <1>3, TestQuick
<1>5. cpu'.d[4] = cpu.d[4]
  BY <1>1, <1>4 DEF Registers
<1> QED BY <1>1, <1>4, <1>5, <1>6, StillDrawn DEF Draws

\* bne to the next character, until there is none.
LEMMA LoopTurns ==
  ASSUME NEW n, Drawing(134, n), Draws(n + 1, Characters - n - 1, n + 1),
         (cpu.f.z = 1) <=> Characters - n - 1 = 0
  PROVE  \/ /\ cpu'.pc = Org + 110 /\ n + 1 \in 0..(Characters - 1)
            /\ Draws(n + 1, Characters - (n + 1), n + 1)'
         \/ cpu'.pc = Org + 138 /\ Framed' /\ OnScreen(Characters)'
<1>1. PICK k, i : k = 134 /\ k \in Int /\ i = TestLine(k) /\ i = Bne(58, 34) /\ TestStep(k)
  BY ClearScreenIs DEF TestLine, Drawing
<1>2. i.name = "bcc" /\ i.z = 2 /\ i.cc = "ne" /\ i.q = Masked(2, -26)
  <2>1. 34 - 58 - 2 = -26
    OBVIOUS
  <2> QED BY <1>1, <2>1, BneForm
<1>3. Runs(i)
  BY <1>1, <1>2, TestRuns
<1>4. bcc_16(i) /\ IsInstruction(i) /\ Here /\ screen' = screen
  BY <1>2, <1>3 DEF Runs, Own, bcc_8, Does
<1>5. Becomes(cpu', cpu.d, cpu.a, cpu.mem,
              IF Condition(i.cc, cpu.f) THEN Ahead(2 + Signed(2, i.q)) ELSE Ahead(4))
  BY <1>4, BccBecomes DEF Here
<1>6. 2 + Signed(2, i.q) = -24
  <2>1. PICK t \in 1..128 : t = 26
    OBVIOUS
  <2>2. Signed(2, Masked(2, -t)) = -t
    BY BackIs
  <2> QED BY <1>2, <2>1, <2>2
<1>7. Ahead(-24) = Org + 110 /\ Ahead(4) = Org + 138
  <2>1. PICK j \in Int, l \in TestOffsets, e \in Int, m \in TestOffsets :
          j = -24 /\ l = 110 /\ l = k + j /\ e = 4 /\ m = 138 /\ m = k + e
    BY <1>1 DEF TestOffsets
  <2>2. Ahead(j) = Org + l /\ Ahead(e) = Org + m
    BY <1>1, <2>1, TestGoes
  <2> QED BY <2>1, <2>2
<1>8. Condition(i.cc, cpu.f) <=> ~(Characters - n - 1 = 0)
  <2>1. cpu.f.z \in {0, 1}
    BY <1>4, MachineIs DEF Here, Flags
  <2>2. Condition("ne", cpu.f) <=> cpu.f.z = 0
    BY Zenon DEF Condition
  <2> QED BY <1>2, <2>1, <2>2
<1>9. PICK c : /\ Becomes(cpu', cpu.d, cpu.a, cpu.mem, c)
               /\ c = IF Characters - n - 1 = 0 THEN Org + 138 ELSE Org + 110
  BY <1>5, <1>6, <1>7, <1>8
<1>10. Spared(24) /\ cpu'.pc = c /\ cpu'.d = cpu.d /\ cpu'.a = cpu.a
  BY <1>4, <1>9, RestSpares DEF Depths
<1>11. Based' /\ OnScreen(n + 1)'
  BY <1>4, <1>10, BasedStays, StillDrawn DEF Draws
<1>12. PICK s \in Nat : s = Characters /\ n \in 0..(s - 1)
  BY CharactersAre DEF Drawing
<1>13. CASE Characters - n - 1 = 0
  BY <1>9, <1>10, <1>11, <1>12, <1>13 DEF Based
<1>14. CASE Characters - n - 1 # 0
  <2>1. n + 1 \in 0..(Characters - 1) /\ Characters - (n + 1) = Characters - n - 1
    BY <1>12, <1>14
  <2> QED BY <1>9, <1>10, <1>11, <1>14, <2>1 DEF Draws
<1> QED BY <1>13, <1>14

-----------------------------------------------------------------------------
(* The way back.                                                           *)

\* movem.l (a7)+,d2-d4.
LEMMA TestRestores ==
  ASSUME TestStep(138), Framed, OnScreen(Characters) PROVE cpu'.pc = Org + 142 /\ Finishes(12)'
<1>1. PICK i : i = TestLine(138) /\ i = Movem("er", Pi(7), {2, 3, 4})
  BY ClearScreenIs DEF TestLine
<1>2. i.name = "movem" /\ i.z = 4 /\ i.form = "er" /\ i.ea.mode = "pi" /\ i.ea.r = 7
      /\ i.regs = {2, 3, 4}
  BY <1>1, MovemForm, OperandForm
<1>3. Runs(i)
  BY <1>1, <1>2, TestRuns
<1>4. Own(i) /\ IsInstruction(i) /\ Here /\ screen' = screen
  BY <1>2, <1>3 DEF Runs
<1>5. movem_32_er_pi(i)
  BY <1>2, <1>4
     DEF Own, SaveHandlers, RestoreHandlers, Does, movem_16_re_pd, movem_32_re_pd, movem_16_re,
         movem_32_re, movem_16_er_pi, movem_16_er, movem_32_er, Control
<1>6. TakesThree({2, 3, 4}, 2, 3, 4)
  <2>1. InOrder(i.regs, 2, 3, 4) /\ 4 # 15
    BY <1>2 DEF InOrder
  <2>2. TakesThree(i.regs, 2, 3, 4)
    BY <1>2, <1>4, <1>5, <2>1, RestoreBecomes DEF Here
  <2> QED BY <1>2, <2>2
<1>7. Ahead(4) = Org + 142
  <2>1. 4 \in Int /\ 142 \in TestOffsets /\ 142 = 138 + 4
    BY DEF TestOffsets
  <2> QED BY <2>1, TestGoes
<1>8. Stacked(12)' /\ cpu'.pc = Ahead(4)
  BY <1>4, <1>6, RestoreStacks DEF Here, Framed
<1> QED BY <1>4, <1>7, <1>8, StillDrawn DEF Finishes

\* rts.
LEMMA TestReturns == ASSUME TestStep(142), Finishes(12) PROVE cpu'.pc = Org + 68 /\ Finishes(8)'
<1>1. PICK i : i = TestLine(142) /\ i = [Plain EXCEPT !.name = "rts"]
  BY ClearScreenIs DEF TestLine
<1>2. i.name = "rts"
  BY <1>1 DEF Plain
<1>3. Runs(i)
  BY <1>1, <1>2, TestRuns
<1>4. rts_32(i) /\ Here /\ screen' = screen
  BY <1>2, <1>3 DEF Runs, Own
<1>5. PICK c : c = LongIn(cpu.mem, cpu.a[7])
      /\ Becomes(cpu', cpu.d, StackedA(cpu.a, 4), cpu.mem, c)
  BY <1>3, <1>4, RtsBecomes DEF Here, Runs
<1>6. c = Org + 68
  <2>1. PICK k \in Int, t \in Int : k = 12 /\ t = StackAt(k) /\ t = cpu.a[7]
    BY <1>4, StackIs DEF Here, Finishes, Stacked
  <2>2. Moves1(k, k, t)
    BY <2>1 DEF Moves1
  <2>3. cpu.mem \in [Space -> Range0(1)]
    BY <1>4, MachineIs DEF Here
  <2>4. LongIn(cpu.mem, t) = OnStack(k)
    BY <1>4, <2>2, <2>3, StackReads DEF OnStack, Here
  <2> QED BY <1>5, <2>1, <2>4 DEF Finishes, Stacked
<1>7. PICK k, n, l : k = 12 /\ n = 4 /\ l = 8 /\ Pops(k, n, l, c)
  BY <1>4, <1>5 DEF Pops, Here
<1>8. Stacked(l)' /\ cpu'.pc = c
  BY <1>7, PopStacks DEF Finishes
<1> QED BY <1>4, <1>6, <1>7, <1>8, StillDrawn DEF Finishes

\* addq.l #8,a7.
LEMMA TestDrops == ASSUME TestStep(68), Finishes(8) PROVE cpu'.pc = Org + 70 /\ Finishes(0)'
<1>1. PICK i, o : i = TestLine(68) /\ o = A(7) /\ o.mode = "a" /\ o.r = 7
      /\ i = OneMore("addq", 8, o)
  BY MainIs, OperandForm DEF TestLine
<1>2. i.name = "addq" /\ i.z = 4 /\ i.q = 8 /\ i.ea.mode = "a" /\ i.ea.r = 7 /\ i.form = "a"
  <2>1. i = [Plain EXCEPT !.name = "addq", !.form = "a", !.q = 8, !.ea = o]
    BY <1>1 DEF OneMore
  <2> QED BY <1>1, <2>1 DEF Plain
<1>3. Runs(i)
  BY <1>1, <1>2, TestRuns
<1>4. Own(i) /\ Here /\ screen' = screen
  BY <1>2, <1>3 DEF Runs
<1>5. addq_16_a(i) \/ addq_32_a(i)
  BY <1>2, <1>4 DEF Own
<1>6. Ahead(2) = Org + 70
  <2>1. 2 \in Int /\ 70 \in TestOffsets /\ 70 = 68 + 2
    BY DEF TestOffsets
  <2> QED BY <2>1, TestGoes
<1>7. PICK c : c = Org + 70 /\ Becomes(cpu', cpu.d, StackedA(cpu.a, 8), cpu.mem, c)
  BY <1>2, <1>4, <1>5, <1>6, AddqBecomes DEF Here
<1>8. PICK k, n, l : k = 8 /\ n = 8 /\ l = 0 /\ Pops(k, n, l, c)
  BY <1>4, <1>7 DEF Pops, Here
<1>9. Stacked(l)' /\ cpu'.pc = c
  BY <1>8, PopStacks DEF Finishes
<1> QED BY <1>4, <1>7, <1>8, <1>9, StillDrawn DEF Finishes

\* jmp to itself.
LEMMA TestStays == ASSUME TestStep(70), Finishes(0) PROVE cpu'.pc = Org + 70 /\ Finishes(0)'
<1>1. PICK i : i = TestLine(70) /\ i = [Plain EXCEPT !.name = "jmp", !.ea = At(Org + 70)]
  BY MainIs DEF TestLine
<1>2. i.name = "jmp" /\ i.ea.mode = "al" /\ i.ea.e = Org + 70
  <2>1. i.name = "jmp" /\ i.ea = At(Org + 70)
    BY <1>1 DEF Plain
  <2> QED BY <2>1, OperandForm
<1>3. Runs(i)
  BY <1>1, <1>2, TestRuns
<1>4. jmp_32(i) /\ IsInstruction(i) /\ Here /\ screen' = screen
  BY <1>2, <1>3 DEF Runs, Own
<1>5. Becomes(cpu', cpu.d, cpu.a, cpu.mem, Org + 70)
  BY <1>2, <1>4, JmpBecomes DEF Here
<1>6. Spared(0) /\ cpu'.pc = Org + 70
  BY <1>4, <1>5, RestSpares DEF Depths
<1> QED BY <1>4, <1>6, StillStacked, StillDrawn DEF Finishes

-----------------------------------------------------------------------------
(* Every line leads to a line.                                             *)

\* Where a line leads to.
Leads == \E l \in TestOffsets : cpu'.pc = Org + l /\ Phase(l)'

\* A line of the wait has nothing to show but the pointer.
LEMMA WaitPhase == ASSUME NEW l \in WaitLines, Waits' PROVE l \in TestOffsets /\ Phase(l)'
<1>1. /\ l \in TestOffsets /\ l \notin RoundLines
      /\ l \notin {0, 56, 62, 76, 78, 82, 88, 94, 98, 104, 138, 142, 68, 70}
  BY DEF WaitLines, RoundLines, TestOffsets
<1> QED BY <1>1 DEF Phase

\* A line of the loop has nothing to show but its round.
LEMMA RoundPhase ==
  ASSUME NEW l \in RoundLines, NEW n \in 0..(Characters - 1), Round(l, n)'
  PROVE  l \in TestOffsets /\ Phase(l)'
<1>1. /\ l \in TestOffsets /\ l \notin WaitLines
      /\ l \notin {0, 56, 62, 76, 78, 82, 88, 94, 98, 104, 138, 142, 68, 70}
  BY DEF WaitLines, RoundLines, TestOffsets
<1> QED BY <1>1 DEF Phase

\* From the start to the end of the wait.
LEMMA LeadsWaiting ==
  ASSUME NEW k \in {0} \cup WaitLines, TestStep(k), Phase(k)
  PROVE  Leads
<1>1. CASE k = 0
  <2>1. cpu'.pc = Org + 6 /\ Waits'
    BY <1>1, TestBegins DEF Phase
  <2>2. 6 \in WaitLines
    BY DEF WaitLines
  <2> QED BY <2>1, <2>2, WaitPhase DEF Leads
<1>2. CASE k \in WaitLines \ {50}
  <2>1. Waits
    BY <1>2 DEF Phase
  <2>2. PICK l \in WaitLines : StillWaiting(l)
    BY <1>2, <2>1, WaitGoesOn
  <2> QED BY <2>2, WaitPhase DEF Leads, StillWaiting
<1>3. CASE k = 50
  <2>1. 50 \in WaitLines /\ 56 \in TestOffsets
    BY DEF WaitLines, TestOffsets
  <2>2. cpu'.pc = Org + 56 /\ Given(4)'
    BY <1>3, <2>1, TestCharacter DEF Phase
  <2>3. Phase(56)'
    BY <2>2 DEF Phase, WaitLines, RoundLines
  <2> QED BY <2>1, <2>2, <2>3 DEF Leads
<1> QED BY <1>1, <1>2, <1>3

\* From there to the frame of xcls.
LEMMA LeadsCalling ==
  ASSUME NEW k \in {56, 62, 76, 78, 82}, TestStep(k), Phase(k)
  PROVE  Leads
<1>1. 62 \in TestOffsets /\ 76 \in TestOffsets /\ 78 \in TestOffsets /\ 82 \in TestOffsets
      /\ 88 \in TestOffsets
  BY DEF TestOffsets
<1>2. CASE k = 56
  <2>1. cpu'.pc = Org + 62 /\ Given(8)'
    BY <1>2, TestColor DEF Phase
  <2>2. Phase(62)'
    BY <2>1 DEF Phase, WaitLines, RoundLines
  <2> QED BY <1>1, <2>1, <2>2 DEF Leads
<1>3. CASE k = 62
  <2>1. cpu'.pc = Org + 76 /\ Given(12)'
    BY <1>3, TestCalls DEF Phase
  <2>2. Phase(76)'
    BY <2>1 DEF Phase, WaitLines, RoundLines
  <2> QED BY <1>1, <2>1, <2>2 DEF Leads
<1>4. CASE k = 76
  <2>1. cpu'.pc = Org + 78 /\ Given(12)' /\ cpu'.a[0] = StackAt(12)'
    BY <1>4, TestPoints DEF Phase
  <2>2. Phase(78)'
    BY <2>1 DEF Phase, WaitLines, RoundLines
  <2> QED BY <1>1, <2>1, <2>2 DEF Leads
<1>5. CASE k = 78
  <2>1. cpu'.pc = Org + 82 /\ Framed' /\ OnScreen(0)'
    BY <1>5, TestSaves DEF Phase
  <2>2. Phase(82)'
    BY <2>1 DEF Phase, WaitLines, RoundLines
  <2> QED BY <1>1, <2>1, <2>2 DEF Leads
<1>6. CASE k = 82
  <2>1. cpu'.pc = Org + 88 /\ Based' /\ OnScreen(0)'
    BY <1>6, TestBases DEF Phase
  <2>2. Phase(88)'
    BY <2>1 DEF Phase, WaitLines, RoundLines
  <2> QED BY <1>1, <2>1, <2>2 DEF Leads
<1> QED BY <1>2, <1>3, <1>4, <1>5, <1>6

\* From there to the loop.
LEMMA LeadsClearing ==
  ASSUME NEW k \in {88, 94, 98, 104}, TestStep(k), Phase(k)
  PROVE  Leads
<1>1. 94 \in TestOffsets /\ 98 \in TestOffsets /\ 104 \in TestOffsets
  BY DEF TestOffsets
<1>2. CASE k = 88
  <2>1. cpu'.pc = Org + 94 /\ Based' /\ OnScreen(0)'
    BY <1>2, TestZero DEF Phase
  <2>2. Phase(94)'
    BY <2>1 DEF Phase, WaitLines, RoundLines
  <2> QED BY <1>1, <2>1, <2>2 DEF Leads
<1>3. CASE k = 94
  <2>1. cpu'.pc = Org + 98 /\ Based' /\ OnScreen(0)'
    BY <1>3, TestIncrement DEF Phase
  <2>2. Phase(98)'
    BY <2>1 DEF Phase, WaitLines, RoundLines
  <2> QED BY <1>1, <2>1, <2>2 DEF Leads
<1>4. CASE k = 98
  <2>1. cpu'.pc = Org + 104 /\ Based' /\ OnScreen(0)' /\ cpu'.d[3] = Characters
    BY <1>4, TestNumbers DEF Phase
  <2>2. Phase(104)'
    BY <2>1 DEF Phase, WaitLines, RoundLines
  <2> QED BY <1>1, <2>1, <2>2 DEF Leads
<1>5. CASE k = 104
  <2>1. cpu'.pc = Org + 110 /\ Draws(0, Characters - 0, 0)'
    BY <1>5, TestRounds DEF Phase
  <2>2. PICK l \in RoundLines, n \in 0..(Characters - 1) : l = 110 /\ n = 0
    BY CharactersAre DEF RoundLines
  <2>3. Round(l, n)'
    BY <2>1, <2>2 DEF Round
  <2> QED BY <2>1, <2>2, <2>3, RoundPhase DEF Leads
<1> QED BY <1>2, <1>3, <1>4, <1>5

\* From the end of the loop to the end.
LEMMA LeadsEnding ==
  ASSUME NEW k \in {138, 142, 68, 70}, TestStep(k), Phase(k)
  PROVE  Leads
<1>1. 142 \in TestOffsets /\ 68 \in TestOffsets /\ 70 \in TestOffsets
  BY DEF TestOffsets
<1>2. CASE k = 138
  <2>1. cpu'.pc = Org + 142 /\ Finishes(12)'
    BY <1>2, TestRestores DEF Phase
  <2>2. Phase(142)'
    BY <2>1 DEF Phase, WaitLines, RoundLines
  <2> QED BY <1>1, <2>1, <2>2 DEF Leads
<1>3. CASE k = 142
  <2>1. cpu'.pc = Org + 68 /\ Finishes(8)'
    BY <1>3, TestReturns DEF Phase
  <2>2. Phase(68)'
    BY <2>1 DEF Phase, WaitLines, RoundLines
  <2> QED BY <1>1, <2>1, <2>2 DEF Leads
<1>4. Finishes(0)' => Phase(70)'
  BY DEF Phase, WaitLines, RoundLines
<1>5. CASE k = 68
  BY <1>1, <1>4, <1>5, TestDrops DEF Phase, Leads
<1>6. CASE k = 70
  BY <1>1, <1>4, <1>6, TestStays DEF Phase, Leads
<1> QED BY <1>2, <1>3, <1>5, <1>6

\* Around the loop, and out of it.
LEMMA LeadsAround ==
  ASSUME NEW k \in RoundLines, TestStep(k), Phase(k)
  PROVE  Leads
<1>1. PICK n \in 0..(Characters - 1) : Round(k, n)
  BY DEF Phase
<1>2. Drawing(k, n)
  BY DEF Drawing
<1>3. \A l \in RoundLines : cpu'.pc = Org + l /\ Round(l, n)' => Leads
  BY RoundPhase DEF Leads
<1>4. /\ 114 \in RoundLines /\ 118 \in RoundLines /\ 122 \in RoundLines /\ 126 \in RoundLines
      /\ 130 \in RoundLines /\ 132 \in RoundLines /\ 134 \in RoundLines
  BY DEF RoundLines
<1>5. CASE k = 110
  <2>1. cpu'.pc = Org + 114 /\ Draws(n, Characters - n, n)' /\ Addressed(n)'
    BY <1>1, <1>2, <1>5, LoopAddresses DEF Round
  <2>2. Round(114, n)'
    BY <2>1 DEF Round
  <2> QED BY <1>3, <1>4, <2>1, <2>2
<1>6. CASE k = 114
  <2>1. cpu'.pc = Org + 118 /\ Draws(n, Characters - n, n)' /\ Addressed(n)' /\ cpu'.d[0] = Color
    BY <1>1, <1>2, <1>6, LoopColor DEF Round
  <2>2. Round(118, n)'
    BY <2>1 DEF Round
  <2> QED BY <1>3, <1>4, <2>1, <2>2
<1>7. CASE k = 118
  <2>1. /\ cpu'.pc = Org + 122 /\ Draws(n, Characters - n, n)' /\ Addressed(n)'
        /\ cpu'.mem[XOSERA_ADDRESS + 24] = Color
    BY <1>1, <1>2, <1>7, LoopHigh DEF Round
  <2>2. Round(122, n)'
    BY <2>1 DEF Round
  <2> QED BY <1>3, <1>4, <2>1, <2>2
<1>8. CASE k = 122
  <2>1. /\ cpu'.pc = Org + 126 /\ Draws(n, Characters - n, n)' /\ Addressed(n)'
        /\ cpu'.mem[XOSERA_ADDRESS + 24] = Color /\ cpu'.d[0] = Character
    BY <1>1, <1>2, <1>8, LoopCharacter DEF Round
  <2>2. Round(126, n)'
    BY <2>1 DEF Round
  <2> QED BY <1>3, <1>4, <2>1, <2>2
<1>9. CASE k = 126
  <2>1. cpu'.pc = Org + 130 /\ Draws(n, Characters - n, n + 1)'
    BY <1>1, <1>2, <1>9, LoopLow DEF Round
  <2>2. Round(130, n)'
    BY <2>1 DEF Round
  <2> QED BY <1>3, <1>4, <2>1, <2>2
<1>10. CASE k = 130
  <2>1. cpu'.pc = Org + 132 /\ Draws(n + 1, Characters - n, n + 1)'
    BY <1>1, <1>2, <1>10, LoopNext DEF Round
  <2>2. Round(132, n)'
    BY <2>1 DEF Round
  <2> QED BY <1>3, <1>4, <2>1, <2>2
<1>11. CASE k = 132
  <2>1. /\ cpu'.pc = Org + 134 /\ Draws(n + 1, Characters - n - 1, n + 1)'
        /\ (cpu'.f.z = 1) <=> Characters - n - 1 = 0
    BY <1>1, <1>2, <1>11, LoopLess DEF Round
  <2>2. Round(134, n)'
    BY <2>1 DEF Round
  <2> QED BY <1>3, <1>4, <2>1, <2>2
<1>12. CASE k = 134
  <2>1. \/ /\ cpu'.pc = Org + 110 /\ n + 1 \in 0..(Characters - 1)
           /\ Draws(n + 1, Characters - (n + 1), n + 1)'
        \/ cpu'.pc = Org + 138 /\ Framed' /\ OnScreen(Characters)'
    BY <1>1, <1>2, <1>12, LoopTurns DEF Round
  <2>2. ASSUME cpu'.pc = Org + 110, n + 1 \in 0..(Characters - 1),
               Draws(n + 1, Characters - (n + 1), n + 1)'
        PROVE  Leads
    <3>1. PICK l \in RoundLines, m \in 0..(Characters - 1) : l = 110 /\ m = n + 1
      BY <2>2 DEF RoundLines
    <3>2. Round(l, m)'
      BY <2>2, <3>1 DEF Round
    <3> QED BY <2>2, <3>1, <3>2, RoundPhase DEF Leads
  <2>3. ASSUME cpu'.pc = Org + 138, Framed', OnScreen(Characters)'
        PROVE  Leads
    <3>1. 138 \in TestOffsets /\ Phase(138)'
      BY <2>3 DEF Phase, WaitLines, RoundLines, TestOffsets
    <3> QED BY <2>3, <3>1 DEF Leads
  <2> QED BY <2>1, <2>2, <2>3
<1> QED BY <1>5, <1>6, <1>7, <1>8, <1>9, <1>10, <1>11, <1>12 DEF RoundLines

\* Every line.
LEMMA TestLeads == ASSUME NEW k, TestStep(k), Phase(k) PROVE Leads
<1>1. k \in TestOffsets
  BY DEF TestStep
<1>2. \/ k \in {0} \cup WaitLines \/ k \in {56, 62, 76, 78, 82} \/ k \in {88, 94, 98, 104}
      \/ k \in RoundLines \/ k \in {138, 142, 68, 70}
  BY <1>1 DEF TestOffsets, WaitLines, RoundLines
<1> QED BY <1>2, LeadsWaiting, LeadsCalling, LeadsClearing, LeadsAround, LeadsEnding

-----------------------------------------------------------------------------
(* The screen is cleared.                                                  *)

\* At the start there is no character on the screen.
LEMMA ScreenStarts == ASSUME screen = <<>> PROVE OnScreen(0)
<1>1. DOMAIN screen = {} /\ screen = [b \in DOMAIN screen |-> screen[b]]
  BY DEF OnScreen
<1>2. 0..(0 - 1) = {}
  OBVIOUS
<1> QED BY <1>1, <1>2 DEF OnScreen

\* The test program starts so.
LEMMA ClearStarts == ASSUME InitTest PROVE ClearInv
<1>1. IInv
  BY Initially
<1>2. start = cpu /\ cpu.pc = Org /\ start \in Machine
  <2>1. PICK m \in Images(code) : cpu = [m EXCEPT !.pc = Org]
    BY DEF InitTest, Init
  <2>2. m \in Machine
    BY <1>1, ProgramAssumption DEF IInv
  <2> QED BY <1>1, <2>1, <2>2 DEF Machine, InitTest, Init, IInv, TypeOK
<1>3. cpu.pc = Org + 0 /\ 0 \in TestOffsets
  BY <1>2, ProgramAssumption, LongsAreInt DEF TestOffsets
<1>4. Given(0)
  <2>1. OnScreen(0)
    BY ScreenStarts DEF InitTest
  <2>2. Stacked(0)
    BY <1>2, StackIs DEF Stacked
  <2> QED BY <2>1, <2>2 DEF Given
<1>5. Phase(0)
  BY <1>4 DEF Phase, WaitLines, RoundLines
<1> QED BY <1>3, <1>5 DEF ClearInv

\* Nothing changes.
LEMMA PhaseStays == ASSUME cpu' = cpu, start' = start, screen' = screen, NEW k,
Phase(k) PROVE Phase(k)'
<1>1. \A j : Stacked(j)' <=> Stacked(j)
  BY DEF Stacked, StackAt, OnStack
<1>2. \A j : OnScreen(j)' <=> OnScreen(j)
  BY DEF OnScreen
<1>3. StackAt(12)' = StackAt(12)
  BY DEF StackAt
<1>4. \A j : Given(j)' <=> Given(j)
  BY <1>1, <1>2 DEF Given
<1>5. (Waits' <=> Waits) /\ (Framed' <=> Framed) /\ (Based' <=> Based)
  BY <1>1, <1>3, <1>4 DEF Waits, Framed, Based
<1>6. \A j : Finishes(j)' <=> Finishes(j)
  BY <1>1, <1>2 DEF Finishes
<1>7. \A j : Round(k, j)' <=> Round(k, j)
  BY <1>2, <1>5 DEF Round, Draws, Addressed
<1> QED BY <1>2, <1>3, <1>4, <1>5, <1>6, <1>7 DEF Phase

\* Every step keeps it so.
LEMMA ClearStays == ASSUME IInv, IInv', ClearInv, [Next]_vars PROVE ClearInv'
<1>1. SUFFICES ASSUME code' = TestCode,
          HasRoom' PROVE \E l \in TestOffsets : cpu'.pc = Org + l /\ Phase(l)'
  BY DEF ClearInv
<1>2. CASE cpu' = cpu /\ start' = start /\ code' = code /\ screen' = screen
  <2>1. code = TestCode /\ HasRoom
    BY <1>1, <1>2 DEF HasRoom
  <2>2. PICK k \in TestOffsets : cpu.pc = Org + k /\ Phase(k)
    BY <2>1 DEF ClearInv
  <2> QED BY <1>2, <2>2, PhaseStays
<1>3. CASE Next /\ Running
  <2>1. start' = start /\ code' = code
    BY <1>3, StepsRight
  <2>2. code = TestCode /\ HasRoom
    BY <1>1, <2>1 DEF HasRoom
  <2>3. PICK k \in TestOffsets : cpu.pc = Org + k /\ Phase(k)
    BY <2>2 DEF ClearInv
  <2>4. TestStep(k)
    BY <1>3, <2>1, <2>2, <2>3 DEF TestStep, IInv
  <2> QED BY <2>3, <2>4, TestLeads DEF Leads
<1>4. CASE Next /\ ~Running
  <2>1. Ended
    BY <1>4, HandlersAre DEF Next, Handling, Unready
  <2> QED BY <1>2, <2>1 DEF Ended
<1>5. CASE UNCHANGED vars
  BY <1>2, <1>5 DEF vars
<1> QED BY <1>3, <1>4, <1>5

\* At the end the screen is cleared.
LEMMA ClearHolds == ASSUME IInv, ClearInv PROVE ScreenCleared
<1>1. SUFFICES ASSUME code = TestCode, cpu.pc = Org + 70, HasRoom
               PROVE  /\ screen = [at \in 0..(Characters - 1) |-> <<Color, Character>>]
                      /\ cpu.a[7] = start.a[7]
                      /\ \A r \in {2, 3, 4} : cpu.d[r] = start.d[r]
                      /\ \A b \in start.a[7]..(XOSERA_ADDRESS - 1) : cpu.mem[b] = start.mem[b]
  BY DEF ScreenCleared, Done, HasRoom
<1>2. PICK k \in TestOffsets : cpu.pc = Org + k /\ Phase(k)
  BY <1>1 DEF ClearInv
<1>3. k = 70
  <2>1. Org \in Int /\ k \in Int
    BY ProgramAssumption, LongsAreInt DEF TestOffsets
  <2> QED BY <1>1, <1>2, <2>1
<1>4. Stacked(0) /\ OnScreen(Characters)
  BY <1>2, <1>3 DEF Phase, Finishes
<1>5. StackAt(0) = start.a[7]
  BY StackIs DEF IInv, TypeOK
<1> QED BY <1>4, <1>5 DEF Stacked, OnScreen

\* ScreenCleared: at its end the test program has every character in its place, as the parameters
\* on the stack say, and the stack, the registers it saves and the RAM above are as they were.
THEOREM Cleaning == Spec => []ScreenCleared
<1>1. InitTest => ClearInv
  BY ClearStarts
<1>2. IInv /\ IInv' /\ ClearInv /\ [Next]_vars => ClearInv'
  BY ClearStays
<1>3. IInv /\ ClearInv => ScreenCleared
  BY ClearHolds
<1> QED BY <1>1, <1>2, <1>3, Invariant, PTL DEF Spec
=============================================================================
