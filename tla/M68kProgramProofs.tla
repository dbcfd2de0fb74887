------------------------- MODULE M68kProgramProofs --------------------------
(***************************************************************************)
(* What is proved of M68kProgram and TestProgram, for every program,       *)
(* machine, width of a byte and address space that the assumptions allow:  *)
(* the handlers that move several registers or the counter are right too   *)
(* (see M68kHandlersProofs), so the machine keeps its types, every         *)
(* instruction changes what it names and nothing else, and the counter     *)
(* goes where the disassembler says.                                       *)
(***************************************************************************)
EXTENDS M68kHandlersProofs

-----------------------------------------------------------------------------
(* The stack: pea, link and unlk.                                          *)

\* Like Stepped, but for k bytes of the memory.
Kept(m, n, As, k, w) ==
  /\ n \in Machine /\ n.d = m.d /\ n.f = m.f /\ n.trap = m.trap
  /\ \A r \in Registers : n.a[r] = m.a[r] \/ r \in As
  /\ Cardinality(Differing(m, n)) <= k
  /\ n.pc = Masked(4, m.pc + 2 * w)

\* Operands were found: no byte was written.
LEMMA KeptStepped ==
  ASSUME NEW m \in Machine, NEW n, NEW As, NEW w, Stepped(m, n, As, w)
  PROVE  Kept(m, n, As, 0, w)
<1>1. Cardinality(Differing(m, n)) = 0
  BY SameBytes DEF Stepped
<1> QED BY <1>1 DEF Stepped, Kept

\* An address register more.
LEMMA KeptPutA ==
  ASSUME NEW m \in Machine, NEW n, NEW As, NEW k, NEW w, Kept(m, n, As, k, w),
         NEW r \in Registers, NEW v \in Int, NEW p, p = PutA(n, r, v)
  PROVE  Kept(m, p, As \cup {r}, k, w) /\ p.a[r] = Masked(4, v)
<1>1. PICK u \in Range0(4) : u = Masked(4, v)
  BY SizeIs, MaskedRange
<1>2. n \in Machine
  BY DEF Kept
<1>3. p = [n EXCEPT !.a[r] = u]
  BY <1>1 DEF PutA
<1>4. /\ p \in Machine /\ p.d = n.d /\ p.mem = n.mem /\ p.pc = n.pc /\ p.f = n.f
      /\ p.trap = n.trap /\ p.a = [n.a EXCEPT ![r] = u]
  BY <1>2, <1>3 DEF Machine
<1>5. n.a \in [Registers -> Range0(4)]
  BY <1>2, MachineIs
<1>6. p.a[r] = u /\ \A x \in Registers : x # r => p.a[x] = n.a[x]
  BY <1>4, <1>5
<1>7. Differing(m, p) = Differing(m, n)
  BY <1>4 DEF Differing
<1> QED BY <1>1, <1>4, <1>6, <1>7 DEF Kept

\* Words more.
LEMMA KeptSkip ==
  ASSUME NEW m \in Machine, NEW n, NEW As, NEW k, NEW w \in Nat, Kept(m, n, As, k, w),
         NEW v \in Nat, NEW p, p = Skip(n, v)
  PROVE  Kept(m, p, As, k, w + v)
<1>1. n \in Machine
  BY DEF Kept
<1>2. Stepped(n, p, {}, v)
  BY <1>1, SkipSteps
<1>3. Differing(m, p) = Differing(m, n)
  BY <1>2 DEF Differing, Stepped
<1>4. p.pc = Masked(4, m.pc + 2 * (w + v))
  <2>1. m.pc + 2 * w \in Int /\ 2 * v \in Int
    BY MachineIs
  <2>2. Masked(4, Masked(4, m.pc + 2 * w) + 2 * v) = Masked(4, (m.pc + 2 * w) + 2 * v)
    BY <2>1, SizeIs, MaskedSum
  <2>3. (m.pc + 2 * w) + 2 * v = m.pc + 2 * (w + v)
    BY MachineIs
  <2> QED BY <1>2, <2>2, <2>3 DEF Stepped, Kept
<1> QED BY <1>2, <1>3, <1>4 DEF Stepped, Kept

\* A write: as many bytes as it has.
LEMMA KeptWrite ==
  ASSUME NEW m \in Machine, NEW n, NEW As, NEW w, Stepped(m, n, As, w),
         NEW z \in Sizes, NEW at \in Int, NEW v \in Int, NEW p, p = Write(n, z, at, v)
  PROVE  Kept(m, p, As, z, w) /\ p.a = n.a
<1>1. n \in Machine /\ n.mem = m.mem
  BY DEF Stepped
<1>2. /\ p \in Machine /\ p.d = n.d /\ p.a = n.a /\ p.pc = n.pc /\ p.f = n.f /\ p.trap = n.trap
      /\ \A b \in Space : p.mem[b] = IF (b - at) % AddressSpace < z
                                         THEN ByteOf(z, v, (b - at) % AddressSpace)
                                         ELSE n.mem[b]
  BY <1>1, WriteIs
<1>3. \A b \in Space : p.mem[b] # m.mem[b] => (b - at) % AddressSpace < z
  BY <1>1, <1>2
<1>4. Cardinality(Differing(m, p)) <= z
  BY <1>3, BytesWritten DEF Sizes
<1> QED BY <1>2, <1>4 DEF Stepped, Kept

\* A push: A7 and a long.
LEMMA PushKeeps ==
  ASSUME NEW m \in Machine, NEW n, NEW As, NEW w, Stepped(m, n, As, w), NEW v \in Int,
         NEW p, p = Push(n, v)
  PROVE  Kept(m, p, As \cup {7}, 4, w) /\ p.a[7] \in Range0(4)
<1>1. PICK t \in Int : t = n.a[7] - 4
  BY MachineIs DEF Stepped, Registers
<1>a. 7 \in Registers
  BY DEF Registers
<1>b. PICK r : r = 7
  OBVIOUS
<1>2. PICK q, Bs : q = PutA(n, r, t) /\ Bs = As \cup {r}
  OBVIOUS
<1>3. Stepped(m, q, Bs, w) /\ q.a[r] = Masked(4, t)
  <2>1. r \in Registers
    BY <1>a, <1>b
  <2>2. Stepped(m, q, As \cup {r}, w) /\ q.a[r] = Masked(4, t)
    BY <1>1, <1>2, <2>1, PutASteps
  <2> QED BY <1>2, <2>2
<1>4. PICK sp \in Int : sp = Masked(4, t) /\ sp \in Range0(4)
  BY <1>1, SizeIs, MaskedRange, LongIs
<1>5. p = Write(q, 4, sp, v)
  <2>1. n.a[7] - 4 = t
    BY <1>1
  <2>2. q = [n EXCEPT !.a[7] = Masked(4, t)]
    BY <1>b, <1>2 DEF PutA
  <2> QED BY <1>4, <2>1, <2>2 DEF Push, PutA
<1>6. Kept(m, p, Bs, 4, w) /\ p.a = q.a
  BY <1>3, <1>4, <1>5, KeptWrite, SizeIs
<1>7. p.a[7] \in Range0(4)
  BY <1>b, <1>3, <1>4, <1>6
<1> QED BY <1>b, <1>2, <1>6, <1>7

\* A handler that keeps everything else is right.
LEMMA KeptRight ==
  ASSUME cpu \in Machine, NEW i, IsInstruction(i), NEW As, NEW k, NEW w, Kept(cpu, cpu', As,
         k, w),
         As \subseteq AddressNamed(i), Bytes(i) \in Nat, k \in Nat, k <= Bytes(i),
         i.name \notin Elsewhere,
         i.ea.more = 0 /\ i.to.more = 0 => Disassembled(i) = 2 * w
  PROVE  Right(i)
<1>1. PICK Ds, z : Ds = {} /\ z = i.z
  OBVIOUS
<1>2. Changed(cpu, cpu', z, Ds, As, k, w) /\ cpu'.f = cpu.f
  BY DEF Kept, Changed
<1>3. Ds \subseteq DataNamed(i) /\ (i.name \notin Whole => z = i.z \/ i.z = 4)
      /\ cpu'.f.x = cpu.f.x
  BY <1>1, <1>2
<1> QED BY <1>2, <1>3, Concluded

-----------------------------------------------------------------------------
\* pea is right.
LEMMA PeaRight == ASSUME cpu \in Machine, NEW i, IsInstruction(i), pea_32(i)
  PROVE  Right(i)
<1>1. i.name = "pea" /\ i.z = 4 /\ i.ea.mode \in Found /\ i.ea.mode \in Modes \ {"i"}
      /\ i.form = ""
      /\ cpu' = Push(Ea(Fetched, 4, i.ea).m, Ea(Fetched, 4, i.ea).at)
  BY DEF pea_32, Does, Control, Found, Modes
<1>2. PICK o, z : o = i.ea /\ z = 4 /\ z \in Sizes /\ IsOperand(o) /\ o.mode \in Found
  BY <1>1, SizeIs DEF IsInstruction
<1>3. PICK e : e = Ea(Fetched, z, o)
  OBVIOUS
<1>4. PICK v \in Nat : v = 0
  OBVIOUS
<1>5. Stepped(cpu, e.m, Steps(o), (1 + v) + Words(z, o)) /\ e.at \in Range0(4)
  BY <1>2, <1>3, <1>4, EaOn
<1>6. PICK m, n, p, As, w, c : m = cpu /\ m \in Machine /\ n = e.m /\ p = cpu' /\ As = Steps(o)
                               /\ w = (1 + v) + Words(z, o) /\ c = e.at
  OBVIOUS
<1>a. c \in Int
  BY <1>5, <1>6, LongIs
<1>b. p = Push(n, c)
  BY <1>1, <1>2, <1>3, <1>6
<1>c. Stepped(m, n, As, w)
  BY <1>5, <1>6
<1>7. Stepped(m, n, As, w) /\ c \in Int /\ p = Push(n, c)
  BY <1>a, <1>b, <1>c
<1>8. Kept(m, p, As \cup {7}, 4, w)
  BY <1>6, <1>7, PushKeeps
<1>9. i.ea.more = 0 => Disassembled(i) = 2 * w
  <2>1. SUFFICES ASSUME i.ea.more = 0 PROVE Disassembled(i) = 2 * w
    OBVIOUS
  <2>2. PICK u \in Nat : u = Words(z, o) /\ EaModeStr(4, i.ea) = u
    BY <1>1, <1>2, <2>1, EaRead
  <2>3. Disassembled(i) = 2 + 2 * u
    BY <1>1, <2>2 DEF Disassembled, DasmPea
  <2> QED BY <1>4, <1>6, <2>2, <2>3
<1>10. PICK Bs, k : Bs = As \cup {7} /\ k = 4
  OBVIOUS
<1>11. /\ i.name \notin Elsewhere /\ Bs \subseteq AddressNamed(i) /\ Bytes(i) = 4
  BY <1>1, <1>2, <1>6, <1>10 DEF Elsewhere, AddressNamed, Bytes, Stack
<1>12. Kept(cpu, cpu', Bs, k, w) /\ k \in Nat /\ k <= Bytes(i) /\ Bytes(i) \in Nat
  BY <1>6, <1>8, <1>10, <1>11
<1> QED BY <1>9, <1>11, <1>12, KeptRight

\* LINK: the register goes to the stack, takes its address, and makes room.
LEMMA RoomKeeps ==
  ASSUME NEW m \in Machine, NEW n, NEW As, NEW k, NEW w \in Nat, Kept(m, n, As, k, w),
         NEW i, i.q \in Int, NEW p, p = Room(i, n)
  PROVE  Kept(m, p, As \cup {7}, k, w + 1)
<1>1. PICK t \in Int : t = n.a[7] + MakeInt(2, i.q)
  BY MachineIs, MakeIntType, SizeIs DEF Kept, Registers
<1>a. PICK r : r = 7
  OBVIOUS
<1>b. r \in Registers
  BY <1>a DEF Registers
<1>c. PICK v \in Nat : v = 1
  OBVIOUS
<1>2. PICK q : q = Skip(n, v)
  OBVIOUS
<1>3. Kept(m, q, As, k, w + v)
  BY <1>2, KeptSkip
<1>4. p = PutA(q, r, t)
  BY <1>1, <1>a, <1>c, <1>2 DEF Room
<1>5. Kept(m, p, As \cup {r}, k, w + v)
  BY <1>1, <1>b, <1>3, <1>4, KeptPutA
<1> QED BY <1>a, <1>c, <1>5

\* link is right, of A7 too.
LEMMA LinkRight == ASSUME cpu \in Machine, NEW i, IsInstruction(i), link_16(i) \/ link_16_a7(i)
  PROVE  Right(i)
<1>1. i.name = "link" /\ i.z = 2 /\ i.ea.mode = "a" /\ i.form = ""
  BY DEF link_16, link_16_a7, Does
<1>a. i.q \in Range0(2)
  BY <1>1 DEF IsInstruction
<1>b. i.ea.r \in Registers
  BY <1>1 DEF IsInstruction, IsOperand
<1>c. i.q \in Nat
  BY <1>a, MaskedSame, SizeIs
<1>2. PICK r : r = i.ea.r /\ r \in Registers /\ i.q \in Int
  BY <1>b, <1>c
<1>3. PICK m, n, As, p : m = cpu /\ m \in Machine /\ n = Fetched /\ As = {} /\ p = cpu'
  OBVIOUS
<1>4. PICK w \in Nat : w = 1 + 0
  OBVIOUS
<1>5. Stepped(m, n, As, w)
  BY <1>3, <1>4, SkippedOn
<1>6. \E c \in Int : \E q : q = Push(n, c) /\ (p = Room(i, q) \/ p = Room(i, PutA(q, r, q.a[7])))
  <2>1. CASE link_16(i)
    <3>1. PICK c \in Int : c = cpu.a[r]
      BY <1>2, MachineIs
    <3>2. PICK q : q = Push(n, c)
      OBVIOUS
    <3>3. p = Room(i, PutA(q, r, q.a[7]))
      BY <1>2, <1>3, <2>1, <3>1, <3>2 DEF link_16
    <3> QED BY <3>2, <3>3
  <2>2. CASE link_16_a7(i)
    <3>1. Masked(4, cpu.a[7] - 4) \in Int
      <4>1. cpu.a[7] - 4 \in Int
        BY MachineIs DEF Registers
      <4> QED BY <4>1, SizeIs, MaskedRange, LongIs
    <3> QED BY <1>3, <2>2, <3>1 DEF link_16_a7
  <2> QED BY <2>1, <2>2
<1>d. PICK c \in Int : \E q : q = Push(n, c) /\ (p = Room(i, q)
      \/ p = Room(i, PutA(q, r, q.a[7])))
  BY <1>6
<1>7. PICK q : q = Push(n, c) /\ (p = Room(i, q) \/ p = Room(i, PutA(q, r, q.a[7])))
  BY <1>d
<1>8. PICK Bs, k : Bs = As \cup {7} /\ k = 4
  OBVIOUS
<1>9. Kept(m, q, Bs, k, w) /\ q.a[7] \in Int
  <2>1. Kept(m, q, As \cup {7}, 4, w) /\ q.a[7] \in Range0(4)
    BY <1>3, <1>5, <1>7, PushKeeps
  <2> QED BY <1>8, <2>1, LongIs
<1>10. \E Cs : Kept(m, p, Cs, k, w + 1) /\ Cs \subseteq {7, r}
  <2>1. CASE p = Room(i, q)
    <3>1. Kept(m, p, Bs \cup {7}, k, w + 1)
      BY <1>2, <1>3, <1>9, <2>1, RoomKeeps
    <3> QED BY <1>3, <1>8, <3>1
  <2>2. CASE p = Room(i, PutA(q, r, q.a[7]))
    <3>a. PICK y \in Int : y = q.a[7]
      BY <1>9
    <3>1. PICK t, Cs : t = PutA(q, r, y) /\ Cs = Bs \cup {r}
      OBVIOUS
    <3>2. Kept(m, t, Cs, k, w)
      BY <1>2, <1>3, <1>9, <3>1, KeptPutA
    <3>b. p = Room(i, t)
      BY <2>2, <3>a, <3>1
    <3>3. Kept(m, p, Cs \cup {7}, k, w + 1)
      BY <1>2, <1>3, <3>b, <3>2, RoomKeeps
    <3> QED BY <1>3, <1>8, <3>1, <3>3
  <2> QED BY <1>7, <2>1, <2>2
<1>11. PICK Cs, u : Kept(m, p, Cs, k, u) /\ Cs \subseteq {7, r} /\ u = w + 1
  BY <1>10
<1>e. i.name \notin Elsewhere /\ Cs \subseteq AddressNamed(i)
  BY <1>1, <1>2, <1>11 DEF Elsewhere, AddressNamed, Stack
<1>f. Bytes(i) = 4
  BY <1>1 DEF Bytes
<1>g. Disassembled(i) = 4
  <2>1. i.name = "link"
    BY <1>1
  <2>2. DasmJmp(i) = 1
    BY <2>1 DEF DasmJmp, ImmStr
  <2> QED BY <2>1, <2>2 DEF Disassembled
<1>12. /\ i.name \notin Elsewhere /\ Cs \subseteq AddressNamed(i) /\ Bytes(i) = 4
       /\ Disassembled(i) = 2 * u
  BY <1>4, <1>11, <1>e, <1>f, <1>g
<1>13. Kept(cpu, cpu', Cs, k, u) /\ k \in Nat /\ k <= Bytes(i) /\ Bytes(i) \in Nat
  BY <1>3, <1>8, <1>11, <1>12
<1> QED BY <1>12, <1>13, KeptRight

\* UNLK: the stack pointer takes the register, the register what is there.
LEMMA UnlkRight == ASSUME cpu \in Machine, NEW i, IsInstruction(i), unlk_32(i) \/ unlk_32_a7(i)
  PROVE  Right(i)
<1>1. i.name = "unlk" /\ i.z = 4 /\ i.ea.mode = "a" /\ i.form = ""
  BY DEF unlk_32, unlk_32_a7, Does
<1>a. i.ea.r \in Registers
  BY <1>1 DEF IsInstruction, IsOperand
<1>b. 7 \in Registers
  BY DEF Registers
<1>2. PICK r, s : r = i.ea.r /\ r \in Registers /\ s = 7 /\ s \in Registers
  BY <1>a, <1>b
<1>3. PICK m, n, As, p : m = cpu /\ m \in Machine /\ n = Fetched /\ As = {} /\ p = cpu'
  OBVIOUS
<1>4. PICK w \in Nat : w = 1 + 0
  OBVIOUS
<1>5. Stepped(m, n, As, w) /\ n \in Machine
  BY <1>3, <1>4, SkippedOn DEF Stepped
<1>6. \E Cs : Stepped(m, p, Cs, w) /\ Cs \subseteq {s, r}
  <2>1. CASE unlk_32(i)
    <3>a. PICK c \in Int : c = cpu.a[r]
      BY <1>2, MachineIs
    <3>1. PICK t : t = PutA(n, s, c)
      OBVIOUS
    <3>2. Stepped(m, t, As \cup {s}, w)
      BY <1>2, <1>3, <1>5, <3>1, PutASteps
    <3>3. PICK Bs : Bs = As \cup {s} /\ Stepped(m, t, Bs, w) /\ t \in Machine
      BY <3>2 DEF Stepped
    <3>4. t.a[7] + 4 \in Int /\ Read(t, 4, t.a[7]) \in Int
      <4>1. t.a[7] \in Int
        BY <3>3, MachineIs DEF Registers
      <4>2. Read(t, 4, t.a[7]) \in Range0(4)
        BY <3>3, <4>1, ReadRange, SizeIs DEF Read
      <4> QED BY <4>1, <4>2, LongIs
    <3>b. PICK e \in Int : e = t.a[7] + 4
      BY <3>4
    <3>c. PICK y \in Int : y = Read(t, 4, t.a[7])
      BY <3>4
    <3>5. PICK q, Cs : q = PutA(t, s, e) /\ Cs = Bs \cup {s}
      OBVIOUS
    <3>6. Pulled(t, 4) = q
      <4>1. t.a \in [Registers -> Range0(4)]
        BY <3>3, MachineIs
      <4> QED BY <1>2, <3>b, <3>5, <4>1 DEF Pulled, PutA
    <3>7. Stepped(m, q, Cs, w)
      <4>1. Stepped(m, q, Bs \cup {s}, w)
        <5>1. s \in Registers /\ q = PutA(t, s, e) /\ Stepped(m, t, Bs, w) /\ m \in Machine
          BY <1>2, <1>3, <3>3, <3>5
        <5> QED BY <5>1, PutASteps
      <4> QED BY <3>5, <4>1
    <3>8. p = PutA(q, r, y)
      BY <1>2, <1>3, <2>1, <3>a, <3>1, <3>c, <3>6 DEF unlk_32
    <3>9. Stepped(m, p, Cs \cup {r}, w)
      <4>1. r \in Registers /\ p = PutA(q, r, y) /\ Stepped(m, q, Cs, w) /\ m \in Machine
        BY <1>2, <1>3, <3>7, <3>8
      <4> QED BY <4>1, PutASteps
    <3> QED BY <1>3, <3>3, <3>5, <3>9
  <2>2. CASE unlk_32_a7(i)
    <3>0. Read(cpu, 4, cpu.a[7]) \in Int
      <4>1. cpu.a[7] \in Int
        BY MachineIs DEF Registers
      <4>2. Read(cpu, 4, cpu.a[7]) \in Range0(4)
        BY <4>1, ReadRange, SizeIs DEF Read
      <4> QED BY <4>2, LongIs
    <3>1. PICK y \in Int : y = Read(cpu, 4, cpu.a[7])
      BY <3>0
    <3>2. p = PutA(n, s, y)
      BY <1>2, <1>3, <2>2, <3>1 DEF unlk_32_a7
    <3>3. Stepped(m, p, As \cup {s}, w)
      <4>1. s \in Registers /\ p = PutA(n, s, y) /\ Stepped(m, n, As, w) /\ m \in Machine
        BY <1>2, <1>3, <1>5, <3>2
      <4> QED BY <4>1, PutASteps
    <3> QED BY <1>3, <3>3
  <2> QED BY <2>1, <2>2
<1>7. PICK Cs : Stepped(m, p, Cs, w) /\ Cs \subseteq {s, r}
  BY <1>6
<1>8. PICK k : k = 0 /\ Kept(m, p, Cs, k, w)
  BY <1>3, <1>7, KeptStepped
<1>c. i.name \notin Elsewhere /\ Cs \subseteq AddressNamed(i)
  BY <1>1, <1>2, <1>7 DEF Elsewhere, AddressNamed, Stack
<1>d. Bytes(i) = 4
  BY <1>1 DEF Bytes
<1>e. Disassembled(i) = 2
  <2>1. i.name = "unlk"
    BY <1>1
  <2>2. DasmTrapv(i) = 0
    BY <2>1 DEF DasmTrapv
  <2> QED BY <2>1, <2>2 DEF Disassembled
<1>9. /\ i.name \notin Elsewhere /\ Cs \subseteq AddressNamed(i) /\ Bytes(i) = 4
       /\ Disassembled(i) = 2 * w
  BY <1>4, <1>c, <1>d, <1>e
<1>10. Kept(cpu, cpu', Cs, k, w) /\ k \in Nat /\ k <= Bytes(i) /\ Bytes(i) \in Nat
  BY <1>3, <1>8, <1>9
<1> QED BY <1>9, <1>10, KeptRight

-----------------------------------------------------------------------------
(* exg and movep.                                                          *)

\* Registers of Ds and Bs take other longs.
Takes(n, p, Ds, Bs) ==
  \E d \in [Registers -> Range0(4)], a \in [Registers -> Range0(4)] :
    /\ p = [n EXCEPT !.d = d, !.a = a]
    /\ \A r \in Registers : /\ d[r] = n.d[r] \/ r \in Ds
                            /\ a[r] = n.a[r] \/ r \in Bs

\* Whole registers taken are whole registers changed.
LEMMA TakesChange ==
  ASSUME NEW m \in Machine, NEW n, NEW As, NEW w, Stepped(m, n, As, w),
         NEW Ds, NEW Bs, NEW p, Takes(n, p, Ds, Bs)
  PROVE  Changed(m, p, 4, Ds, As \cup Bs, 0, w) /\ p.f = m.f
<1> PICK d \in [Registers -> Range0(4)], a \in [Registers -> Range0(4)] :
        /\ p = [n EXCEPT !.d = d, !.a = a]
        /\ \A r \in Registers : /\ d[r] = n.d[r] \/ r \in Ds
                                /\ a[r] = n.a[r] \/ r \in Bs
  BY DEF Takes
<1>1. n \in Machine
  BY DEF Stepped
<1>2. /\ p \in Machine /\ p.d = d /\ p.a = a /\ p.mem = n.mem /\ p.pc = n.pc /\ p.f = n.f
  BY <1>1 DEF Machine
<1>3. Cardinality(Differing(m, p)) = 0
  BY <1>2, SameBytes DEF Stepped
<1>4. \A r \in Registers : p.d[r] \div Mod(4) = m.d[r] \div Mod(4)
  <2>1. \A r \in Registers : p.d[r] \in Range0(4) /\ m.d[r] \in Range0(4)
    BY <1>2, MachineIs
  <2> QED BY <2>1, LongUpper
<1>5. \A r \in Registers : /\ p.d[r] = m.d[r] \/ r \in Ds
                           /\ p.a[r] = m.a[r] \/ r \in As \cup Bs
  BY <1>2 DEF Stepped
<1> QED BY <1>2, <1>3, <1>4, <1>5 DEF Stepped, Changed

\* A handler that takes whole registers is right.
LEMMA TakesRight ==
  ASSUME cpu \in Machine, NEW i, IsInstruction(i), NEW n, NEW As, NEW w, Stepped(cpu, n, As, w),
         NEW Ds, NEW Bs, Takes(n, cpu', Ds, Bs),
         i.z = 4 \/ i.name \in Whole,
         Ds \subseteq DataNamed(i), As \cup Bs \subseteq AddressNamed(i), Bytes(i) \in Nat,
         i.name \notin Elsewhere,
         i.ea.more = 0 /\ i.to.more = 0 => Disassembled(i) = 2 * w
  PROVE  Right(i)
<1>1. PICK Cs, z, k : Cs = As \cup Bs /\ z = 4 /\ k = 0
  OBVIOUS
<1>2. PICK m, p : m = cpu /\ m \in Machine /\ p = cpu'
  OBVIOUS
<1>3. Stepped(m, n, As, w) /\ Takes(n, p, Ds, Bs)
  BY <1>2
<1>4. Changed(m, p, 4, Ds, As \cup Bs, 0, w) /\ p.f = m.f
  BY <1>2, <1>3, TakesChange
<1>5. Changed(cpu, cpu', z, Ds, Cs, k, w) /\ cpu'.f = cpu.f /\ cpu'.f.x = cpu.f.x
  BY <1>1, <1>2, <1>4
<1>6. Cs \subseteq AddressNamed(i) /\ k \in Nat /\ k <= Bytes(i)
  BY <1>1
<1>7. i.name \notin Whole => z = i.z \/ i.z = 4
  BY <1>1
<1> QED BY <1>5, <1>6, <1>7, Concluded

ExgHandlers(i) == exg_32_dd(i) \/ exg_32_aa(i) \/ exg_32_da(i)

\* exg is right.
LEMMA ExgRight == ASSUME cpu \in Machine, NEW i, IsInstruction(i), ExgHandlers(i)
  PROVE  Right(i)
<1>1. i.name = "exg" /\ i.z = 4 /\ i.ea.mode \in {"d", "a"} /\ i.form \in {"dd", "aa", "da"}
  BY DEF ExgHandlers, exg_32_dd, exg_32_aa, exg_32_da, Does
<1>2. i.x \in Registers /\ i.ea.r \in Registers
  BY <1>1 DEF IsInstruction, IsOperand, HasX
<1>3. PICK x, y : x = i.x /\ y = i.ea.r /\ x \in Registers /\ y \in Registers
  BY <1>2
<1>4. PICK w \in Nat : w = 1 + 0
  OBVIOUS
<1>5. PICK n, As : n = Fetched /\ As = {}
  OBVIOUS
<1>6. Stepped(cpu, n, As, w) /\ n \in Machine /\ n.d = cpu.d /\ n.a = cpu.a
  <2>1. Stepped(cpu, n, As, w) /\ n \in Machine
    BY <1>4, <1>5, SkippedOn
  <2>2. n.d = cpu.d /\ n.a = cpu.a
    BY <1>5 DEF Fetched, Skip, Machine
  <2> QED BY <2>1, <2>2
<1>7. /\ n.d \in [Registers -> Range0(4)] /\ n.a \in [Registers -> Range0(4)]
      /\ n = [d |-> n.d, a |-> n.a, mem |-> n.mem, pc |-> n.pc, f |-> n.f, trap |-> n.trap]
  BY <1>6, MachineIs
<1>10. PICK Ds, Bs : Ds = {x, y} /\ Bs = {x, y}
  OBVIOUS
<1>8. Takes(n, cpu', Ds, Bs)
  <2>1. PICK u, v : u = n.d /\ v = n.a
    OBVIOUS
  <2>2. u \in [Registers -> Range0(4)] /\ v \in [Registers -> Range0(4)]
    BY <1>7, <2>1
  <2>3. CASE exg_32_dd(i)
    <3>1. cpu' = [n EXCEPT !.d[x] = u[y], !.d[y] = u[x]]
      BY <1>3, <1>5, <1>6, <2>1, <2>3 DEF exg_32_dd
    <3>2. PICK d : d = [u EXCEPT ![x] = u[y], ![y] = u[x]]
      OBVIOUS
    <3>3. d \in [Registers -> Range0(4)] /\ \A r \in Registers : d[r] = u[r] \/ r \in {x, y}
      BY <1>3, <2>2, <3>2
    <3>4. cpu' = [n EXCEPT !.d = d, !.a = v]
      BY <1>7, <2>1, <3>1, <3>2
    <3> QED BY <1>10, <2>1, <2>2, <3>3, <3>4 DEF Takes
  <2>4. CASE exg_32_aa(i)
    <3>1. cpu' = [n EXCEPT !.a[x] = v[y], !.a[y] = v[x]]
      BY <1>3, <1>5, <1>6, <2>1, <2>4 DEF exg_32_aa
    <3>2. PICK a : a = [v EXCEPT ![x] = v[y], ![y] = v[x]]
      OBVIOUS
    <3>3. a \in [Registers -> Range0(4)] /\ \A r \in Registers : a[r] = v[r] \/ r \in {x, y}
      BY <1>3, <2>2, <3>2
    <3>4. cpu' = [n EXCEPT !.d = u, !.a = a]
      BY <1>7, <2>1, <3>1, <3>2
    <3> QED BY <1>10, <2>1, <2>2, <3>3, <3>4 DEF Takes
  <2>5. CASE exg_32_da(i)
    <3>1. cpu' = [n EXCEPT !.d[x] = v[y], !.a[y] = u[x]]
      BY <1>3, <1>5, <1>6, <2>1, <2>5 DEF exg_32_da
    <3>2. PICK d, a : d = [u EXCEPT ![x] = v[y]] /\ a = [v EXCEPT ![y] = u[x]]
      OBVIOUS
    <3>3. /\ d \in [Registers -> Range0(4)] /\ \A r \in Registers : d[r] = u[r] \/ r \in {x, y}
          /\ a \in [Registers -> Range0(4)] /\ \A r \in Registers : a[r] = v[r] \/ r \in {x, y}
      BY <1>3, <2>2, <3>2
    <3>4. cpu' = [n EXCEPT !.d = d, !.a = a]
      BY <1>7, <2>1, <3>1, <3>2
    <3> QED BY <1>10, <2>1, <3>3, <3>4 DEF Takes
  <2> QED BY <2>3, <2>4, <2>5 DEF ExgHandlers
<1>11. Ds \subseteq DataNamed(i) /\ As \cup Bs \subseteq AddressNamed(i)
  BY <1>1, <1>3, <1>5, <1>10 DEF DataNamed, AddressNamed
<1>12. Bytes(i) \in Nat /\ i.name \notin Elsewhere
  BY <1>1 DEF Bytes, Elsewhere
<1>13. Disassembled(i) = 2 * w
  <2>1. i.name = "exg"
    BY <1>1
  <2>2. DasmEor(i) = 0
    BY <2>1 DEF DasmEor
  <2> QED BY <1>4, <2>1, <2>2 DEF Disassembled
<1>14. i.z = 4
  BY <1>1
<1> QED BY <1>6, <1>8, <1>11, <1>12, <1>13, <1>14, TakesRight

\* MOVEP to a register.
LEMMA RestoreBytesRight ==
  ASSUME cpu \in Machine, NEW i, IsInstruction(i), movep_16_er(i) \/ movep_32_er(i)
  PROVE  Right(i)
<1>1. i.name = "movep" /\ i.z \in {2, 4} /\ i.ea.mode = "di" /\ i.form = "er"
      /\ cpu' = RestoreBytes(i, i.z)
  BY DEF movep_16_er, movep_32_er, Does
<1>2. PICK o, z, x : o = i.ea /\ z = i.z /\ x = i.x
  OBVIOUS
<1>3. z \in Sizes /\ x \in Registers /\ IsOperand(o) /\ o.mode \in Found /\ o.mode = "di"
  BY <1>1, <1>2 DEF IsInstruction, HasX, Found
<1>4. PICK e : e = Ea(Fetched, z, o)
  OBVIOUS
<1>5. PICK v \in Nat : v = 0
  OBVIOUS
<1>6. Stepped(cpu, e.m, Steps(o), (1 + v) + Words(z, o)) /\ e.at \in Range0(4) /\ e.m \in Machine
  BY <1>3, <1>4, <1>5, EaOn
<1>7. PICK n, As, w : n = e.m /\ As = Steps(o) /\ w = (1 + v) + Words(z, o)
  OBVIOUS
<1>8. Stepped(cpu, n, As, w) /\ n.f = cpu.f
  BY <1>6, <1>7 DEF Stepped
<1>9. PICK c : c = ReadEvery(n, z, e.at, 2)
  OBVIOUS
<1>10. c \in Range0(z)
  BY <1>3, <1>6, <1>7, <1>9, ReadRange, LongIs
<1>11. PICK q : q = Result(c, cpu.f)
  OBVIOUS
<1>12. Typed(z, q) /\ q.f = cpu.f /\ q.v = c
  BY <1>10, <1>11, MachineIs DEF Typed, Result
<1>13. cpu' = Settled(n, z, x, q)
  <2>1. cpu' = PutD(n, z, x, c)
    BY <1>1, <1>2, <1>4, <1>7, <1>9 DEF RestoreBytes
  <2>2. [n EXCEPT !.f = q.f] = n
    BY <1>6, <1>7, <1>8, <1>12 DEF Machine
  <2> QED BY <1>12, <2>1, <2>2 DEF Settled
<1>14. w = 2 /\ As = {}
  BY <1>3, <1>5, <1>7 DEF Words, Steps
<1>15. x \in DataNamed(i) /\ As \subseteq AddressNamed(i)
  BY <1>2, <1>14 DEF DataNamed
<1>16. Bytes(i) \in Nat /\ i.name \notin Elsewhere
  BY <1>1 DEF Bytes, Elsewhere
<1>17. Disassembled(i) = 2 * w
  <2>1. i.name = "movep"
    BY <1>1
  <2>2. DasmMovep(i) = 1
    BY <2>1 DEF DasmMovep
  <2> QED BY <1>14, <2>1, <2>2 DEF Disassembled
<1>18. i.name \in KeepX /\ i.form # "toc" => q.f.x = cpu.f.x
  BY <1>12
<1>19. (i.name \in Silent => q.f = cpu.f) /\ z = i.z
  BY <1>2, <1>12
<1> QED BY <1>3, <1>8, <1>12, <1>13, <1>15, <1>16, <1>17, <1>18, <1>19, SettledRight

-----------------------------------------------------------------------------
\* Bytes in several runs.
LEMMA RunsWritten ==
  ASSUME NEW m \in Machine, NEW n, NEW R, IsFiniteSet(R), NEW place \in [R -> Int],
         NEW k \in Nat,
         \A b \in Space : n.mem[b] # m.mem[b] => \E r \in R : (b - place[r]) % AddressSpace < k
  PROVE  Cardinality(Differing(m, n)) <= Cardinality(R) * k
<1>1. Differing(m, n) \in SUBSET Space
  BY MachineIs DEF Differing
<1>2. \A b \in Differing(m, n) : \E r \in R : (b - place[r]) % AddressSpace < k
  BY MachineIs DEF Differing
<1>3. PICK T \in SUBSET Space : T = Differing(m, n)
  BY <1>1
<1>4. \A b \in T : \E r \in R : (b - place[r]) % AddressSpace < k
  BY <1>2, <1>3
<1>5. Cardinality(T) <= Cardinality(R) * k
  BY <1>4, RunsBytes
<1> QED BY <1>3, <1>5

\* A new memory.
LEMMA MemoryKeeps ==
  ASSUME NEW m \in Machine, NEW n, NEW As, NEW w, Stepped(m, n, As, w),
         NEW mem \in [Space -> Range0(1)], NEW p, p = [n EXCEPT !.mem = mem],
         NEW k, Cardinality(Differing(m, p)) <= k
  PROVE  Kept(m, p, As, k, w)
<1>1. n \in Machine
  BY DEF Stepped
<1>2. /\ p \in Machine /\ p.d = n.d /\ p.a = n.a /\ p.mem = mem /\ p.pc = n.pc /\ p.f = n.f
      /\ p.trap = n.trap
  BY <1>1 DEF Machine, Space
<1> QED BY <1>2 DEF Stepped, Kept

\* A byte at an even distance is in one of the single bytes movep writes.
LEMMA EveryOther ==
  ASSUME NEW b \in Int, NEW at \in Int, NEW k \in Nat, k = (b - at) % AddressSpace, k % 2 = 0
  PROVE  (b - (at + 2 * (k \div 2))) % AddressSpace = 0
<1>1. PICK h \in Nat \ {0} : h = AddressSpace
  BY SpaceIs
<1>2. PICK j \in Int : j = k \div 2
  OBVIOUS
<1>3. k = 2 * j
  BY <1>2
<1>4. PICK q \in Int, r \in 0..(h - 1) : q = (b - at) \div h /\ r = (b - at) % h
      /\ b - at = q * h + r
  BY DivMod
<1>5. r = k
  BY <1>1, <1>4
<1>6. PICK t \in Int : t = b - (at + 2 * j)
  OBVIOUS
<1>7. q * h \in Int /\ t = q * h
  BY <1>3, <1>4, <1>5, <1>6
<1>8. q * h <= t /\ t < q * h + h
  BY <1>7
<1>9. t % h = t - q * h
  BY <1>8, DivIs
<1> QED BY <1>1, <1>2, <1>6, <1>7, <1>9

\* There are n numbers below n.
LEMMA UpTo == ASSUME NEW n \in Nat, NEW R, R = 0..(n - 1)
  PROVE  IsFiniteSet(R) /\ Cardinality(R) = n
<1>1. IsFiniteSet(0..(n - 1)) /\ Cardinality(0..(n - 1)) = n
  BY FS_Interval
<1> QED BY <1>1

\* MOVEP to the memory.
LEMMA SaveBytesKeeps ==
  ASSUME cpu \in Machine, NEW m \in Machine, NEW e, NEW As, NEW w, Stepped(m, e.m, As, w),
         e.at \in Int,
         NEW i, NEW z \in Sizes, NEW v \in Int, v = cpu.d[i.x], e = Ea(Fetched, z, i.ea),
         NEW p, p = SaveBytes(i, z)
  PROVE  Kept(m, p, As, z, w)
<1>1. PICK n, at, h : n = e.m /\ at = e.at /\ h = AddressSpace
  OBVIOUS
<1>2. n \in Machine /\ n.mem = m.mem /\ DOMAIN n.mem = Space /\ at \in Int /\ h \in Nat \ {0}
  BY <1>1, MachineIs, SpaceIs DEF Stepped
<1>3. PICK mem : mem = [b \in Space |->
        LET k == (b - at) % AddressSpace
        IN IF k < 2 * z /\ k % 2 = 0 THEN ByteOf(z, v, k \div 2) ELSE n.mem[b]]
  OBVIOUS
<1>4. p = [n EXCEPT !.mem = mem]
  BY <1>1, <1>2, <1>3 DEF SaveBytes
<1>5. ASSUME NEW b \in Space
      PROVE  /\ mem[b] \in Range0(1)
             /\ mem[b] # m.mem[b] => \E r \in 0..(z - 1) : (b - (at + 2 * r)) % AddressSpace < 1
  <2>1. b \in Int
    BY DEF Space
  <2>2. PICK k \in Nat : k = (b - at) % AddressSpace
    <3>1. b - at \in Int
      BY <1>2, <2>1
    <3> QED BY <3>1, SpaceIs, Remainder
  <2>3. n.mem[b] \in Range0(1)
    BY <1>2, MachineIs
  <2>4. CASE k < 2 * z /\ k % 2 = 0
    <3>1. PICK r \in Int : r = k \div 2
      OBVIOUS
    <3>2. r \in 0..(z - 1)
      BY <2>4, <3>1 DEF Sizes
    <3>3. mem[b] = ByteOf(z, v, r)
      BY <1>3, <2>2, <2>4, <3>1
    <3>4. ByteOf(z, v, r) \in Range0(1)
      BY <3>2, ByteOfRange
    <3>5. (b - (at + 2 * r)) % AddressSpace = 0
      BY <1>2, <2>1, <2>2, <2>4, <3>1, EveryOther
    <3> QED BY <3>2, <3>3, <3>4, <3>5
  <2>5. CASE ~(k < 2 * z /\ k % 2 = 0)
    <3>1. mem[b] = n.mem[b]
      BY <1>3, <2>2, <2>5
    <3> QED BY <1>2, <2>3, <3>1
  <2> QED BY <2>4, <2>5
<1>6. mem \in [Space -> Range0(1)]
  BY <1>3, <1>5
<1>7. Cardinality(Differing(m, p)) <= z
  <2>1. PICK R, place : R = 0..(z - 1) /\ place = [r \in R |-> at + 2 * r]
    OBVIOUS
  <2>2. place \in [R -> Int] /\ IsFiniteSet(R) /\ Cardinality(R) = z
    <3>1. z \in Nat
      BY DEF Sizes
    <3>2. IsFiniteSet(R) /\ Cardinality(R) = z
      BY <2>1, <3>1, UpTo
    <3> QED BY <1>2, <2>1, <3>1, <3>2
  <2>3. p.mem = mem
    BY <1>2, <1>4 DEF Machine
  <2>4. \A b \in Space : p.mem[b] # m.mem[b] => \E r \in R : (b - place[r]) % AddressSpace < 1
    BY <1>5, <2>1, <2>3
  <2>5. PICK k \in Nat : k = 1
    OBVIOUS
  <2>6. Cardinality(Differing(m, p)) <= Cardinality(R) * k
    BY <2>2, <2>4, <2>5, RunsWritten
  <2>7. Cardinality(R) * k = z
    BY <2>2, <2>5 DEF Sizes
  <2> QED BY <2>6, <2>7
<1>8. Stepped(m, n, As, w)
  BY <1>1
<1> QED BY <1>4, <1>6, <1>7, <1>8, MemoryKeeps

\* movep to memory is right: every other byte, and no more.
LEMMA SaveBytesRight ==
  ASSUME cpu \in Machine, NEW i, IsInstruction(i), movep_16_re(i) \/ movep_32_re(i)
  PROVE  Right(i)
<1>1. i.name = "movep" /\ i.z \in {2, 4} /\ i.ea.mode = "di" /\ i.form = "re"
      /\ cpu' = SaveBytes(i, i.z)
  BY DEF movep_16_re, movep_32_re, Does
<1>2. PICK o, z, x : o = i.ea /\ z = i.z /\ x = i.x
  OBVIOUS
<1>3. z \in Sizes /\ x \in Registers /\ IsOperand(o) /\ o.mode \in Found /\ o.mode = "di"
  BY <1>1, <1>2 DEF IsInstruction, HasX, Found
<1>4. PICK e : e = Ea(Fetched, z, o)
  OBVIOUS
<1>5. PICK v \in Nat : v = 0
  OBVIOUS
<1>6. Stepped(cpu, e.m, Steps(o), (1 + v) + Words(z, o)) /\ e.at \in Range0(4) /\ e.m \in Machine
  BY <1>3, <1>4, <1>5, EaOn
<1>7. PICK As, w : As = Steps(o) /\ w = (1 + v) + Words(z, o)
  OBVIOUS
<1>8. PICK m, p : m = cpu /\ p = cpu'
  OBVIOUS
<1>9. PICK c \in Int : c = cpu.d[i.x]
  BY <1>2, <1>3, MachineIs
<1>10. Kept(m, p, As, z, w)
  <2>1. Stepped(m, e.m, As, w) /\ e.at \in Int /\ m \in Machine
    BY <1>6, <1>7, <1>8, LongIs
  <2>2. e = Ea(Fetched, z, i.ea) /\ p = SaveBytes(i, z)
    BY <1>1, <1>2, <1>4, <1>8
  <2> QED BY <1>3, <1>9, <2>1, <2>2, SaveBytesKeeps
<1>14. w = 2 /\ As = {}
  BY <1>3, <1>5, <1>7 DEF Words, Steps
<1>15. As \subseteq AddressNamed(i)
  BY <1>14
<1>16. Bytes(i) = z /\ Bytes(i) \in Nat /\ z \in Nat /\ z <= Bytes(i) /\ i.name \notin Elsewhere
  BY <1>1, <1>2 DEF Bytes, Elsewhere
<1>17. Disassembled(i) = 2 * w
  <2>1. i.name = "movep"
    BY <1>1
  <2>2. DasmMovep(i) = 1
    BY <2>1 DEF DasmMovep
  <2> QED BY <1>14, <2>1, <2>2 DEF Disassembled
<1>18. Kept(cpu, cpu', As, z, w)
  BY <1>8, <1>10
<1> QED BY <1>15, <1>16, <1>17, <1>18, KeptRight

-----------------------------------------------------------------------------
(* movem.                                                                  *)

\* Lists of registers.
LEMMA ListIs == ASSUME NEW regs, regs \subseteq 0..15
  PROVE  /\ IsFiniteSet(regs) /\ Cardinality(regs) \in Nat
         /\ \A r \in regs : Rank(regs, r) \in Nat
<1>1. IsFiniteSet(0..15)
  <2>1. PICK n \in Nat : n = 16
    OBVIOUS
  <2>2. 0..15 = 0..(n - 1)
    BY <2>1
  <2> QED BY <2>2, UpTo
<1>2. \A T : T \subseteq 0..15 => IsFiniteSet(T) /\ Cardinality(T) \in Nat
  BY <1>1, FS_Subset, FS_CardinalityType
<1>3. ASSUME NEW r \in regs PROVE Rank(regs, r) \in Nat
  <2>1. {q \in regs : q < r} \subseteq 0..15
    OBVIOUS
  <2> QED BY <1>2, <2>1 DEF Rank
<1> QED BY <1>2, <1>3

\* A register of either kind.
LEMMA RegisterIs == ASSUME NEW m \in Machine, NEW r \in 0..15 PROVE Register(m, r) \in Int
<1>1. CASE r < 8
  BY <1>1, MachineIs DEF Register, Registers
<1>2. CASE ~(r < 8)
  <2>1. r - 8 \in Registers
    BY <1>2 DEF Registers
  <2> QED BY <1>2, <2>1, MachineIs DEF Register
<1> QED BY <1>1, <1>2

\* MOVEM to the memory.
LEMMA StoreAllKeeps ==
  ASSUME cpu \in Machine, NEW m \in Machine, NEW n, NEW As, NEW w, Stepped(m, n, As, w),
         NEW i, i.regs \subseteq 0..15, NEW z \in Sizes, NEW at \in Int, NEW p,
         p = StoreAll(i, n, z, at)
  PROVE  Kept(m, p, As, Length(i, z), w) /\ Length(i, z) \in Nat
<1>1. PICK R, place : R = i.regs /\ place = [r \in R |-> at + z * Rank(R, r)]
  OBVIOUS
<1>2. IsFiniteSet(R) /\ Cardinality(R) \in Nat /\ place \in [R -> Int]
  <2>1. \A r \in R : Rank(R, r) \in Nat
    BY <1>1, ListIs
  <2>2. \A r \in R : at + z * Rank(R, r) \in Int
    BY <2>1 DEF Sizes
  <2> QED BY <1>1, <2>2, ListIs
<1>3. n \in Machine /\ n.mem = m.mem /\ DOMAIN n.mem = Space
  BY MachineIs DEF Stepped
<1>4. PICK mem : mem = [b \in Space |->
     IF \E r \in R : (b - place[r]) % AddressSpace < z
     THEN LET r == CHOOSE r \in R : (b - place[r]) % AddressSpace < z
          IN ByteOf(z, Masked(z, Register(cpu, r)), (b - place[r]) % AddressSpace)
     ELSE n.mem[b]]
  OBVIOUS
<1>5. p = [n EXCEPT !.mem = mem]
  <2>1. p = [n EXCEPT !.mem = [b \in Space |->
     IF \E r \in R : (b - (at + z * Rank(R, r))) % AddressSpace < z
     THEN LET r == CHOOSE r \in R : (b - (at + z * Rank(R, r))) % AddressSpace < z
          IN ByteOf(z, Masked(z, Register(cpu, r)), (b - (at + z * Rank(R, r))) % AddressSpace)
     ELSE n.mem[b]]]
    BY <1>1, <1>3, Zenon DEF StoreAll, StoreAt
  <2>2. \A r \in R : place[r] = at + z * Rank(R, r)
    BY <1>1
  <2>3. \A b \in Space : (\E r \in R : (b - (at + z * Rank(R, r))) % AddressSpace < z)
                           <=> (\E r \in R : (b - place[r]) % AddressSpace < z)
    BY <2>2
  <2>4. \A b \in Space : (CHOOSE r \in R : (b - (at + z * Rank(R, r))) % AddressSpace < z)
                           = (CHOOSE r \in R : (b - place[r]) % AddressSpace < z)
    BY <2>2
  <2>5. ASSUME NEW b \in Space, NEW r, r = (CHOOSE q \in R : (b - place[q]) % AddressSpace < z),
               \E q \in R : (b - place[q]) % AddressSpace < z
        PROVE  r \in R
    BY <2>5
  <2> QED BY <1>4, <2>1, <2>2, <2>3, <2>4, <2>5
<1>6. ASSUME NEW b \in Space
      PROVE  /\ mem[b] \in Range0(1)
             /\ mem[b] # m.mem[b] => \E r \in R : (b - place[r]) % AddressSpace < z
  <2>1. n.mem[b] \in Range0(1)
    BY <1>3, MachineIs
  <2>2. CASE \E r \in R : (b - place[r]) % AddressSpace < z
    <3>1. PICK r \in R : r = (CHOOSE q \in R : (b - place[q]) % AddressSpace < z)
                         /\ (b - place[r]) % AddressSpace < z
      BY <2>2
    <3>2. PICK a \in Int : a = place[r]
      BY <1>2
    <3>3. PICK k \in Nat : k = (b - a) % AddressSpace
      <4>1. b - a \in Int
        BY DEF Space
      <4> QED BY <4>1, SpaceIs, Remainder
    <3>4. k \in 0..(z - 1)
      BY <3>1, <3>2, <3>3 DEF Sizes
    <3>5. PICK v \in Int : v = Masked(z, Register(cpu, r))
      <4>1. Register(cpu, r) \in Int
        BY <1>1, RegisterIs
      <4>2. Masked(z, Register(cpu, r)) \in Range0(z)
        BY <4>1, MaskedRange
      <4> QED BY <4>2, MaskedSame
    <3>6. mem[b] = ByteOf(z, v, k)
      BY <1>4, <2>2, <3>1, <3>2, <3>3, <3>5
    <3> QED BY <2>2, <3>4, <3>6, ByteOfRange
  <2>3. CASE ~(\E r \in R : (b - place[r]) % AddressSpace < z)
    <3>1. mem[b] = n.mem[b]
      BY <1>4, <2>3
    <3> QED BY <1>3, <2>1, <3>1
  <2> QED BY <2>2, <2>3
<1>7. mem \in [Space -> Range0(1)]
  BY <1>4, <1>6
<1>8. p.mem = mem
  BY <1>3, <1>5 DEF Machine
<1>9. \A b \in Space : p.mem[b] # m.mem[b] => \E r \in R : (b - place[r]) % AddressSpace < z
  BY <1>6, <1>8
<1>10. PICK k \in Nat : k = z
  BY DEF Sizes
<1>11. Cardinality(Differing(m, p)) <= Cardinality(R) * k
  BY <1>2, <1>9, <1>10, RunsWritten
<1>12. Cardinality(R) * k = Length(i, z) /\ Length(i, z) \in Nat
  BY <1>1, <1>2, <1>10 DEF Length
<1>13. Cardinality(Differing(m, p)) <= Length(i, z)
  BY <1>11, <1>12
<1> QED BY <1>5, <1>7, <1>12, <1>13, MemoryKeeps

\* A list from the memory.
LEMMA LoadAllTakes ==
  ASSUME NEW n \in Machine, NEW i, i.regs \subseteq 0..15, NEW z \in Sizes, NEW at \in Int,
         NEW p, p = LoadAll(i, n, z, at),
         NEW Ds, NEW Bs, Ds = i.regs \cap Registers, Bs = {r \in Registers : r + 8 \in i.regs}
  PROVE  Takes(n, p, Ds, Bs)
<1>1. PICK R : R = i.regs
  OBVIOUS
<1>2. ASSUME NEW r \in R
      PROVE  Extended(z, Read(n, z, at + z * Rank(R, r))) \in Range0(4)
  <2>1. Rank(R, r) \in Nat
    BY <1>1, ListIs
  <2>2. PICK a \in Int : a = at + z * Rank(R, r)
    BY <2>1 DEF Sizes
  <2>3. Read(n, z, a) \in Int
    <3>1. Read(n, z, a) \in Range0(z)
      BY ReadRange DEF Read
    <3> QED BY <3>1, MaskedSame
  <2> QED BY <2>2, <2>3, ExtendedType
<1>3. PICK g : g = [r \in R |-> Extended(z, Read(n, z, at + z * Rank(R, r)))]
  OBVIOUS
<1>4. \A r \in R : g[r] \in Range0(4)
  BY <1>2, <1>3
<1>5. PICK d, a : /\ d = [r \in Registers |-> IF r \in R THEN g[r] ELSE n.d[r]]
                  /\ a = [r \in Registers |-> IF r + 8 \in R THEN g[r + 8] ELSE n.a[r]]
  OBVIOUS
<1>6. n.d \in [Registers -> Range0(4)] /\ n.a \in [Registers -> Range0(4)]
  BY MachineIs
<1>7. d \in [Registers -> Range0(4)] /\ a \in [Registers -> Range0(4)]
  BY <1>4, <1>5, <1>6
<1>8. p = [n EXCEPT !.d = d, !.a = a]
  <2>1. p = [n EXCEPT
           !.d = [r \in Registers |-> IF r \in R THEN Extended(z, Read(n, z, at + z * Rank(R,
               r)))
                                      ELSE n.d[r]],
           !.a = [r \in Registers |-> IF r + 8 \in R
                                      THEN Extended(z, Read(n, z, at + z * Rank(R, r + 8)))
                                      ELSE n.a[r]]]
    BY <1>1, MachineIs DEF LoadAll
  <2>2. \A r \in Registers : r \in R => g[r] = Extended(z, Read(n, z, at + z * Rank(R, r)))
    BY <1>3
  <2>3. \A r \in Registers : r + 8 \in R => g[r + 8] = Extended(z, Read(n, z, at + z * Rank(R,
            r + 8)))
    BY <1>3
  <2>4. d = [r \in Registers |-> IF r \in R THEN Extended(z, Read(n, z, at + z * Rank(R, r)))
                                 ELSE n.d[r]]
    BY <1>5, <2>2
  <2>5. a = [r \in Registers |-> IF r + 8 \in R
                                 THEN Extended(z, Read(n, z, at + z * Rank(R, r + 8)))
                                 ELSE n.a[r]]
    BY <1>5, <2>3
  <2> QED BY <2>1, <2>4, <2>5
<1>9. \A r \in Registers : /\ d[r] = n.d[r] \/ r \in Ds
                           /\ a[r] = n.a[r] \/ r \in Bs
  BY <1>1, <1>5
<1>20. Takes(n, p, Ds, Bs)
  <2>1. SUFFICES \E dd \in [Registers -> Range0(4)], aa \in [Registers -> Range0(4)] :
          /\ p = [n EXCEPT !.d = dd, !.a = aa]
          /\ \A r1 \in Registers : /\ dd[r1] = n.d[r1] \/ r1 \in Ds
                                   /\ aa[r1] = n.a[r1] \/ r1 \in Bs
    BY Zenon DEF Takes
  <2> d \in [Registers -> Range0(4)] /\ a \in [Registers -> Range0(4)]
    BY <1>7, <1>8, <1>9
  <2> WITNESS d \in [Registers -> Range0(4)], a \in [Registers -> Range0(4)]
  <2> QED BY <1>7, <1>8, <1>9
<1> QED BY <1>20

\* An address register more.
LEMMA TakesA ==
  ASSUME NEW n \in Machine, NEW p, NEW Ds, NEW Bs, Takes(n, p, Ds, Bs),
         NEW r \in Registers, NEW v \in Int, NEW q, q = PutA(p, r, v)
  PROVE  Takes(n, q, Ds, Bs \cup {r})
<1>1. PICK d \in [Registers -> Range0(4)], a \in [Registers -> Range0(4)] :
        /\ p = [n EXCEPT !.d = d, !.a = a]
        /\ \A x \in Registers : /\ d[x] = n.d[x] \/ x \in Ds
                                /\ a[x] = n.a[x] \/ x \in Bs
  BY DEF Takes
<1>2. PICK u \in Range0(4) : u = Masked(4, v)
  BY MaskedRange, SizeIs
<1>3. PICK c : c = [a EXCEPT ![r] = u]
  OBVIOUS
<1>4. c \in [Registers -> Range0(4)] /\ \A x \in Registers : c[x] = a[x] \/ x = r
  BY <1>3
<1>5. q = [n EXCEPT !.d = d, !.a = c]
  BY <1>1, <1>2, <1>3, MachineIs DEF PutA
<1>6. PICK Cs : Cs = Bs \cup {r}
  OBVIOUS
<1>7. \A x \in Registers : d[x] = n.d[x] \/ x \in Ds
  BY <1>1
<1>8. \A x \in Registers : c[x] = n.a[x] \/ x \in Cs
  BY <1>1, <1>4, <1>6
<1>20. Takes(n, q, Ds, Cs)
  <2>1. SUFFICES \E dd \in [Registers -> Range0(4)], aa \in [Registers -> Range0(4)] :
          /\ q = [n EXCEPT !.d = dd, !.a = aa]
          /\ \A r1 \in Registers : /\ dd[r1] = n.d[r1] \/ r1 \in Ds
                                   /\ aa[r1] = n.a[r1] \/ r1 \in Cs
    BY Zenon DEF Takes
  <2> d \in [Registers -> Range0(4)] /\ c \in [Registers -> Range0(4)]
    BY <1>4, <1>5, <1>7, <1>8
  <2> WITNESS d \in [Registers -> Range0(4)], c \in [Registers -> Range0(4)]
  <2> QED BY <1>4, <1>5, <1>7, <1>8
<1> QED BY <1>6, <1>20

-----------------------------------------------------------------------------
SaveHandlers(i) == movem_16_re_pd(i) \/ movem_32_re_pd(i) \/ movem_16_re(i) \/ movem_32_re(i)
RestoreHandlers(i) == movem_16_er_pi(i) \/ movem_32_er_pi(i) \/ movem_16_er(i) \/ movem_32_er(i)

\* The list is a word behind the opcode.
LEMMA ListedOn == ASSUME cpu \in Machine
  PROVE  Stepped(cpu, Listed, {}, 2) /\ Listed \in Machine
<1>1. PICK v \in Nat : v = 1 /\ 1 + v = 2
  OBVIOUS
<1>2. Stepped(cpu, Skip(Fetched, v), {}, 1 + v)
  BY SkippedOn
<1>3. Stepped(cpu, Listed, {}, 2)
  BY <1>1, <1>2 DEF Listed
<1> QED BY <1>3 DEF Stepped

\* The address of movem is found behind its list.
LEMMA EaListed ==
  ASSUME cpu \in Machine, NEW z \in Sizes, NEW o, IsOperand(o), o.mode \in Found,
         NEW u \in Nat, u = Words(z, o), NEW e, e = Ea(Listed, z, o)
  PROVE  Stepped(cpu, e.m, Steps(o), 2 + u) /\ e.at \in Int /\ e.m \in Machine
<1>1. Stepped(Listed, e.m, Steps(o), Words(z, o)) /\ e.at \in Range0(4) /\ e.m \in Machine
  BY ListedOn, EaSteps
<1>2. PICK m, n, p, As, Bs : m = cpu /\ n = Listed /\ p = e.m /\ As = {} /\ Bs = Steps(o)
  OBVIOUS
<1>3. PICK t \in Nat : t = 2
  OBVIOUS
<1>4. Stepped(m, n, As, t) /\ Stepped(n, p, Bs, u) /\ m \in Machine
  BY <1>1, <1>2, <1>3, ListedOn
<1>5. Stepped(m, p, As \cup Bs, t + u)
  BY <1>4, SteppedOn
<1>6. As \cup Bs = Steps(o)
  BY <1>2
<1> QED BY <1>1, <1>2, <1>3, <1>5, <1>6, LongIs

\* movem has the list as a word more.
LEMMA ListWords ==
  ASSUME NEW i, IsInstruction(i), i.name = "movem", i.ea.mode \in Found
  PROVE  /\ i.ea.more = 0 => Disassembled(i) = 2 * (2 + Words(i.z, i.ea))
         /\ i.name \notin Elsewhere /\ i.name \in Whole
<1>1. SUFFICES ASSUME i.ea.more = 0 PROVE Disassembled(i) = 2 * (2 + Words(i.z, i.ea))
  BY DEF Elsewhere, Whole
<1>2. i.ea.mode \in Modes
  BY DEF Found, Modes
<1>3. PICK u \in Nat : u = Words(i.z, i.ea) /\ Ea1(i) = u
  BY <1>1, <1>2, EaRead
<1>4. i.name = "movem"
  OBVIOUS
<1>5. DasmMovem(i) = 1 + u
  BY <1>3 DEF DasmMovem
<1>6. Disassembled(i) = 2 + 2 * (1 + u)
  BY <1>4, <1>5 DEF Disassembled
<1> QED BY <1>3, <1>6

\* movem to memory is right: a length for each register of the list.
LEMMA SaveRight == ASSUME cpu \in Machine, NEW i, IsInstruction(i), SaveHandlers(i)
  PROVE  Right(i)
<1>1. /\ i.name = "movem" /\ i.form = "re" /\ i.ea.mode \in Found
      /\ \/ i.ea.mode = "pd" /\ cpu' = SaveDown(i, i.z)
         \/ cpu' = Save(i, i.z)
  BY DEF SaveHandlers, movem_16_re_pd, movem_32_re_pd, movem_16_re, movem_32_re, Does, Memory,
         Control, Found
<1>2. PICK o, z, r : o = i.ea /\ z = i.z /\ r = i.ea.r
  OBVIOUS
<1>3. z \in Sizes /\ IsOperand(o) /\ o.mode \in Found /\ i.regs \subseteq 0..15
      /\ (o.mode = "pd" => r \in Registers)
  BY <1>1, <1>2 DEF IsInstruction, IsOperand
<1>4. PICK m, p, k : m = cpu /\ m \in Machine /\ p = cpu' /\ k = Length(i, z)
  OBVIOUS
<1>5. PICK u \in Nat : u = Words(z, o)
  BY <1>3, WordsIs
<1>6. PICK w \in Nat : w = 2 + u
  OBVIOUS
<1>7. \E As : Kept(m, p, As, k, w) /\ k \in Nat /\ As \subseteq Steps(o)
  <2>1. CASE o.mode = "pd" /\ cpu' = SaveDown(i, i.z)
    <3>1. k \in Nat
      <4>1. IsFiniteSet(i.regs) /\ Cardinality(i.regs) \in Nat
        BY <1>3, ListIs
      <4> QED BY <1>3, <1>4, <4>1 DEF Length, Sizes
    <3>2. PICK at \in Int : at = Masked(4, cpu.a[r] - k) /\ at = Masked(4, at)
      <4>1. cpu.a[r] - k \in Int
        BY <1>3, <2>1, <3>1, MachineIs
      <4>2. Masked(4, cpu.a[r] - k) \in Range0(4)
        BY <4>1, MaskedRange, SizeIs
      <4> QED BY <4>2, LongIs
    <3>3. PICK n, As : n = Listed /\ As = {}
      OBVIOUS
    <3>4. Stepped(m, n, As, w)
      <4>1. w = 2
        BY <1>5, <1>6, <2>1 DEF Words
      <4> QED BY <1>4, <3>3, <4>1, ListedOn
    <3>5. PICK q : q = StoreAll(i, n, z, at)
      OBVIOUS
    <3>6. Kept(m, q, As, k, w)
      BY <1>3, <1>4, <3>4, <3>5, StoreAllKeeps
    <3>7. p = PutA(q, r, at)
      BY <1>2, <1>4, <2>1, <3>2, <3>3, <3>5 DEF SaveDown
    <3>8. Kept(m, p, As \cup {r}, k, w)
      BY <1>3, <1>4, <2>1, <3>6, <3>7, KeptPutA
    <3>9. Steps(o) = {r}
      BY <1>2, <2>1 DEF Steps
    <3>10. As \cup {r} = Steps(o)
      BY <3>3, <3>9
    <3> QED BY <3>1, <3>8, <3>10
  <2>2. CASE cpu' = Save(i, i.z)
    <3>2. PICK e : e = Ea(Listed, z, o)
      OBVIOUS
    <3>4. Stepped(cpu, e.m, Steps(o), w) /\ e.at \in Int /\ e.m \in Machine
      BY <1>3, <1>5, <1>6, <3>2, EaListed
    <3>5. PICK n, As : n = e.m /\ As = Steps(o)
      OBVIOUS
    <3>6. Stepped(m, n, As, w)
      BY <1>4, <3>4, <3>5
    <3>7. PICK at \in Int : at = e.at
      BY <3>4
    <3>8. p = StoreAll(i, n, z, at)
      BY <1>2, <1>4, <2>2, <3>2, <3>5, <3>7 DEF Save
    <3>9. Kept(m, p, As, k, w) /\ k \in Nat
      BY <1>3, <1>4, <3>6, <3>8, StoreAllKeeps
    <3> QED BY <3>5, <3>9
  <2> QED BY <1>1, <1>2, <2>1, <2>2
<1>8. PICK As : Kept(m, p, As, k, w) /\ k \in Nat /\ As \subseteq Steps(o)
  BY <1>7
<1>9. As \subseteq AddressNamed(i)
  BY <1>2, <1>8 DEF AddressNamed
<1>10. Bytes(i) = k
  BY <1>1, <1>2, <1>4 DEF Bytes
<1>11. i.ea.more = 0 => Disassembled(i) = 2 * w
  BY <1>1, <1>2, <1>5, <1>6, ListWords
<1>12. i.name \notin Elsewhere
  BY <1>1 DEF Elsewhere
<1>13. Kept(cpu, cpu', As, k, w) /\ k \in Nat /\ k <= Bytes(i) /\ Bytes(i) \in Nat
  BY <1>4, <1>8, <1>10
<1> QED BY <1>9, <1>11, <1>12, <1>13, KeptRight

\* movem to registers is right: those of the list, and the register of (An)+.
LEMMA RestoreRight == ASSUME cpu \in Machine, NEW i, IsInstruction(i), RestoreHandlers(i)
  PROVE  Right(i)
<1>1. /\ i.name = "movem" /\ i.form = "er" /\ i.ea.mode \in Found
      /\ \/ i.ea.mode = "pi" /\ cpu' = RestoreUp(i, i.z)
         \/ cpu' = Restore(i, i.z)
  BY DEF RestoreHandlers, movem_16_er_pi, movem_32_er_pi, movem_16_er, movem_32_er, Does,
         Control, Found
<1>2. PICK o, z, r : o = i.ea /\ z = i.z /\ r = i.ea.r
  OBVIOUS
<1>3. z \in Sizes /\ IsOperand(o) /\ o.mode \in Found /\ i.regs \subseteq 0..15
      /\ (o.mode = "pi" => r \in Registers)
  BY <1>1, <1>2 DEF IsInstruction, IsOperand
<1>4. PICK p, Ds, Cs : p = cpu' /\ Ds = i.regs \cap Registers
      /\ Cs = {x \in Registers : x + 8 \in i.regs}
  OBVIOUS
<1>5. PICK u \in Nat : u = Words(z, o)
  BY <1>3, WordsIs
<1>6. PICK w \in Nat : w = 2 + u
  OBVIOUS
<1>7. \E n, As, Bs : Stepped(cpu, n, As, w) /\ Takes(n, p, Ds, Bs)
      /\ As \cup Bs \subseteq Steps(o) \cup Cs
  <2>1. CASE o.mode = "pi" /\ cpu' = RestoreUp(i, i.z)
    <3>1. PICK k \in Nat : k = Length(i, z)
      <4>1. IsFiniteSet(i.regs) /\ Cardinality(i.regs) \in Nat
        BY <1>3, ListIs
      <4> QED BY <1>3, <4>1 DEF Length, Sizes
    <3>2. PICK at \in Int : at = cpu.a[r]
      BY <1>3, <2>1, MachineIs
    <3>3. PICK n, As : n = Listed /\ As = {}
      OBVIOUS
    <3>4. Stepped(cpu, n, As, w) /\ n \in Machine
      <4>1. w = 2
        BY <1>5, <1>6, <2>1 DEF Words
      <4> QED BY <3>3, <4>1, ListedOn
    <3>5. PICK q : q = LoadAll(i, n, z, at)
      OBVIOUS
    <3>6. Takes(n, q, Ds, Cs)
      BY <1>3, <1>4, <3>4, <3>5, LoadAllTakes
    <3>7. PICK v \in Int : v = at + k
      OBVIOUS
    <3>8. p = PutA(q, r, v)
      BY <1>2, <1>4, <2>1, <3>1, <3>2, <3>3, <3>5, <3>7 DEF RestoreUp
    <3>9. Takes(n, p, Ds, Cs \cup {r})
      BY <1>3, <2>1, <3>4, <3>6, <3>8, TakesA
    <3>10. Steps(o) = {r}
      BY <1>2, <2>1 DEF Steps
    <3>11. As \cup (Cs \cup {r}) \subseteq Steps(o) \cup Cs
      BY <3>3, <3>10
    <3> QED BY <3>4, <3>9, <3>11
  <2>2. CASE cpu' = Restore(i, i.z)
    <3>2. PICK e : e = Ea(Listed, z, o)
      OBVIOUS
    <3>4. Stepped(cpu, e.m, Steps(o), w) /\ e.at \in Int /\ e.m \in Machine
      BY <1>3, <1>5, <1>6, <3>2, EaListed
    <3>5. PICK n, As : n = e.m /\ As = Steps(o)
      OBVIOUS
    <3>6. Stepped(cpu, n, As, w) /\ n \in Machine
      BY <3>4, <3>5
    <3>7. PICK at \in Int : at = e.at
      BY <3>4
    <3>8. p = LoadAll(i, n, z, at)
      BY <1>2, <1>4, <2>2, <3>2, <3>5, <3>7 DEF Restore
    <3>9. Takes(n, p, Ds, Cs)
      BY <1>3, <1>4, <3>6, <3>8, LoadAllTakes
    <3>10. As \cup Cs \subseteq Steps(o) \cup Cs
      BY <3>5
    <3> QED BY <3>6, <3>9, <3>10
  <2> QED BY <1>1, <1>2, <2>1, <2>2
<1>8. PICK n, As, Bs : Stepped(cpu, n, As, w) /\ Takes(n, p, Ds, Bs)
      /\ As \cup Bs \subseteq Steps(o) \cup Cs
  BY <1>7
<1>9. As \cup Bs \subseteq AddressNamed(i)
  BY <1>2, <1>4, <1>8 DEF AddressNamed
<1>10. Ds \subseteq DataNamed(i)
  BY <1>4 DEF DataNamed
<1>11. Bytes(i) \in Nat
  <2>1. Bytes(i) = 0
    BY <1>1 DEF Bytes
  <2> QED BY <2>1
<1>12. i.ea.more = 0 => Disassembled(i) = 2 * w
  BY <1>1, <1>2, <1>5, <1>6, ListWords
<1>13. i.name \notin Elsewhere /\ (i.z = 4 \/ i.name \in Whole)
  BY <1>1 DEF Elsewhere, Whole
<1>14. Takes(n, cpu', Ds, Bs)
  BY <1>4, <1>8
<1> QED BY <1>8, <1>9, <1>10, <1>11, <1>12, <1>13, <1>14, TakesRight

-----------------------------------------------------------------------------
(* What is written is read again.                                          *)

\* What is written is read again.
LEMMA ByteAgain ==
  ASSUME NEW n \in Machine, NEW z \in Sizes, NEW at \in Int, NEW v \in Int,
         NEW p, p = Write(n, z, at, v), NEW k \in Nat, k < z
  PROVE  ByteAt(p, at + k) = ByteOf(z, v, k)
<1>1. PICK h \in Nat \ {0} : h = AddressSpace /\ h >= 64
  BY SpaceIs
<1>c. PICK c \in Int : c = at + k
  OBVIOUS
<1>d. PICK q \in Int : \E r \in 0..(h - 1) : r = c % h /\ c = q * h + r /\ q * h \in Int
  BY DivMod
<1>2. PICK b \in 0..(h - 1) : b = c % h /\ c = q * h + b /\ q * h \in Int
  BY <1>d
<1>e. b \in Space
  BY <1>1, <1>2 DEF Space
<1>3. (b - at) % h = k
  <2>2. PICK t \in Int : t = b - at
    OBVIOUS
  <2>y. PICK y \in Int : y = q * h
    BY <1>2
  <2>b. b \in Int
    BY <1>2
  <2>c. c = y + b
    BY <1>2, <2>y
  <2>3. t = k - q * h
    BY <1>c, <2>2, <2>y, <2>b, <2>c
  <2>4. PICK j \in Int : j = -q
    OBVIOUS
  <2>5. j * h = -(q * h) /\ j * h \in Int
    BY <1>2, <2>4
  <2>6. k < h
    BY <1>1 DEF Sizes
  <2>7. j * h <= t /\ t < j * h + h /\ t - j * h = k
    BY <1>c, <1>2, <2>3, <2>5, <2>6
  <2>8. t % h = t - j * h
    BY <2>7, DivIs
  <2> QED BY <2>2, <2>7, <2>8
<1>4. p.mem[b] = ByteOf(z, v, k)
  BY <1>1, <1>e, <1>3, WriteIs
<1> QED BY <1>1, <1>c, <1>2, <1>4 DEF ByteAt

\* Two divisions are one.
LEMMA DivDiv ==
  ASSUME NEW v \in Nat, NEW g \in Nat \ {0}, NEW h \in Nat \ {0}
  PROVE  (v \div g) \div h = v \div (g * h)
<1>1. PICK q \in Int, r \in 0..(g - 1) : q = v \div g /\ v = q * g + r /\ q * g \in Int
  BY DivMod
<1>2. PICK s \in Int, t \in 0..(h - 1) : s = q \div h /\ q = s * h + t /\ s * h \in Int
  BY DivMod
<1>3. PICK m \in Nat \ {0} : m = g * h
  <2>1. g * h \in Nat \ {0}
    OBVIOUS
  <2> QED BY <2>1
<1>4. q * g = s * m + t * g /\ s * m \in Int /\ t * g \in Int
  <2>1. (s * h + t) * g = s * (g * h) + t * g
    OBVIOUS
  <2>2. s * m \in Int /\ t * g \in Int
    OBVIOUS
  <2>3. q * g = (s * h + t) * g
    BY <1>2
  <2>4. s * (g * h) = s * m
    BY <1>3
  <2> QED BY <2>1, <2>2, <2>3, <2>4
<1>5. 0 <= t * g /\ t * g <= m - g
  <2>1. t * g <= (h - 1) * g
    BY Times
  <2>2. (h - 1) * g = m - g
    BY <1>3
  <2>3. 0 * g <= t * g
    BY Times
  <2> QED BY <2>1, <2>2, <2>3
<1>6. s * m <= v /\ v < s * m + m
  BY <1>1, <1>4, <1>5
<1>7. v \div m = s
  BY <1>6, DivIs
<1> QED BY <1>1, <1>2, <1>3, <1>7

\* The bytes of a value, from the highest.
LEMMA BytesOf ==
  ASSUME NEW v \in Int, NEW h \in Nat \ {0}, h = Mod(1)
  PROVE  /\ ByteOf(1, v, 0) = v % h
         /\ ByteOf(2, v, 0) = (v \div h) % h /\ ByteOf(2, v, 1) = v % h
         /\ ByteOf(4, v, 0) = (v \div (h * h * h)) % h /\ ByteOf(4, v, 1) = (v \div (h * h)) % h
         /\ ByteOf(4, v, 2) = (v \div h) % h /\ ByteOf(4, v, 3) = v % h
<1>1. Pow2[Bits(0)] = 1 /\ Pow2[Bits(1)] = h /\ Pow2[Bits(2)] = h * h
      /\ Pow2[Bits(3)] = h * h * h
  <2>1. Bits(0) = 0 /\ Pow2[0] = 1
    <3>1. 0 \in Nat
      OBVIOUS
    <3>2. Bits(0) = 0
      BY WidthAssumption DEF Bits
    <3> QED BY <3>1, <3>2, Pow2Step
  <2>2. Pow2[Bits(1)] = h /\ Pow2[Bits(2)] = h * h
    BY Widths, SizeIs
  <2>3. Bits(3) = Bits(2) + Bits(1) /\ Bits(2) \in Nat /\ Bits(1) \in Nat
    BY WidthAssumption DEF Bits
  <2>4. Pow2[Bits(3)] = (h * h) * h
    BY <2>2, <2>3, Pow2Sum
  <2> QED BY <2>1, <2>2, <2>4
<1>2. v \div 1 = v
  OBVIOUS
<1> QED BY <1>1, <1>2 DEF ByteOf

\* A value is put together again from its bytes.
LEMMA Composed1 ==
  ASSUME NEW h \in Nat \ {0}, NEW v \in 0..(h * h - 1)
  PROVE  ((v \div h) % h) * h + (v % h) = v
<1>1. v \div h \in 0..(h - 1) /\ v = (v \div h) * h + (v % h)
  BY HighDigit
<1>2. PICK q \in 0..(h - 1) : q = v \div h
  BY <1>1
<1>3. q % h = q
  <2>1. 0 * h <= q /\ q < 0 * h + h
    OBVIOUS
  <2>2. q % h = q - 0 * h
    BY <2>1, DivIs
  <2> QED BY <2>2
<1> QED BY <1>1, <1>2, <1>3

\* What was written is read again, byte order and wraparound included.
LEMMA ReadAgain ==
  ASSUME NEW n \in Machine, NEW z \in Sizes, NEW at \in Int, NEW v \in Range0(z),
         NEW p, p = Write(n, z, at, v)
  PROVE  Read(p, z, at) = v
<1>1. PICK h \in Nat \ {0}, g \in Nat \ {0} : h = Mod(1) /\ g = Mod(2) /\ g = h * h
                                              /\ Mod(4) = g * g
  BY Widths, SizeIs
<1>2. v \in Nat /\ v \in Int
  BY MaskedSame
<1>3. \A k \in Nat : k < z => ByteAt(p, at + k) = ByteOf(z, v, k)
  BY <1>2, ByteAgain
<1>4. at + 0 = at
  OBVIOUS
<1>5. CASE z = 1
  <2>1. ByteAt(p, at) = v % h
    <3>1. ByteAt(p, at + 0) = ByteOf(1, v, 0)
      BY <1>3, <1>5
    <3> QED BY <1>1, <1>2, <1>4, <3>1, BytesOf
  <2>2. v % h = v
    BY <1>1, <1>5, MaskedSame DEF Masked
  <2> QED BY <1>5, <2>1, <2>2 DEF Read, ReadEvery
<1>6. CASE z = 2
  <2>1. ByteAt(p, at + 0) = ByteOf(2, v, 0) /\ ByteAt(p, at + 1) = ByteOf(2, v, 1)
    BY <1>3, <1>6
  <2>2. ByteAt(p, at) = (v \div h) % h /\ ByteAt(p, at + 1) = v % h
    BY <1>1, <1>2, <1>4, <2>1, BytesOf
  <2>3. v \in 0..(h * h - 1)
    BY <1>1, <1>6 DEF Range0
  <2>4. ((v \div h) % h) * h + (v % h) = v
    BY <2>3, Composed1
  <2>5. Read(p, z, at) = ByteAt(p, at) * h + ByteAt(p, at + 1)
    BY <1>1, <1>6 DEF Read, ReadEvery
  <2> QED BY <2>2, <2>4, <2>5
<1>7. CASE z = 4
  <2>1. /\ ByteAt(p, at + 0) = ByteOf(4, v, 0) /\ ByteAt(p, at + 1) = ByteOf(4, v, 1)
        /\ ByteAt(p, at + 2) = ByteOf(4, v, 2) /\ ByteAt(p, at + 3) = ByteOf(4, v, 3)
    BY <1>3, <1>7
  <2>2. /\ ByteAt(p, at) = (v \div (h * h * h)) % h /\ ByteAt(p, at + 1) = (v \div (h * h)) % h
        /\ ByteAt(p, at + 2) = (v \div h) % h /\ ByteAt(p, at + 3) = v % h
    BY <1>1, <1>2, <1>4, <2>1, BytesOf
  <2>3. v \in 0..(g * g - 1)
    BY <1>1, <1>7 DEF Range0
  <2>4. PICK s \in 0..(g - 1), t \in 0..(g - 1) : s = v \div g /\ t = v % g /\ v = s * g + t
    BY <1>2, <2>3, HighDigit, Remainder
  <2>5. ((s \div h) % h) * h + (s % h) = s /\ ((t \div h) % h) * h + (t % h) = t
    BY <1>1, Composed1
  <2>6. v \div (h * h * h) = s \div h /\ v \div (h * h) = s
    <3>1. (v \div g) \div h = v \div (g * h)
      BY <1>2, DivDiv
    <3>2. g * h = h * h * h
      BY <1>1
    <3> QED BY <1>1, <2>4, <3>1, <3>2
  <2>7. v % h = t % h /\ (v \div h) % h = (t \div h) % h
    <3>1. PICK j \in Int, r \in 0..(h - 1) : j = t \div h /\ r = t % h /\ t = j * h + r
      BY DivMod
    <3>2. PICK u \in Int : u = s * h + j
      OBVIOUS
    <3>3. u * h = s * g + j * h
      <4>1. (s * h + j) * h = s * (h * h) + j * h
        OBVIOUS
      <4> QED BY <1>1, <3>2, <4>1
    <3>4. s * g \in Int /\ j * h \in Int /\ u * h \in Int
      OBVIOUS
    <3>5. v = u * h + r
      <4>1. PICK x, y, l \in Int : x = s * g /\ y = j * h /\ l = u * h
        BY <3>4
      <4>2. v = x + t /\ t = y + r /\ l = x + y
        BY <2>4, <3>1, <3>3, <4>1
      <4>3. r \in Int /\ t \in Int /\ v \in Int
        BY <1>2
      <4> QED BY <4>1, <4>2, <4>3
    <3>6. u * h <= v /\ v < u * h + h
      BY <3>4, <3>5
    <3>7. v \div h = u /\ v % h = v - u * h
      BY <1>2, <3>6, DivIs
    <3>8. v % h = r
      BY <3>4, <3>5, <3>7
    <3>9. u % h = j % h
      <4>1. PICK k \in Int, x \in 0..(h - 1) : k = j \div h /\ x = j % h /\ j = k * h + x
        BY DivMod
      <4>2. PICK y \in Int : y = s + k
        OBVIOUS
      <4>3. y * h = s * h + k * h /\ s * h \in Int /\ k * h \in Int
        BY <4>2
      <4>4. y * h <= u /\ u < y * h + h /\ u - y * h = x
        BY <3>2, <4>1, <4>3
      <4>5. u % h = u - y * h
        BY <4>4, DivIs
      <4> QED BY <4>1, <4>4, <4>5
    <3> QED BY <3>1, <3>7, <3>8, <3>9
  <2>8. PICK b0, b1, b2, b3 : /\ b0 = ByteAt(p, at) /\ b1 = ByteAt(p, at + 1)
                              /\ b2 = ByteAt(p, at + 2) /\ b3 = ByteAt(p, at + 3)
    OBVIOUS
  <2>9. b0 * h + b1 = s /\ b2 * h + b3 = t
    <3>1. b0 = (s \div h) % h /\ b1 = s % h
      BY <2>2, <2>6, <2>8
    <3>2. b2 = (t \div h) % h /\ b3 = t % h
      BY <2>2, <2>7, <2>8
    <3> QED BY <2>5, <3>1, <3>2
  <2>10. Read(p, z, at) = (b0 * h + b1) * g + (b2 * h + b3)
    <3>1. (at + 2 * 1) + 1 = at + 3 /\ at + 2 * 1 = at + 2
      OBVIOUS
    <3>2. Read(p, z, at) = (ByteAt(p, at) * h + ByteAt(p, at + 1)) * g
                           + (ByteAt(p, at + 2 * 1) * h + ByteAt(p, (at + 2 * 1) + 1))
      BY <1>1, <1>7 DEF Read, ReadEvery
    <3> QED BY <2>8, <3>1, <3>2
  <2> QED BY <2>4, <2>9, <2>10
<1> QED BY <1>5, <1>6, <1>7 DEF Sizes

-----------------------------------------------------------------------------
(* Jumps.                                                                  *)

\* Like Changed, whatever the counter is.
Touched(m, n, z, Ds, As, k) ==
  /\ n \in Machine
  /\ \A r \in Registers : /\ n.d[r] = m.d[r] \/ r \in Ds
                          /\ n.d[r] \div Mod(z) = m.d[r] \div Mod(z)
                          /\ n.a[r] = m.a[r] \/ r \in As
  /\ Cardinality(Differing(m, n)) <= k

\* What changed no more than an instruction names, with the counter it is to have, is right.
LEMMA GoneRight ==
  ASSUME cpu \in Machine, NEW i, IsInstruction(i), NEW z, NEW Ds, NEW As, NEW k,
         Touched(cpu, cpu', z, Ds, As, k),
         i.name \notin Whole => z = i.z \/ i.z = 4,
         Ds \subseteq DataNamed(i), As \subseteq AddressNamed(i), Bytes(i) \in Nat,
         k \in Nat, k <= Bytes(i),
         i.name \in Silent => cpu'.f = cpu.f, i.name \notin KeepX,
         i.ea.more = 0 /\ i.to.more = 0 => CounterRight(i)
  PROVE  Right(i)
<1>1. \A r \in Registers :
        /\ cpu'.d[r] = cpu.d[r] \/ r \in DataNamed(i)
        /\ i.z < 4 /\ i.name \notin Whole => cpu'.d[r] \div Mod(i.z) = cpu.d[r] \div Mod(i.z)
        /\ cpu'.a[r] = cpu.a[r] \/ r \in AddressNamed(i)
  BY DEF Touched
<1>2. Cardinality({b \in DOMAIN cpu.mem : cpu'.mem[b] # cpu.mem[b]}) <= Bytes(i)
  <2>1. Cardinality(Differing(cpu, cpu')) <= k /\ Differing(cpu, cpu') \subseteq Space
    BY MachineIs DEF Touched, Differing
  <2>2. Cardinality(Differing(cpu, cpu')) \in Nat
    BY <2>1, SpaceIs, FS_Subset, FS_CardinalityType
  <2>3. Cardinality(Differing(cpu, cpu')) <= Bytes(i)
    BY <2>1, <2>2
  <2> QED BY <2>3 DEF Differing
<1>3. OnlyNamed(i)
  BY <1>1, <1>2 DEF OnlyNamed
<1> QED BY <1>3 DEF Right, Touched

\* The counter is set.
Gone(n, c) == [n EXCEPT !.pc = c]

\* A jump sets the counter and nothing else.
LEMMA KeptGone ==
  ASSUME NEW m \in Machine, NEW n, NEW As, NEW k, NEW w, Kept(m, n, As, k, w),
         NEW c \in Range0(4), NEW p, p = Gone(n, c)
  PROVE  /\ \A z, Ds : Touched(m, p, z, Ds, As, k)
         /\ p.f = m.f /\ p.pc = c /\ p.a = n.a /\ p.mem = n.mem
<1>1. n \in Machine
  BY DEF Kept
<1>2. /\ p \in Machine /\ p.d = n.d /\ p.a = n.a /\ p.mem = n.mem /\ p.pc = c /\ p.f = n.f
  BY <1>1 DEF Machine, Gone
<1>3. Differing(m, p) = Differing(m, n)
  BY <1>2 DEF Differing
<1> QED BY <1>1, <1>2, <1>3 DEF Kept, Touched

\* A jump is right.
LEMMA JumpRight ==
  ASSUME cpu \in Machine, NEW i, IsInstruction(i), NEW n, NEW As, NEW k, NEW w, Kept(cpu, n,
         As, k, w),
         NEW c \in Range0(4), cpu' = Gone(n, c),
         As \subseteq AddressNamed(i), Bytes(i) \in Nat, k \in Nat, k <= Bytes(i),
         i.name \notin KeepX \cup Whole,
         i.ea.more = 0 /\ i.to.more = 0 => CounterRight(i)
  PROVE  Right(i)
<1>1. PICK m, p, Ds : m = cpu /\ m \in Machine /\ p = cpu' /\ Ds = {}
  OBVIOUS
<1>2. Kept(m, n, As, k, w) /\ p = Gone(n, c)
  BY <1>1
<1>3. PICK z : z = i.z
  OBVIOUS
<1>4. (\A y, Cs : Touched(m, p, y, Cs, As, k)) /\ p.f = m.f
  BY <1>1, <1>2, KeptGone
<1>6. Touched(cpu, cpu', z, Ds, As, k) /\ cpu'.f = cpu.f /\ Ds \subseteq DataNamed(i)
  BY <1>1, <1>4
<1>7. i.name \notin KeepX
  OBVIOUS
<1> QED BY <1>3, <1>6, <1>7, GoneRight

-----------------------------------------------------------------------------
(* Branches and loops.                                                     *)

\* The counter behind the opcode and v words.
LEMMA CounterOf == ASSUME cpu \in Machine, NEW v \in Nat
  PROVE  /\ Skip(Fetched, v) = Gone(Fetched, Masked(4, cpu.pc + 2 * (1 + v)))
         /\ Fetched.pc = Masked(4, cpu.pc + 2) /\ Fetched = Gone(Fetched, Fetched.pc)
         /\ Skip(Fetched, v).pc = Masked(4, cpu.pc + 2 * (1 + v))
         /\ Masked(4, cpu.pc + 2 * (1 + v)) \in Range0(4) /\ Fetched.pc \in Range0(4)
<1>1. PICK n : n = Fetched
  OBVIOUS
<1>2. Stepped(cpu, n, {}, 1) /\ n \in Machine
  <2>1. Stepped(cpu, n, {}, 1 + 0)
    BY <1>1, SkippedOn
  <2> QED BY <2>1 DEF Stepped
<1>3. PICK t \in Int : t = cpu.pc + 2
  BY MachineIs
<1>4. n.pc = Masked(4, t) /\ n.pc \in Range0(4)
  BY <1>2, <1>3, MachineIs DEF Stepped
<1>5. PICK s \in Int : s = 2 * v
  OBVIOUS
<1>6. Masked(4, n.pc + s) = Masked(4, t + s)
  BY <1>4, MaskedSum, SizeIs
<1>7. t + s = cpu.pc + 2 * (1 + v)
  BY <1>3, <1>5, MachineIs
<1>8. Skip(n, v) = [n EXCEPT !.pc = Masked(4, cpu.pc + 2 * (1 + v))]
  BY <1>2, <1>5, <1>6, <1>7 DEF Skip, Machine
<1>9. n = [n EXCEPT !.pc = n.pc]
  BY <1>2 DEF Machine
<1>10. Skip(n, v).pc = Masked(4, cpu.pc + 2 * (1 + v))
  BY <1>2, <1>8 DEF Machine
<1>11. Masked(4, t + s) \in Range0(4)
  BY MaskedRange, SizeIs
<1> QED BY <1>1, <1>3, <1>4, <1>7, <1>8, <1>9, <1>10, <1>11 DEF Gone

\* A branch adds a signed displacement to the address behind its opcode.
LEMMA AimIs == ASSUME cpu \in Machine, NEW z \in Sizes, NEW q \in Range0(z)
  PROVE  /\ Masked(4, Fetched.pc + MakeInt(z, q)) = Masked(4, cpu.pc + 2 + Signed(z, q))
         /\ Masked(4, Fetched.pc + MakeInt(z, q)) \in Range0(4)
<1>1. PICK t \in Int : t = cpu.pc + 2
  BY MachineIs
<1>2. PICK v \in Nat : v = 0
  OBVIOUS
<1>3. Fetched.pc = Masked(4, t)
  BY <1>1, <1>2, CounterOf
<1>4. PICK s \in Int : s = MakeInt(z, q)
  BY MaskedSame, MakeIntType
<1>5. s = Signed(z, q)
  BY <1>4, MaskedSame DEF MakeInt, Signed
<1>6. Masked(4, Masked(4, t) + s) = Masked(4, t + s)
  BY MaskedSum, SizeIs
<1>7. Masked(4, t + s) \in Range0(4)
  BY MaskedRange, SizeIs
<1> QED BY <1>1, <1>3, <1>4, <1>5, <1>6, <1>7

\* Branches.
LEMMA FetchedKept == ASSUME cpu \in Machine
  PROVE  Kept(cpu, Fetched, {}, 0, 1 + 0)
<1>1. PICK m, n, As, w : m = cpu /\ m \in Machine /\ n = Fetched /\ As = {} /\ w = 1 + 0
  OBVIOUS
<1>2. Stepped(m, n, As, w)
  BY <1>1, SkippedOn
<1>3. Kept(m, n, As, 0, w)
  BY <1>1, <1>2, KeptStepped
<1> QED BY <1>1, <1>3

BranchHandlers(i) == bcc_8(i) \/ bcc_16(i) \/ bra_8(i) \/ bra_16(i)

\* bra and bcc are right, taken or not.
LEMMA BranchRight == ASSUME cpu \in Machine, NEW i, IsInstruction(i), BranchHandlers(i)
  PROVE  Right(i)
<1>1. i.name \in {"bcc", "bra"} /\ i.z \in {1, 2} /\ i.form = ""
  BY DEF BranchHandlers, bcc_8, bcc_16, bra_8, bra_16, Does
<1>2. PICK z : z = i.z
  OBVIOUS
<1>3. z \in Sizes /\ i.q \in Range0(z)
  BY <1>2 DEF IsInstruction
<1>4. PICK aim : aim = Masked(4, Fetched.pc + MakeInt(z, i.q))
  OBVIOUS
<1>5. aim = Masked(4, cpu.pc + 2 + Signed(z, i.q)) /\ aim \in Range0(4)
  BY <1>3, <1>4, AimIs
<1>6. PICK v \in Nat : v = IF z = 1 THEN 0 ELSE 1
  OBVIOUS
<1>7. PICK next : next = Masked(4, cpu.pc + 2 * (1 + v))
  OBVIOUS
<1>8. next \in Range0(4) /\ Skip(Fetched, v) = Gone(Fetched, next)
      /\ Fetched = Gone(Fetched, Fetched.pc)
      /\ Fetched.pc = Masked(4, cpu.pc + 2)
  BY <1>7, CounterOf
<1>9. /\ cpu' = Gone(Fetched, aim) \/ cpu' = Gone(Fetched, next)
      /\ i.name = "bcc" => Disassembled(i) = 2 * (1 + v)
  <2>1. Branch(Fetched, z, i) = Gone(Fetched, aim)
    BY <1>4 DEF Branch, Gone
  <2>2. z = 1 => Fetched = Gone(Fetched, next)
    BY <1>6, <1>7, <1>8
  <2>3. z = 2 => Passed = Gone(Fetched, next)
    BY <1>6, <1>8 DEF Passed
  <2>4. i.name = "bcc" => DasmBcc(i) = v
    BY <1>1, <1>2, <1>6 DEF DasmBcc
  <2>5. i.name = "bcc" => Disassembled(i) = 2 + 2 * v
    BY <2>4 DEF Disassembled
  <2>6. CASE bcc_8(i)
    <3>1. z = 1 /\ (cpu' = Branch(Fetched, z, i) \/ cpu' = Fetched)
      BY <1>2, <2>6 DEF bcc_8, Does
    <3> QED BY <2>1, <2>2, <2>5, <3>1
  <2>7. CASE bcc_16(i)
    <3>1. z = 2 /\ (cpu' = Branch(Fetched, z, i) \/ cpu' = Passed)
      BY <1>2, <2>7 DEF bcc_16, Does
    <3> QED BY <2>1, <2>3, <2>5, <3>1
  <2>8. CASE bra_8(i) \/ bra_16(i)
    <3>1. cpu' = Branch(Fetched, z, i)
      BY <1>2, <2>8 DEF bra_8, bra_16, Does
    <3> QED BY <2>1, <2>5, <3>1
  <2> QED BY <2>6, <2>7, <2>8 DEF BranchHandlers
<1>10. PICK c : (c = aim \/ c = next) /\ cpu' = Gone(Fetched, c) /\ c \in Range0(4)
  BY <1>5, <1>8, <1>9
<1>11. PICK n, As, k, w : n = Fetched /\ As = {} /\ k = 0 /\ w = 1 + 0
  OBVIOUS
<1>12. Kept(cpu, n, As, k, w) /\ cpu' = Gone(n, c)
  BY <1>10, <1>11, FetchedKept
<1>13. CounterRight(i)
  <2>1. CASE i.name = "bra"
    BY <2>1 DEF CounterRight
  <2>2. CASE i.name = "bcc"
    <3>1. Disassembled(i) = 2 * (1 + v)
      BY <1>9, <2>2
    <3>2. cpu'.pc = c
      <4>1. n \in Machine
        BY <1>12 DEF Kept
      <4> QED BY <1>12, <4>1 DEF Gone, Machine
    <3>3. c \in {Masked(4, cpu.pc + Disassembled(i)), Masked(4, cpu.pc + 2 + Signed(i.z, i.q))}
      BY <1>2, <1>5, <1>7, <1>10, <3>1
    <3> QED BY <2>2, <3>2, <3>3 DEF CounterRight
  <2> QED BY <1>1, <2>1, <2>2
<1>14. As \subseteq AddressNamed(i) /\ Bytes(i) \in Nat /\ k \in Nat /\ k <= Bytes(i)
  <2>1. Bytes(i) = z
    BY <1>1, <1>2 DEF Bytes
  <2>2. z \in Nat /\ 0 <= z
    BY <1>3 DEF Sizes
  <2> QED BY <1>11, <2>1, <2>2
<1>15. i.name \notin KeepX \cup Whole
  BY <1>1 DEF KeepX, Whole
<1> QED BY <1>10, <1>12, <1>13, <1>14, <1>15, JumpRight

\* Loops count in the low word of a register.
LoopHandlers(i) == dbf_16(i) \/ dbcc_16(i)

\* dbf and dbcc are right: they count a word, and branch until it is below zero.
LEMMA LoopRight == ASSUME cpu \in Machine, NEW i, IsInstruction(i), LoopHandlers(i)
  PROVE  Right(i)
<1>1. i.name \in {"dbf", "dbcc"} /\ i.z = 2 /\ i.ea.mode = "d" /\ i.form = ""
      /\ (cpu' = Loop(i) \/ cpu' = Passed)
  BY DEF LoopHandlers, dbf_16, dbcc_16, Does
<1>2. PICK z, r : z = i.z /\ r = i.ea.r
  OBVIOUS
<1>3. z \in Sizes /\ z = 2 /\ i.q \in Range0(z) /\ r \in Registers /\ r \in DataNamed(i)
  BY <1>1, <1>2, SizeIs DEF IsInstruction, IsOperand, DataNamed
<1>4. PICK aim : aim = Masked(4, Fetched.pc + MakeInt(z, i.q))
  OBVIOUS
<1>5. aim = Masked(4, cpu.pc + 2 + Signed(z, i.q)) /\ aim \in Range0(4)
  BY <1>3, <1>4, AimIs
<1>6. PICK v \in Nat : v = 1
  OBVIOUS
<1>7. PICK next : next = Masked(4, cpu.pc + 2 * (1 + v))
  OBVIOUS
<1>8. next \in Range0(4) /\ Skip(Fetched, v) = Gone(Fetched, next)
  BY <1>7, CounterOf
<1>9. Passed = Gone(Fetched, next)
  BY <1>6, <1>8 DEF Passed
<1>10. PICK count : count = Masked(2, cpu.d[r] - 1)
  OBVIOUS
<1>11. count \in Range0(z)
  <2>1. cpu.d[r] - 1 \in Int
    BY <1>3, MachineIs
  <2> QED BY <1>3, <1>10, <2>1, MaskedRange
<1>12. \E c \in {aim, next} : cpu' = Gone(Fetched, c)
      \/ cpu' = PutD(Gone(Fetched, c), z, r, count)
  <2>1. Branch(Fetched, 2, i) = Gone(Fetched, aim)
    BY <1>3, <1>4 DEF Branch, Gone
  <2>2. CASE cpu' = Passed
    BY <1>9, <2>2
  <2>3. CASE cpu' = Loop(i)
    <3>1. cpu' = PutD(Gone(Fetched, aim), z, r, count)
          \/ cpu' = PutD(Gone(Fetched, next), z, r, count)
      BY <1>2, <1>3, <1>9, <1>10, <2>1, <2>3 DEF Loop
    <3> QED BY <3>1
  <2> QED BY <1>1, <2>2, <2>3
<1>13. PICK c \in {aim, next} : cpu' = Gone(Fetched, c)
      \/ cpu' = PutD(Gone(Fetched, c), z, r, count)
  BY <1>12
<1>14. c \in Range0(4)
  BY <1>5, <1>8
<1>15. CounterRight(i)
  <2>1. cpu'.pc = c
    <3>1. Gone(Fetched, c).pc = c /\ Gone(Fetched, c) \in Machine
      BY <1>14, SkippedOn DEF Gone, Machine
    <3>2. CASE cpu' = Gone(Fetched, c)
      BY <3>1, <3>2
    <3>3. CASE cpu' = PutD(Gone(Fetched, c), z, r, count)
      BY <3>1, <3>3 DEF PutD, Machine
    <3> QED BY <1>13, <3>2, <3>3
  <2>2. Disassembled(i) = 2 * (1 + v)
    <3>1. i.name \in {"dbf", "dbcc"}
      BY <1>1
    <3>2. DasmDbcc(i) = v
      BY <1>6, <3>1 DEF DasmDbcc
    <3>3. Disassembled(i) = 2 + 2 * v
      BY <3>1, <3>2 DEF Disassembled
    <3> QED BY <3>3
  <2>3. c \in {Masked(4, cpu.pc + Disassembled(i)), Masked(4, cpu.pc + 2 + Signed(i.z, i.q))}
    BY <1>2, <1>5, <1>7, <1>13, <2>2
  <2> QED BY <1>1, <2>1, <2>3 DEF CounterRight
<1>16. Bytes(i) \in Nat /\ 0 <= Bytes(i)
  <2>1. Bytes(i) = 2
    BY <1>1 DEF Bytes
  <2> QED BY <2>1
<1>17. i.name \notin KeepX \cup Whole
  BY <1>1 DEF KeepX, Whole
<1>18. CASE cpu' = Gone(Fetched, c)
  <2>1. PICK n, As, k, w : n = Fetched /\ As = {} /\ k = 0 /\ w = 1 + 0
    OBVIOUS
  <2>2. Kept(cpu, n, As, k, w) /\ cpu' = Gone(n, c)
    BY <1>18, <2>1, FetchedKept
  <2>3. As \subseteq AddressNamed(i) /\ Bytes(i) \in Nat /\ k \in Nat /\ k <= Bytes(i)
    BY <1>16, <2>1
  <2> QED BY <1>14, <1>15, <1>17, <2>2, <2>3, JumpRight
<1>19. CASE cpu' = PutD(Gone(Fetched, c), z, r, count)
  <2>1. PICK f, m, n, As, w : f = cpu.f /\ m = cpu /\ m \in Machine /\ n = Fetched
        /\ As = {} /\ w = 1 + 0
    OBVIOUS
  <2>2. Stepped(m, n, As, w) /\ n \in Machine /\ n.f = f /\ f \in Flags
    BY <2>1, SkippedOn, MachineIs DEF Stepped
  <2>3. PICK q : q = PutD([n EXCEPT !.f = f], z, r, count)
    OBVIOUS
  <2>4. Changed(m, q, z, {r}, As, 0, w) /\ q.f = f
    <3>1. /\ m \in Machine /\ z \in Sizes /\ Stepped(m, n, As, w) /\ f \in Flags
             /\ r \in Registers
          /\ count \in Range0(z) /\ q = PutD([n EXCEPT !.f = f], z, r, count)
      BY <1>3, <1>11, <2>1, <2>2, <2>3
    <3> QED BY <3>1, PutChanges
  <2>5. q = PutD(n, z, r, count)
    <3>1. [n EXCEPT !.f = f] = n
      BY <2>2 DEF Machine
    <3> QED BY <2>3, <3>1
  <2>6. /\ cpu' = [q EXCEPT !.pc = c] /\ q \in Machine
    <3>1. q \in Machine
      BY <2>4 DEF Changed
    <3>2. cpu' = PutD([n EXCEPT !.pc = c], z, r, count)
      BY <1>19, <2>1 DEF Gone
    <3> QED BY <2>2, <2>5, <3>1, <3>2 DEF PutD, Machine
  <2>7. PICK p, Ds, k : p = cpu' /\ Ds = {r} /\ k = 0
    OBVIOUS
  <2>8. p \in Machine /\ p.d = q.d /\ p.a = q.a /\ p.mem = q.mem /\ p.f = q.f
    BY <1>14, <2>6, <2>7 DEF Machine
  <2>9. Touched(m, p, z, Ds, As, k)
    <3>1. Differing(m, p) = Differing(m, q)
      BY <2>8 DEF Differing
    <3> QED BY <2>4, <2>7, <2>8, <3>1 DEF Touched, Changed
  <2>10. Touched(cpu, cpu', z, Ds, As, k) /\ cpu'.f = cpu.f
    BY <2>1, <2>4, <2>7, <2>8, <2>9
  <2>11. Ds \subseteq DataNamed(i) /\ As \subseteq AddressNamed(i) /\ k \in Nat /\ k <= Bytes(i)
    BY <1>3, <1>16, <2>1, <2>7
  <2>12. i.name \notin KeepX
    BY <1>17
  <2> QED BY <1>2, <1>15, <1>16, <2>10, <2>11, <2>12, GoneRight
<1> QED BY <1>13, <1>18, <1>19

-----------------------------------------------------------------------------
(* Subroutines.                                                            *)

\* What a subroutine is called with lies on the stack.
LEMMA PushRead ==
  ASSUME NEW n \in Machine, NEW v \in Range0(4), NEW p, p = Push(n, v)
  PROVE  Read(p, 4, p.a[7]) = v
<1>1. PICK t : t = [n EXCEPT !.a[7] = Masked(4, n.a[7] - 4)]
  OBVIOUS
<1>2. PICK at \in Int : at = Masked(4, n.a[7] - 4) /\ at \in Range0(4)
  <2>1. n.a[7] - 4 \in Int
    BY MachineIs DEF Registers
  <2>2. Masked(4, n.a[7] - 4) \in Range0(4)
    BY <2>1, MaskedRange, SizeIs
  <2> QED BY <2>2, LongIs
<1>3. t \in Machine /\ t.a[7] = at
  BY <1>1, <1>2 DEF Machine, Registers
<1>4. PICK z \in Sizes : z = 4
  BY SizeIs
<1>5. p = Write(t, z, at, v)
  BY <1>1, <1>2, <1>4 DEF Push
<1>6. Read(p, z, at) = v
  <2>1. v \in Range0(z)
    BY <1>4
  <2> QED BY <1>3, <1>5, <2>1, ReadAgain
<1>7. p.a = t.a
  BY <1>3, <1>5 DEF Write, Machine
<1> QED BY <1>3, <1>4, <1>6, <1>7

Calls(i) == i.name \in {"bsr", "jsr"} /\ i.form = ""

\* A call is right: the address pushed is that of the next instruction.
LEMMA SubroutineRight ==
  ASSUME cpu \in Machine, NEW i, IsInstruction(i), Calls(i), NEW n, NEW As, NEW w,
         Stepped(cpu, n, As, w), As \subseteq AddressNamed(i),
         NEW v \in Range0(4), NEW c \in Range0(4), cpu' = Gone(Push(n, v), c),
         i.ea.more = 0 => v = Masked(4, cpu.pc + Disassembled(i))
  PROVE  Right(i)
<1>1. PICK m, p, Bs, k : m = cpu /\ m \in Machine /\ p = Push(n, v) /\ Bs = As \cup {7} /\ k = 4
  OBVIOUS
<1>2. Kept(cpu, p, Bs, k, w)
  <2>a. v \in Range0(4)
    OBVIOUS
  <2>1. v \in Int
    BY <2>a, LongIs
  <2>2. Stepped(m, n, As, w)
    BY <1>1
  <2>3. Kept(m, p, As \cup {7}, 4, w)
    BY <1>1, <2>1, <2>2, PushKeeps
  <2> QED BY <1>1, <2>3
<1>a. i.name \in {"bsr", "jsr"} /\ i.form = ""
  BY DEF Calls
<1>b. Bytes(i) = 4
  <2>1. CASE i.name = "bsr"
    BY <1>a, <2>1 DEF Bytes
  <2>2. CASE i.name = "jsr"
    BY <1>a, <2>2 DEF Bytes
  <2> QED BY <1>a, <2>1, <2>2
<1>c. 7 \in AddressNamed(i)
  BY <1>a DEF AddressNamed, Stack
<1>3. Bs \subseteq AddressNamed(i) /\ Bytes(i) = 4 /\ i.name \notin KeepX \cup Whole
  <2>1. i.name \notin KeepX \cup Whole
    BY <1>a DEF KeepX, Whole
  <2> QED BY <1>1, <1>b, <1>c, <2>1
<1>4. Bytes(i) \in Nat /\ k \in Nat /\ k <= Bytes(i)
  <2>1. Bytes(i) = 4 /\ k = 4
    BY <1>1, <1>b
  <2> QED BY <2>1
<1>5. Read(cpu', 4, cpu'.a[7]) = v
  <2>1. n \in Machine /\ p \in Machine
    BY <1>2 DEF Stepped, Kept
  <2>2. Read(p, 4, p.a[7]) = v
    BY <1>1, <2>1, PushRead
  <2>3. PICK q : q = cpu'
    OBVIOUS
  <2>4. q.mem = p.mem /\ q.a = p.a
    BY <1>1, <2>1, <2>3 DEF Gone, Machine
  <2>5. Read(q, 4, p.a[7]) = Read(p, 4, p.a[7])
    BY <2>4 DEF Read, ReadEvery, ByteAt
  <2>6. Read(q, 4, q.a[7]) = v
    BY <2>2, <2>4, <2>5
  <2> QED BY <2>3, <2>6
<1>6. i.ea.more = 0 /\ i.to.more = 0 => CounterRight(i)
  BY <1>5, <1>a DEF CounterRight
<1>7. cpu' = Gone(p, c)
  BY <1>1
<1> QED BY <1>2, <1>3, <1>4, <1>6, <1>7, JumpRight

\* bsr is right.
LEMMA BsrRight == ASSUME cpu \in Machine, NEW i, IsInstruction(i), bsr_8(i) \/ bsr_16(i)
  PROVE  Right(i)
<1>1. i.name = "bsr" /\ i.z \in {1, 2} /\ i.form = ""
  BY DEF bsr_8, bsr_16, Does
<1>2. PICK z : z = i.z
  OBVIOUS
<1>3. z \in Sizes /\ i.q \in Range0(z)
  BY <1>2 DEF IsInstruction
<1>4. PICK c : c = Masked(4, Fetched.pc + MakeInt(z, i.q)) /\ c \in Range0(4)
  BY <1>3, AimIs
<1>5. PICK u \in Nat : u = IF z = 1 THEN 0 ELSE 1
  OBVIOUS
<1>6. PICK v : v = Masked(4, cpu.pc + 2 * (1 + u))
  OBVIOUS
<1>7. v \in Range0(4) /\ Skip(Fetched, u).pc = v /\ Fetched.pc = Masked(4, cpu.pc + 2)
  BY <1>6, CounterOf
<1>8. PICK n, As, w : n = Fetched /\ As = {} /\ w = 1 + 0
  OBVIOUS
<1>9. Stepped(cpu, n, As, w) /\ As \subseteq AddressNamed(i)
  BY <1>8, SkippedOn
<1>10. cpu' = Gone(Push(n, v), c)
  <2>1. CASE bsr_8(i)
    <3>1. z = 1 /\ cpu' = Branch(Push(Fetched, Fetched.pc), z, i)
      BY <1>2, <2>1 DEF bsr_8, Does
    <3>2. Fetched.pc = v
      BY <1>5, <1>6, <1>7, <3>1
    <3> QED BY <1>4, <1>8, <3>1, <3>2 DEF Branch, Gone
  <2>2. CASE bsr_16(i)
    <3>1. z = 2 /\ cpu' = Branch(Push(Fetched, Passed.pc), z, i)
      BY <1>2, <2>2 DEF bsr_16, Does
    <3>2. Passed.pc = v
      BY <1>5, <1>7, <3>1 DEF Passed
    <3> QED BY <1>4, <1>8, <3>1, <3>2 DEF Branch, Gone
  <2> QED BY <2>1, <2>2
<1>11. v = Masked(4, cpu.pc + Disassembled(i))
  <2>1. DasmBcc(i) = u
    BY <1>1, <1>2, <1>5 DEF DasmBcc
  <2>2. DasmBra(i) = u
    BY <1>1, <2>1 DEF DasmBra
  <2>3. Disassembled(i) = 2 + 2 * u
    BY <1>1, <2>2 DEF Disassembled
  <2>4. Disassembled(i) = 2 * (1 + u)
    BY <2>3
  <2> QED BY <1>6, <2>4
<1>12. Calls(i)
  BY <1>1 DEF Calls
<1> QED BY <1>4, <1>7, <1>9, <1>10, <1>11, <1>12, SubroutineRight

\* Where a jump goes, and how many words it has.
LEMMA JumpIs ==
  ASSUME cpu \in Machine, NEW i, IsInstruction(i), i.name \in {"jmp", "jsr"}, i.z = 4,
         i.ea.mode \in Control, NEW e, e = Ea(Fetched, 4, i.ea)
  PROVE  \E w \in Nat : /\ Stepped(cpu, e.m, Steps(i.ea), w) /\ e.at \in Range0(4)
                        /\ e.m.pc \in Range0(4)
                        /\ i.ea.more = 0 => e.m.pc = Masked(4, cpu.pc + Disassembled(i))
<1>1. i.ea.mode \in Found /\ i.ea.mode \in Modes \ {"i"}
  BY DEF Control, Found, Modes
<1>2. PICK o, z : o = i.ea /\ z = 4 /\ z \in Sizes /\ IsOperand(o) /\ o.mode \in Found
  BY <1>1, SizeIs DEF IsInstruction
<1>3. e = Ea(Fetched, z, o)
  BY <1>2
<1>4. PICK v \in Nat : v = 0
  OBVIOUS
<1>5. Stepped(cpu, e.m, Steps(o), (1 + v) + Words(z, o)) /\ e.at \in Range0(4)
  BY <1>2, <1>3, <1>4, EaOn
<1>6. PICK w \in Nat : w = (1 + v) + Words(z, o)
  BY <1>2, WordsIs
<1>7. Stepped(cpu, e.m, Steps(o), w)
  BY <1>5, <1>6
<1>8. e.m.pc = Masked(4, cpu.pc + 2 * w) /\ e.m.pc \in Range0(4)
  BY <1>7, MachineIs DEF Stepped
<1>9. i.ea.more = 0 => Disassembled(i) = 2 * w
  <2>1. SUFFICES ASSUME i.ea.more = 0 PROVE Disassembled(i) = 2 * w
    OBVIOUS
  <2>2. PICK u \in Nat : u = Words(z, o) /\ EaModeStr(4, i.ea) = u
    BY <1>1, <1>2, <2>1, EaRead
  <2>3. DasmJmp(i) = u
    BY <2>2 DEF DasmJmp
  <2>4. Disassembled(i) = 2 + 2 * u
    BY <2>3 DEF Disassembled
  <2> QED BY <1>4, <1>6, <2>2, <2>4
<1> QED BY <1>2, <1>5, <1>7, <1>8, <1>9

\* jmp and jsr are right.
LEMMA JmpRight == ASSUME cpu \in Machine, NEW i, IsInstruction(i), jmp_32(i) \/ jsr_32(i)
  PROVE  Right(i)
<1>1. i.name \in {"jmp", "jsr"} /\ i.z = 4 /\ i.ea.mode \in Control /\ i.form = ""
  BY DEF jmp_32, jsr_32, Does
<1>2. PICK e : e = Ea(Fetched, 4, i.ea)
  OBVIOUS
<1>3. PICK w \in Nat :
        /\ Stepped(cpu, e.m, Steps(i.ea), w) /\ e.at \in Range0(4) /\ e.m.pc \in Range0(4)
        /\ i.ea.more = 0 => e.m.pc = Masked(4, cpu.pc + Disassembled(i))
  <2>1. i.name \in {"jmp", "jsr"} /\ i.z = 4 /\ i.ea.mode \in Control
    BY <1>1
  <2> QED BY <1>2, <2>1, JumpIs
<1>4. PICK n, As, k, c, v : n = e.m /\ As = Steps(i.ea) /\ k = 0 /\ c = e.at /\ v = n.pc
  OBVIOUS
<1>5. Stepped(cpu, n, As, w) /\ c \in Range0(4) /\ v \in Range0(4)
      /\ As \subseteq AddressNamed(i)
      /\ (i.ea.more = 0 => v = Masked(4, cpu.pc + Disassembled(i)))
  BY <1>3, <1>4 DEF AddressNamed
<1>6. CASE jsr_32(i)
  <2>1. Calls(i) /\ cpu' = Gone(Push(n, v), c)
    BY <1>2, <1>4, <1>6 DEF jsr_32, Does, Gone, Calls
  <2> QED BY <1>5, <2>1, SubroutineRight
<1>7. CASE jmp_32(i)
  <2>1. i.name = "jmp" /\ cpu' = Gone(n, c)
    BY <1>2, <1>4, <1>7 DEF jmp_32, Does, Gone
  <2>2. Kept(cpu, n, As, k, w)
    <3>1. PICK m : m = cpu /\ m \in Machine /\ Stepped(m, n, As, w)
      BY <1>5
    <3>2. Kept(m, n, As, 0, w)
      BY <3>1, KeptStepped
    <3> QED BY <1>4, <3>1, <3>2
  <2>3. Bytes(i) \in Nat /\ k \in Nat /\ k <= Bytes(i)
    <3>1. Bytes(i) = 4
      BY <1>1, <2>1 DEF Bytes
    <3> QED BY <1>4, <3>1
  <2>4. i.name \notin KeepX \cup Whole /\ CounterRight(i)
    BY <2>1 DEF KeepX, Whole, CounterRight
  <2> QED BY <1>5, <2>1, <2>2, <2>3, <2>4, JumpRight
<1> QED BY <1>6, <1>7

\* Returns.
LEMMA RtsRight == ASSUME cpu \in Machine, NEW i, IsInstruction(i), rts_32(i)
  PROVE  Right(i)
<1>1. i.name = "rts" /\ i.z = 4 /\ cpu' = Return(Fetched) /\ i.form = ""
  BY DEF rts_32, Does
<1>2. PICK n, Bs, w, r, m : n = Fetched /\ Bs = {} /\ w = 1 + 0 /\ r = 7 /\ m = cpu
      /\ m \in Machine
  OBVIOUS
<1>3. Stepped(m, n, Bs, w) /\ n \in Machine /\ r \in Registers
  BY <1>2, SkippedOn DEF Stepped, Registers
<1>4. n.a[7] \in Int
  BY <1>2, <1>3, MachineIs
<1>5. PICK t \in Int : t = n.a[7] + 4
  BY <1>4
<1>6. PICK p, As, k : p = PutA(n, r, t) /\ As = Bs \cup {r} /\ k = 0
  OBVIOUS
<1>7. Stepped(m, p, As, w)
  <2>a. m \in Machine /\ Stepped(m, n, Bs, w) /\ r \in Registers /\ t \in Int
        /\ p = PutA(n, r, t)
    BY <1>2, <1>3, <1>5, <1>6
  <2>1. Stepped(m, p, Bs \cup {r}, w)
    BY <2>a, PutASteps
  <2> QED BY <1>6, <2>1
<1>8. Kept(cpu, p, As, k, w)
  <2>1. Kept(m, p, As, 0, w)
    BY <1>2, <1>7, KeptStepped
  <2> QED BY <1>2, <1>6, <2>1
<1>9. PICK c : c = Read(n, 4, n.a[7])
  OBVIOUS
<1>10. c \in Range0(4)
  BY <1>3, <1>4, <1>9, ReadRange, SizeIs DEF Read
<1>11. cpu' = Gone(p, c)
  <2>1. p = Pulled(n, 4)
    BY <1>2, <1>3, <1>5, <1>6 DEF Pulled, PutA, Machine
  <2> QED BY <1>1, <1>2, <1>9, <2>1 DEF Return, Gone
<1>12. Bytes(i) \in Nat /\ k \in Nat /\ k <= Bytes(i)
  <2>1. Bytes(i) = 4
    BY <1>1 DEF Bytes
  <2> QED BY <1>6, <2>1
<1>13. i.name \notin KeepX \cup Whole /\ CounterRight(i) /\ As \subseteq AddressNamed(i)
  BY <1>1, <1>2, <1>6 DEF KeepX, Whole, CounterRight, AddressNamed, Stack
<1> QED BY <1>8, <1>10, <1>11, <1>12, <1>13, JumpRight

\* rtr is right: the flags, then the address.
LEMMA RtrRight == ASSUME cpu \in Machine, NEW i, IsInstruction(i), rtr_32(i)
  PROVE  Right(i)
<1>1. i.name = "rtr" /\ i.z = 4 /\ i.form = ""
      /\ cpu' = Return([Pulled(Fetched, 2) EXCEPT !.f = SetCcr(Read(cpu, 2, cpu.a[7]))])
  BY DEF rtr_32, Does
<1>2. PICK m, n, r : m = cpu /\ m \in Machine /\ n = Fetched /\ r = 7
  OBVIOUS
<1>a. r \in Registers
  BY <1>2 DEF Registers
<1>3. n \in Machine /\ n.d = m.d /\ n.a = m.a /\ n.mem = m.mem
  <2>1. n = [m EXCEPT !.pc = Masked(4, m.pc + 2 * 1)]
    BY <1>2 DEF Fetched, Skip, Machine
  <2>2. Stepped(cpu, n, {}, 1 + 0)
    BY <1>2, SkippedOn
  <2> QED BY <1>2, <2>1, <2>2 DEF Stepped, Machine
<1>4. PICK f \in Flags : f = SetCcr(Read(cpu, 2, cpu.a[7]))
  <2>1. cpu.a[7] \in Int
    BY <1>a, <1>2, MachineIs
  <2>2. Read(cpu, 2, cpu.a[7]) \in Int
    <3>1. Read(cpu, 2, cpu.a[7]) \in Range0(2)
      BY <2>1, ReadRange, SizeIs DEF Read
    <3> QED BY <3>1, SizeIs, MaskedSame
  <2> QED BY <2>2, SetCcrTyped
<1>5. PICK s \in Range0(4) : s = Masked(4, n.a[r] + 2)
  BY <1>a, <1>3, MachineIs, MaskedRange, SizeIs
<1>6. PICK q : q = [n EXCEPT !.a[r] = s, !.f = f]
  OBVIOUS
<1>7. /\ q \in Machine /\ q.d = m.d /\ q.mem = m.mem /\ q.a[r] = s
      /\ \A x \in Registers : x # r => q.a[x] = m.a[x]
  BY <1>a, <1>3, <1>6 DEF Machine
<1>8. q = [Pulled(n, 2) EXCEPT !.f = f]
  BY <1>2, <1>3, <1>5, <1>6 DEF Pulled, Machine
<1>9. PICK c \in Range0(4) : c = Read(q, 4, q.a[7])
  <2>1. q.a[7] \in Int
    BY <1>a, <1>2, <1>7, MachineIs
  <2>2. Read(q, 4, q.a[7]) \in Range0(4)
    BY <1>7, <2>1, ReadRange, SizeIs DEF Read
  <2> QED BY <2>2
<1>10. PICK t \in Range0(4) : t = Masked(4, q.a[r] + 4)
  BY <1>a, <1>7, MachineIs, MaskedRange, SizeIs
<1>11. PICK p : p = cpu'
  OBVIOUS
<1>12. p = [q EXCEPT !.a[r] = t, !.pc = c]
  <2>1. p = [Pulled(q, 4) EXCEPT !.pc = c]
    BY <1>1, <1>2, <1>4, <1>8, <1>9, <1>11 DEF Return
  <2>2. Pulled(q, 4) = [q EXCEPT !.a[r] = t]
    BY <1>2, <1>7, <1>10 DEF Pulled, Machine
  <2> QED BY <1>7, <2>1, <2>2 DEF Machine
<1>13. /\ p \in Machine /\ p.d = m.d /\ p.mem = m.mem
       /\ \A x \in Registers : x # r => p.a[x] = m.a[x]
  BY <1>a, <1>7, <1>12 DEF Machine
<1>14. PICK z, Ds, As, k : z = i.z /\ Ds = {} /\ As = {r} /\ k = 0
  OBVIOUS
<1>15. Touched(m, p, z, Ds, As, k)
  <2>1. Cardinality(Differing(m, p)) = 0
    BY <1>2, <1>13, SameBytes
  <2> QED BY <1>13, <1>14, <2>1 DEF Touched
<1>16. Touched(cpu, cpu', z, Ds, As, k)
  BY <1>2, <1>11, <1>15
<1>17. Bytes(i) \in Nat /\ k \in Nat /\ k <= Bytes(i)
  <2>1. Bytes(i) = 4
    BY <1>1 DEF Bytes
  <2> QED BY <1>14, <2>1
<1>18. Ds \subseteq DataNamed(i) /\ As \subseteq AddressNamed(i) /\ CounterRight(i)
      /\ i.name \notin KeepX
       /\ i.name \notin Silent
  BY <1>1, <1>2, <1>14 DEF KeepX, Silent, CounterRight, AddressNamed, Stack
<1> QED BY <1>14, <1>16, <1>17, <1>18, GoneRight

-----------------------------------------------------------------------------
(* Every handler.                                                          *)

\* The handlers of m68kops.c, by the way they work.
OtherHandlers(i) ==
  \/ cmpm_8(i) \/ cmpm_16(i) \/ cmpm_32(i) \/ andi_16_toc(i) \/ ori_16_toc(i) \/ eori_16_toc(i)
  \/ nop(i) \/ trapv(i) \/ dbt_16(i) \/ addq_16_a(i) \/ addq_32_a(i) \/ subq_16_a(i)
     \/ subq_32_a(i)
  \/ moveq_32(i) \/ chk_16(i) \/ tas_8(i) \/ movep_16_er(i) \/ movep_32_er(i) \/ movep_16_re(i)
  \/ movep_32_re(i) \/ lea_32(i) \/ pea_32(i) \/ link_16(i) \/ link_16_a7(i) \/ unlk_32(i)
  \/ unlk_32_a7(i) \/ bsr_8(i) \/ bsr_16(i) \/ jmp_32(i) \/ jsr_32(i) \/ rts_32(i) \/ rtr_32(i)
Handlers(i) ==
  \/ ErHandlers(i) \/ ReHandlers(i) \/ ImmHandlers(i) \/ QuickHandlers(i) \/ ShiftSHandlers(i)
  \/ ShiftRHandlers(i) \/ ShiftMHandlers(i) \/ UnaryHandlers(i) \/ BitRHandlers(i)
     \/ BitSHandlers(i)
  \/ ShowHandlers(i) \/ AgainstHandlers(i) \/ LongHandlers(i) \/ RrHandlers(i) \/ MmHandlers(i)
  \/ ToAHandlers(i) \/ MoveHandlers(i) \/ FillHandlers(i) \/ ExgHandlers(i) \/ SaveHandlers(i)
  \/ RestoreHandlers(i) \/ BranchHandlers(i) \/ LoopHandlers(i) \/ OtherHandlers(i)
Handling == Arithmetic \/ Logic \/ Shifting \/ Multiplying \/ Moving \/ Addressing \/ Flowing

\* Every instruction is executed by one of these handlers.
LEMMA HandlersAre == ASSUME Handling PROVE Running /\ Handlers(Instr)
<1>1. PICK i : i = Instr
  OBVIOUS
<1>2. CASE Arithmetic
  BY <1>1, <1>2
     DEF Arithmetic, Handlers, OtherHandlers, ErHandlers, ReHandlers, ImmHandlers, QuickHandlers,
         UnaryHandlers, ShowHandlers, AgainstHandlers, RrHandlers, MmHandlers, ToAHandlers
<1>3. CASE Logic
  BY <1>1, <1>3
     DEF Logic, Handlers, OtherHandlers, ErHandlers, ReHandlers, ImmHandlers, UnaryHandlers,
         BitRHandlers, BitSHandlers, ShowHandlers, AgainstHandlers
<1>4. CASE Shifting
  BY <1>1, <1>4 DEF Shifting, Handlers, ShiftSHandlers, ShiftRHandlers, ShiftMHandlers
<1>5. CASE Multiplying
  BY <1>1, <1>5
     DEF Multiplying, Handlers, RrHandlers, MmHandlers, UnaryHandlers, LongHandlers, FillHandlers
<1>6. CASE Moving
  BY <1>1, <1>6
     DEF Moving, Handlers, OtherHandlers, MoveHandlers, ToAHandlers, ShowHandlers, SaveHandlers,
         RestoreHandlers
<1>7. CASE Addressing
  BY <1>1, <1>7 DEF Addressing, Handlers, OtherHandlers, ExgHandlers, FillHandlers
<1>8. CASE Flowing
  BY <1>1, <1>8 DEF Flowing, Handlers, OtherHandlers, BranchHandlers, LoopHandlers
<1> QED BY <1>2, <1>3, <1>4, <1>5, <1>6, <1>7, <1>8 DEF Handling

\* Those with no shape in common are right,
LEMMA OtherRight == ASSUME cpu \in Machine, NEW i, IsInstruction(i), OtherHandlers(i)
  PROVE  Right(i)
BY CmpmRight, CcrRight, NopRight, QuickARight, MoveqRight, ChkRight, TasRight, RestoreBytesRight,
   SaveBytesRight, LeaRight, PeaRight, LinkRight, UnlkRight, BsrRight, JmpRight, RtsRight,
       RtrRight
   DEF OtherHandlers

\* so every handler of the 68000 is.
LEMMA HandlersRight == ASSUME cpu \in Machine, NEW i, IsInstruction(i), Handlers(i)
  PROVE  Right(i)
BY ErRight, ReRight, ImmRight, QuickRight, ShiftSRight, ShiftRRight, ShiftMRight, UnaryRight,
   BitRRight, BitSRight, ShowRight, AgainstRight, LongRight, RrRight, MmRight, ToARight,
       MoveRight,
   FillRight, ExgRight, SaveRight, RestoreRight, BranchRight, LoopRight, OtherRight
   DEF Handlers

-----------------------------------------------------------------------------
(* Every step.                                                             *)

\* The instruction at the counter is one, as long as the code is a program.
IInv == TypeOK /\ code \in Programs

\* What is executed is an instruction.
LEMMA InstrIs == ASSUME IInv, Running PROVE IsInstruction(Instr)
BY ProgramAssumption DEF IInv, Running, Instr

\* A write that Xosera ignores changes nothing but the counter.
LEMMA UnreadyRight == ASSUME IInv, Unready PROVE Right(Instr)
<1>1. PICK i : i = Instr /\ i = Movep("re", 0, Di(XM_XR_ADDR, 0)) /\ cpu' = Skip(cpu, 2)
  BY DEF Unready
<1>2. /\ i.name = "movep" /\ i.form = "re" /\ i.z = 2 /\ i.ea.more = 0 /\ i.to.more = 0
      /\ cpu \in Machine
  BY <1>1 DEF Movep, Plain, None, Di, IInv, TypeOK
<1>3. IsInstruction(i)
  BY <1>1, InstrIs DEF Unready
<1>4. PICK m, p, As, k, w : m = cpu /\ m \in Machine /\ p = cpu' /\ As = {} /\ k = 0 /\ w = 2
  BY <1>2
<1>5. Stepped(m, p, As, w)
  <2>1. w \in Nat /\ p = Skip(m, w)
    BY <1>1, <1>4
  <2>2. Stepped(m, Skip(m, w), {}, w)
    BY <1>4, <2>1, SkipSteps
  <2> QED BY <1>4, <2>1, <2>2
<1>6. Kept(m, p, As, 0, w)
  BY <1>4, <1>5, KeptStepped
<1>7. Kept(cpu, cpu', As, k, w) /\ As \subseteq AddressNamed(i)
  BY <1>4, <1>6
<1>8. Bytes(i) \in Nat /\ k \in Nat /\ k <= Bytes(i)
  <2>1. Bytes(i) = 2
    BY <1>2 DEF Bytes
  <2> QED BY <1>4, <2>1
<1>9. Disassembled(i) = 2 * w
  <2>1. i.name = "movep"
    BY <1>2
  <2>2. DasmMovep(i) = 1
    BY <2>1 DEF DasmMovep
  <2>3. Disassembled(i) = 2 + 2 * 1
    BY <2>1, <2>2 DEF Disassembled
  <2> QED BY <1>4, <2>3
<1>10. i.name \notin Elsewhere
  BY <1>2 DEF Elsewhere
<1>11. Right(i)
  BY <1>2, <1>3, <1>7, <1>8, <1>9, <1>10, KeptRight
<1> QED BY <1>1, <1>11

\* Every instruction executed is right, and none changes the program.
LEMMA StepsRight == ASSUME IInv, Next, Running PROVE Right(Instr) /\ UNCHANGED <<start, code>>
<1>1. CASE Unready
  BY <1>1, UnreadyRight DEF Unready
<1>2. CASE Handling /\ Quiet
  <2>1. PICK i : i = Instr
    OBVIOUS
  <2>2. IsInstruction(i) /\ Handlers(i) /\ cpu \in Machine
    BY <1>2, <2>1, InstrIs, HandlersAre DEF IInv, TypeOK
  <2>3. Right(i)
    BY <2>2, HandlersRight
  <2> QED BY <1>2, <2>1, <2>3 DEF Quiet
<1> QED BY <1>1, <1>2 DEF Next, Handling, Ended

\* The machines a program starts on are machines.
LEMMA Initially == ASSUME InitTest PROVE IInv
<1>1. PICK m \in Images(code) : cpu = [m EXCEPT !.pc = Org]
  BY DEF InitTest, Init
<1>2. code \in Programs /\ start = cpu
  BY DEF InitTest, Init
<1>3. m \in Machine /\ Org \in Range0(4)
  BY <1>1, <1>2, ProgramAssumption
<1>4. cpu \in Machine
  BY <1>1, <1>3 DEF Machine
<1> QED BY <1>2, <1>4 DEF IInv, TypeOK

\* Every step keeps the invariant.
LEMMA Stays == ASSUME IInv, [Next]_vars PROVE IInv'
<1>1. CASE Next /\ Running
  BY <1>1, StepsRight DEF IInv, TypeOK, Right
<1>2. CASE Next /\ ~Running
  <2>1. ~Unready
    BY <1>2 DEF Unready
  <2>2. ~Handling
    BY <1>2, HandlersAre
  <2>3. Ended
    BY <1>2, <2>1, <2>2 DEF Next, Handling
  <2> QED BY <2>3 DEF Ended, IInv, TypeOK
<1>3. CASE UNCHANGED vars
  BY <1>3 DEF vars, IInv, TypeOK
<1> QED BY <1>1, <1>2, <1>3

\* Every program, run on every machine it may start on, keeps the types of registers, memory,
\* counter and flags (TypeOK): no handler leaves a value wider than its size.
THEOREM MachineTyped == Spec => []TypeOK
<1>1. InitTest => IInv
  BY Initially
<1>2. IInv /\ [Next]_vars => IInv'
  BY Stays
<1>3. IInv => TypeOK
  BY DEF IInv
<1> QED BY <1>1, <1>2, <1>3, PTL DEF Spec

\* The invariant the other theorems need.
LEMMA Invariant == Spec => []IInv
<1>1. InitTest => IInv
  BY Initially
<1>2. IInv /\ [Next]_vars => IInv'
  BY Stays
<1> QED BY <1>1, <1>2, PTL DEF Spec

\* An instruction changes the registers and as many bytes as it names, of a data register the
\* low part only, and X and the flags only if it is to (OnlyDestination), in every program.
THEOREM Destinations == Spec => OnlyDestination
<1>1. IInv /\ [Next]_vars => [Running => OnlyNamed(Instr)]_cpu
  BY StepsRight DEF Right, vars
<1> QED BY <1>1, Invariant, PTL DEF Spec, OnlyDestination

\* The counter moves over the words the disassembler reads, or is set to the target the
\* instruction names, and a call pushes the address behind itself (LengthsAgree), in every program.
THEOREM Lengths == Spec => LengthsAgree
<1>1. IInv /\ [Next]_vars
        => [Running /\ Instr.ea.more = 0 /\ Instr.to.more = 0 => CounterRight(Instr)]_cpu
  BY StepsRight DEF Right, vars
<1> QED BY <1>1, Invariant, PTL DEF Spec, LengthsAgree

-----------------------------------------------------------------------------
(* Sums and differences against integers.                                  *)

\* What a result and its flags say of two integers that are modulo the size
\* the same sum: of the operands as unsigned numbers, and as signed ones.
Exactly(z, q, unsigned, signed) ==
  /\ (q.f.c = 1) <=> unsigned \notin Range0(z)
  /\ (q.f.v = 1) <=> signed \notin (-Half[z])..(Half[z] - 1)
  /\ q.v = Low1(z, unsigned)
  /\ q.f.x = q.f.c
  /\ (q.f.n = 1) <=> Signed(z, q.v) < 0

\* MAKE_INT is the value of a two's complement number.
LEMMA SignedIs == ASSUME NEW z \in Sizes, NEW v \in Range0(z)
  PROVE  MakeInt(z, v) = Signed(z, v) /\ Signed(z, v) \in Int
BY SignedValue DEF Signed

\* A flag is 1 when its condition holds.
LEMMA BitIs == ASSUME NEW c \in BOOLEAN PROVE (Bit(c) = 1) <=> c
BY DEF Bit

\* A sum.
LEMMA AddedExactly ==
  ASSUME NEW z \in Sizes, NEW s \in Range0(z), NEW d \in Range0(z), NEW x \in {0, 1},
         NEW q, q = Sum(z, s, d, d + s + x)
  PROVE  Exactly(z, q, d + s + x, Signed(z, d) + Signed(z, s) + x) /\ ((q.f.z = 1) <=> q.v = 0)
<1>1. PICK h \in Nat \ {0} : h = Half[z] /\ Mod(z) = 2 * h
  BY Widths
<1>2. s \in Int /\ d \in Int /\ 0 <= s /\ s < 2 * h /\ 0 <= d /\ d < 2 * h /\ x \in Int
      /\ 0 <= x /\ x <= 1
  BY <1>1 DEF Range0
<1>3. PICK r \in Int : r = d + s + x /\ 0 <= r /\ r < 4 * h
  BY <1>2
<1>4. PICK t \in Int : t = MakeInt(z, s) + MakeInt(z, d) + x
  BY <1>2, SignedIs
<1>5. /\ q.v = IF r < 2 * h THEN r ELSE r - 2 * h
      /\ q.f.c = Bit(r >= 2 * h) /\ q.f.x = q.f.c /\ q.f.n = Bit(MakeInt(z, q.v) < 0)
      /\ q.f.z = Bit(q.v = 0) /\ q.f.v = Bit(t \notin (-h)..(h - 1))
  <2>1. /\ q.v = IF d + s + x < Mod(z) THEN d + s + x ELSE d + s + x - Mod(z)
        /\ q.f.c = Bit(d + s + x >= Mod(z)) /\ q.f.x = q.f.c /\ q.f.n = Bit(MakeInt(z, q.v) < 0)
        /\ q.f.z = Bit(q.v = 0)
        /\ q.f.v = Bit(MakeInt(z, s) + MakeInt(z, d) + x \notin (-Half[z])..(Half[z] - 1))
    BY SumExact
  <2>2. q.v = (IF r < 2 * h THEN r ELSE r - 2 * h) /\ q.f.c = Bit(r >= 2 * h)
    <3>1. PICK v, c : v = q.v /\ c = q.f.c
      OBVIOUS
    <3>2. v = IF r < 2 * h THEN r ELSE r - 2 * h
      <4>1. d + s + x = r /\ Mod(z) = 2 * h
        BY <1>1, <1>3
      <4>2. v = IF d + s + x < Mod(z) THEN d + s + x ELSE d + s + x - Mod(z)
        BY <2>1, <3>1
      <4> QED BY <1>1, <1>2, <1>3, <4>1, <4>2
    <3>3. c = Bit(r >= 2 * h)
      BY <1>1, <1>3, <2>1, <3>1
    <3> QED BY <3>1, <3>2, <3>3
  <2>3. q.f.v = Bit(t \notin (-h)..(h - 1))
    BY <1>1, <1>4, <2>1
  <2> QED BY <2>1, <2>2, <2>3
<1>6. q.v \in Range0(z)
  BY <1>1, <1>2, <1>3, <1>5 DEF Range0
<1>7. Low1(z, r) = q.v
  <2>1. Masked(z, r) = IF r < 0 THEN r + Mod(z) ELSE IF r < Mod(z) THEN r ELSE r - Mod(z)
    BY <1>1, <1>3, Bits2
  <2> QED BY <1>1, <1>3, <1>5, <2>1 DEF Low1, Masked
<1>8. r \notin Range0(z) <=> r >= 2 * h
  BY <1>1, <1>3 DEF Range0
<1>9. t = Signed(z, d) + Signed(z, s) + x
  BY <1>2, <1>4, SignedIs
<1>10. MakeInt(z, q.v) = Signed(z, q.v)
  BY <1>6, SignedIs
<1> QED BY <1>1, <1>3, <1>5, <1>7, <1>8, <1>9, <1>10 DEF Exactly, Bit

\* A difference.
LEMMA SubtractedExactly ==
  ASSUME NEW z \in Sizes, NEW s \in Range0(z), NEW d \in Range0(z), NEW x \in {0, 1},
         NEW q, q = Difference(z, s, d, d - s - x)
  PROVE  Exactly(z, q, d - s - x, Signed(z, d) - Signed(z, s) - x) /\ ((q.f.z = 1) <=> q.v = 0)
<1>1. PICK h \in Nat \ {0} : h = Half[z] /\ Mod(z) = 2 * h
  BY Widths
<1>2. s \in Int /\ d \in Int /\ 0 <= s /\ s < 2 * h /\ 0 <= d /\ d < 2 * h /\ x \in Int
      /\ 0 <= x /\ x <= 1
  BY <1>1 DEF Range0
<1>3. PICK r \in Int : r = d - s - x /\ -(2 * h) <= r /\ r < 2 * h
  BY <1>2
<1>4. PICK t \in Int : t = MakeInt(z, d) - MakeInt(z, s) - x
  BY <1>2, SignedIs
<1>5. /\ q.v = IF r < 0 THEN r + 2 * h ELSE r
      /\ q.f.c = Bit(r < 0) /\ q.f.x = q.f.c /\ q.f.n = Bit(MakeInt(z, q.v) < 0)
      /\ q.f.z = Bit(q.v = 0) /\ q.f.v = Bit(t \notin (-h)..(h - 1))
  <2>1. /\ q.v = IF d - s - x < 0 THEN d - s - x + Mod(z) ELSE d - s - x
        /\ q.f.c = Bit(d - s - x < 0) /\ q.f.x = q.f.c /\ q.f.n = Bit(MakeInt(z, q.v) < 0)
        /\ q.f.z = Bit(q.v = 0)
        /\ q.f.v = Bit(MakeInt(z, d) - MakeInt(z, s) - x \notin (-Half[z])..(Half[z] - 1))
    BY DifferenceExact
  <2> QED BY <1>1, <1>3, <1>4, <2>1
<1>6. q.v \in Range0(z)
  BY <1>1, <1>2, <1>3, <1>5 DEF Range0
<1>7. Low1(z, r) = q.v
  <2>1. Masked(z, r) = IF r < 0 THEN r + Mod(z) ELSE IF r < Mod(z) THEN r ELSE r - Mod(z)
    BY <1>1, <1>3, Bits2
  <2> QED BY <1>1, <1>3, <1>5, <2>1 DEF Low1, Masked
<1>8. r \notin Range0(z) <=> r < 0
  BY <1>1, <1>3 DEF Range0
<1>9. t = Signed(z, d) - Signed(z, s) - x
  BY <1>2, <1>4, SignedIs
<1>10. MakeInt(z, q.v) = Signed(z, q.v)
  BY <1>6, SignedIs
<1> QED BY <1>1, <1>3, <1>5, <1>7, <1>8, <1>9, <1>10 DEF Exactly, Bit

\* With X, Z holds over all parts of a number.
LEMMA ChainedExactly ==
  ASSUME NEW z, NEW f, NEW q, NEW u, NEW t, Exactly(z, q, u, t), (q.f.z = 1) <=> q.v = 0,
         q = [v |-> q.v, f |-> q.f], q.f \in Flags, NEW p, p = Chained(f, q)
  PROVE  Exactly(z, p, u, t) /\ ((p.f.z = 1) <=> (p.v = 0 /\ f.z = 1))
<1>1. p = [v |-> q.v, f |-> [q.f EXCEPT !.z = Bit(f.z = 1 /\ q.f.z = 1)]]
  BY DEF Chained
<1>2. /\ p.v = q.v /\ p.f.c = q.f.c /\ p.f.x = q.f.x /\ p.f.n = q.f.n /\ p.f.v = q.f.v
      /\ p.f.z = Bit(f.z = 1 /\ q.f.z = 1)
  BY <1>1 DEF Flags
<1> QED BY <1>2 DEF Exactly, Bit

\* The operations by their names, on the operands as the property has them.
Summing == {"add", "addi", "addq", "addx", "sub", "subi", "subq", "subx", "neg", "negx"}
Negating == {"neg", "negx", "nbcd"}
Summed(name, z, f, s, d, q) ==
  LET x == IF name \in Chaining THEN f.x ELSE 0
      sum(a, b) == IF name \in Adding THEN b + a + x ELSE b - a - x
  IN /\ Exactly(z, q, sum(s, d), sum(Signed(z, s), Signed(z, d)))
     /\ (q.f.z = 1) <=> (q.v = 0 /\ (name \in Chaining => f.z = 1))

\* Each operation of the group is its sum or difference, of unsigned and of signed operands,
\* with the carry of a chain.
LEMMA OpSums ==
  ASSUME NEW name \in Summing, NEW z \in Sizes, NEW f \in Flags,
         NEW s \in Range0(z), NEW d \in Range0(z), name \in Negating => d = 0,
         NEW q, q = Op(name, z, f, s, IF name \in Negating THEN s ELSE d)
  PROVE  Summed(name, z, f, s, d, q)
<1>1. f.x \in {0, 1} /\ s \in Int /\ d \in Int /\ f.x \in Int
  BY Widths DEF Flags, Range0
<1>2. PICK a, b : a = Signed(z, s) /\ b = Signed(z, d) /\ a \in Int /\ b \in Int
  BY SignedIs
<1>3. CASE name \in {"add", "addi", "addq"}
  <2>1. q = Sum(z, s, d, d + s + 0)
    <3>1. q = Add(z, f, s, d)
      BY <1>3 DEF Op, Negating
    <3> QED BY <1>1, <3>1 DEF Add
  <2>2. Exactly(z, q, d + s + 0, b + a + 0) /\ ((q.f.z = 1) <=> q.v = 0)
    BY <1>2, <2>1, AddedExactly
  <2> QED BY <1>2, <1>3, <2>2 DEF Summed, Chaining, Adding
<1>4. CASE name \in {"sub", "subi", "subq"}
  <2>1. q = Difference(z, s, d, d - s - 0)
    <3>1. q = Sub(z, f, s, d)
      BY <1>4 DEF Op, Negating
    <3> QED BY <1>1, <3>1 DEF Sub
  <2>2. Exactly(z, q, d - s - 0, b - a - 0) /\ ((q.f.z = 1) <=> q.v = 0)
    BY <1>2, <2>1, SubtractedExactly
  <2> QED BY <1>2, <1>4, <2>2 DEF Summed, Chaining, Adding
<1>5. CASE name = "neg"
  <2>1. q = Difference(z, s, d, d - s - 0)
    <3>1. q = Neg(z, f, s) /\ d = 0
      BY <1>5 DEF Op, Negating
    <3>2. 0 - s = 0 - s - 0
      BY <1>1
    <3> QED BY <3>1, <3>2 DEF Neg
  <2>2. Exactly(z, q, d - s - 0, b - a - 0) /\ ((q.f.z = 1) <=> q.v = 0)
    BY <1>2, <2>1, SubtractedExactly
  <2> QED BY <1>2, <1>5, <2>2 DEF Summed, Chaining, Adding
<1>6. CASE name = "addx"
  <2>1. PICK p : p = Sum(z, s, d, d + s + f.x) /\ q = Chained(f, p)
    <3>1. q = AddX(z, f, s, d)
      BY <1>6 DEF Op, Negating
    <3> QED BY <1>1, <3>1 DEF AddX
  <2>2. Exactly(z, p, d + s + f.x, b + a + f.x) /\ ((p.f.z = 1) <=> p.v = 0)
    BY <1>1, <1>2, <2>1, AddedExactly
  <2>3. p = [v |-> p.v, f |-> p.f] /\ p.f \in Flags
    <3>1. Typed(z, p)
      BY <1>1, <2>1, SumTyped
    <3> QED BY <2>1, <3>1 DEF Typed, Sum, Result
  <2>4. Exactly(z, q, d + s + f.x, b + a + f.x) /\ ((q.f.z = 1) <=> (q.v = 0 /\ f.z = 1))
    BY <2>1, <2>2, <2>3, ChainedExactly
  <2> QED BY <1>2, <1>6, <2>4 DEF Summed, Chaining, Adding
<1>7. CASE name \in {"subx", "negx"}
  <2>1. PICK p : p = Difference(z, s, d, d - s - f.x) /\ q = Chained(f, p)
    <3>1. name = "subx" => q = SubX(z, f, s, d)
      BY <1>7 DEF Op, Negating
    <3>2. name = "negx" => q = NegX(z, f, s) /\ d = 0
      BY <1>7 DEF Op, Negating
    <3> QED BY <1>1, <1>7, <3>1, <3>2 DEF SubX, NegX
  <2>2. Exactly(z, p, d - s - f.x, b - a - f.x) /\ ((p.f.z = 1) <=> p.v = 0)
    BY <1>1, <1>2, <2>1, SubtractedExactly
  <2>3. p = [v |-> p.v, f |-> p.f] /\ p.f \in Flags
    <3>1. Typed(z, p)
      BY <1>1, <2>1, SumTyped
    <3> QED BY <2>1, <3>1 DEF Typed, Difference, Result
  <2>4. Exactly(z, q, d - s - f.x, b - a - f.x) /\ ((q.f.z = 1) <=> (q.v = 0 /\ f.z = 1))
    BY <2>1, <2>2, <2>3, ChainedExactly
  <2> QED BY <1>2, <1>7, <2>4 DEF Summed, Chaining, Adding
<1> QED BY <1>3, <1>4, <1>5, <1>6, <1>7 DEF Summing

\* A comparison shows the order of the operands.
LEMMA CmpOrders ==
  ASSUME NEW z \in Sizes, NEW f \in Flags, NEW s \in Range0(z), NEW d \in Range0(z),
         NEW q, q = Cmp(z, f, s, d)
  PROVE  /\ OrderShown(z, s, d, q.f) /\ q.f.x = f.x
         /\ (q.f.c = 1) <=> d - s \notin Range0(z)
         /\ (q.f.v = 1) <=> Signed(z, d) - Signed(z, s) \notin (-Half[z])..(Half[z] - 1)
<1>1. PICK a, b : a = Signed(z, s) /\ b = Signed(z, d) /\ a \in Int /\ b \in Int
                  /\ MakeInt(z, s) = a /\ MakeInt(z, d) = b
  BY SignedIs
<1>2. PICK g : g = q.f /\ /\ Condition("eq", g) <=> d = s
                          /\ Condition("hi", g) <=> d > s
                          /\ Condition("cc", g) <=> d >= s
                          /\ Condition("ge", g) <=> b >= a
                          /\ Condition("gt", g) <=> b > a
                          /\ g.x = f.x
  BY <1>1, ComparisonDecides
<1>3. Condition("lt", g) <=> b < a
  <2>1. Condition("lt", g) <=> ~Condition("ge", g)
    BY DEF Condition
  <2> QED BY <1>1, <1>2, <2>1
<1>4. Condition("le", g) <=> b <= a
  <2>1. g \in Flags
    BY <1>2, CmpFlags
  <2>2. Condition("le", g) <=> ~Condition("gt", g)
    BY <2>1 DEF Condition, Flags
  <2> QED BY <1>1, <1>2, <2>2
<1>5. PICK p : p = Difference(z, s, d, d - s - 0)
  OBVIOUS
<1>6. s \in Int /\ d \in Int /\ d - s = d - s - 0 /\ b - a = b - a - 0
  BY <1>1, Widths DEF Range0
<1>7. Exactly(z, p, d - s, b - a)
  BY <1>1, <1>5, <1>6, SubtractedExactly
<1>8. g.c = p.f.c /\ g.v = p.f.v
  <2>1. p.f \in Flags
    <3>1. d - s - 0 \in Int
      BY <1>6
    <3> QED BY <1>5, <1>6, <3>1, SumTyped DEF Typed
  <2>2. g = [p.f EXCEPT !.x = f.x]
    BY <1>2, <1>5, <1>6 DEF Cmp, Result
  <2> QED BY <2>1, <2>2 DEF Flags
<1> QED BY <1>1, <1>2, <1>3, <1>4, <1>7, <1>8 DEF OrderShown, Exactly

-----------------------------------------------------------------------------
(* Operands in registers.                                                  *)

\* A handler leaves a result and its flags, of the operands as the property
\* has them.
Leaves(i, s, d, q) == Operands(i) = <<s, d>> /\ Outcome(i) = q.v /\ cpu'.f = q.f
Computes(i) ==
  \E s, d \in Range0(i.z) : \E q :
    /\ q = Op(i.name, i.z, cpu.f, s, IF i.name \in Negating THEN s ELSE d)
    /\ i.name \in Negating => d = 0
    /\ Leaves(i, s, d, q)

\* A result in a data register, and its flags.
LEMMA SettledLeaves ==
  ASSUME cpu \in Machine, NEW n \in Machine, n.d = cpu.d, NEW z \in Sizes,
         NEW x \in Registers, NEW q, Typed(z, q), NEW p, p = Settled(n, z, x, q)
  PROVE  p.f = q.f /\ Masked(z, p.d[x]) = q.v
<1>1. PICK d, v, f : /\ d = n.d /\ v = q.v /\ f = q.f /\ v \in Range0(z) /\ f \in Flags
                     /\ d \in [Registers -> Range0(4)]
  BY MachineIs DEF Typed
<1>2. PICK e \in Range0(4) : e = d[x] - Masked(z, d[x]) + v /\ Masked(z, e) = v
  BY <1>1, PartReplaced
<1>3. p = [n EXCEPT !.f = f, !.d = [d EXCEPT ![x] = e]]
  BY <1>1, <1>2, MachineIs DEF Settled, PutD
<1>4. p.d = [d EXCEPT ![x] = e] /\ p.f = f
  BY <1>3 DEF Machine
<1>5. p.d[x] = e
  BY <1>1, <1>4
<1> QED BY <1>1, <1>2, <1>4, <1>5

\* The low part of a register is a number of the size.
LEMMA RegisterRange == ASSUME cpu \in Machine, NEW r \in Registers, NEW z \in Sizes
  PROVE  Masked(z, cpu.d[r]) \in Range0(z) /\ cpu.f \in Flags
<1>1. cpu.d[r] \in Int /\ cpu.f \in Flags
  <2>1. PICK m : m = cpu /\ m \in Machine
    OBVIOUS
  <2>2. m.d[r] \in Nat /\ m.f \in Flags
    BY <2>1, MachineIs
  <2> QED BY <2>1, <2>2
<1> QED BY <1>1, MaskedRange

\* add and sub to a register, from one.
LEMMA ErComputes ==
  ASSUME cpu \in Machine, NEW i, IsInstruction(i), ErHandlers(i), Binary(i)
  PROVE  Computes(i) /\ i.name \in {"add", "sub"}
<1>1. PICK name, z, o, x :
        /\ name = i.name /\ z = i.z /\ o = i.ea /\ x = i.x /\ z \in Sizes /\ x \in Registers
        /\ name \in {"add", "sub"} /\ i.form = "er"
        /\ o.mode = "d" /\ o.r \in Registers
  BY ErIs DEF IsInstruction, HasX, IsOperand, Binary
<1>2. PICK s, q : /\ s = Operand(Fetched, z, o)
                  /\ q = Op(name, z, cpu.f, s.v, Masked(z, cpu.d[x]))
                  /\ cpu' = Settled(s.m, z, x, q)
  BY <1>1, ErIs
<1>3. Stepped(cpu, Fetched, {}, 1 + 0) /\ Fetched \in Machine
  BY SkippedOn
<1>4. s.m = Fetched /\ s.v = Masked(z, cpu.d[o.r])
  BY <1>1, <1>2, <1>3 DEF Operand, Stepped
<1>5. PICK a, b : /\ a = Masked(z, cpu.d[o.r]) /\ b = Masked(z, cpu.d[x])
                  /\ a \in Range0(z) /\ b \in Range0(z) /\ cpu.f \in Flags
  BY <1>1, RegisterRange
<1>6. Typed(z, q)
  <2>1. OpBounds(name, z, a)
    BY <1>1, <1>5 DEF OpBounds, Twofold
  <2> QED BY <1>1, <1>2, <1>4, <1>5, <2>1, OpTyped
<1>7. cpu'.f = q.f /\ Masked(z, cpu'.d[x]) = q.v
  <2>1. PICK n, p : n = Fetched /\ p = cpu' /\ n \in Machine /\ n.d = cpu.d
        /\ p = Settled(n, z, x, q)
    BY <1>2, <1>3, <1>4 DEF Stepped
  <2> QED BY <1>1, <1>6, <2>1, SettledLeaves
<1>8. Operands(i) = <<a, b>>
  BY <1>1, <1>5 DEF Operands, Low1, Masked
<1>9. Outcome(i) = q.v
  BY <1>1, <1>7 DEF Outcome, Low1, Masked
<1>10. q = Op(i.name, i.z, cpu.f, a, IF i.name \in Negating THEN a ELSE b)
       /\ i.name \notin Negating
  BY <1>1, <1>2, <1>4, <1>5 DEF Negating
<1> QED BY <1>1, <1>5, <1>7, <1>8, <1>9, <1>10 DEF Computes, Leaves

\* addx, subx, abcd and sbcd between registers.
LEMMA RrComputes ==
  ASSUME cpu \in Machine, NEW i, IsInstruction(i), RrHandlers(i)
  PROVE  Computes(i)
<1>1. PICK name, z, o, x :
        /\ name = i.name /\ z = i.z /\ o = i.ea /\ x = i.x /\ z \in Sizes /\ x \in Registers
        /\ name \in {"addx", "subx", "abcd", "sbcd"} /\ i.form = "rr"
        /\ name \in {"abcd", "sbcd"} => z = 1
        /\ o.mode = "d" /\ o.r \in Registers
  BY RrIs DEF IsInstruction, HasX, IsOperand
<1>2. PICK a, b : /\ a = Masked(z, cpu.d[o.r]) /\ b = Masked(z, cpu.d[x])
                  /\ a \in Range0(z) /\ b \in Range0(z) /\ cpu.f \in Flags
  BY <1>1, RegisterRange
<1>3. PICK n, q : /\ n = Fetched /\ Stepped(cpu, n, {}, 1 + 0)
                  /\ q = Op(name, z, cpu.f, a, b) /\ cpu' = Settled(n, z, x, q)
  BY <1>1, <1>2, RrIs, SkippedOn
<1>4. Typed(z, q)
  <2>1. OpBounds(name, z, a)
    BY <1>1, <1>2 DEF OpBounds, Twofold, Decimals
  <2> QED BY <1>1, <1>2, <1>3, <2>1, OpTyped
<1>5. cpu'.f = q.f /\ Masked(z, cpu'.d[x]) = q.v
  <2>1. PICK p : p = cpu' /\ n \in Machine /\ n.d = cpu.d /\ p = Settled(n, z, x, q)
    BY <1>3 DEF Stepped
  <2> QED BY <1>1, <1>4, <2>1, SettledLeaves
<1>6. Operands(i) = <<a, b>>
  BY <1>1, <1>2 DEF Operands, Low1, Masked
<1>7. Outcome(i) = q.v
  BY <1>1, <1>5 DEF Outcome, Low1, Masked
<1>8. q = Op(i.name, i.z, cpu.f, a, IF i.name \in Negating THEN a ELSE b)
      /\ i.name \notin Negating
  BY <1>1, <1>3 DEF Negating
<1> QED BY <1>1, <1>2, <1>5, <1>6, <1>7, <1>8 DEF Computes, Leaves

\* A destination in a data register, with a value behind the opcode or in it.
Immediate(i, n) ==
  /\ i.ea.mode = "d" /\ i.form = "" /\ i.name \in {"addi", "subi", "addq", "subq"}
  /\ cpu' = Placed(n, i.z, i.ea, Op(i.name, i.z, cpu.f, i.q, Target(n, i.z, i.ea)))

\* The result goes to the register it came from.
LEMMA PlacedComputes ==
  ASSUME cpu \in Machine, NEW i, IsInstruction(i), NEW n \in Machine, n.d = cpu.d,
         Immediate(i, n)
  PROVE  Computes(i)
<1>1. PICK name, z, o, a :
        /\ name = i.name /\ z = i.z /\ o = i.ea /\ a = i.q /\ z \in Sizes /\ a \in Range0(z)
        /\ name \in {"addi", "subi", "addq", "subq"} /\ i.form = ""
        /\ o.mode = "d" /\ o.r \in Registers /\ IsOperand(o) /\ o.mode \in Alterable
  BY DEF IsInstruction, IsOperand, Alterable, Immediate
<1>2. PICK b : b = Masked(z, cpu.d[o.r]) /\ b \in Range0(z) /\ cpu.f \in Flags
  BY <1>1, RegisterRange
<1>3. Target(n, z, o) = b
  BY <1>1, <1>2 DEF Target
<1>4. PICK q, p : q = Op(name, z, cpu.f, a, b) /\ p = cpu' /\ p = Placed(n, z, o, q)
  BY <1>1, <1>3 DEF Immediate
<1>5. Typed(z, q)
  <2>1. OpBounds(name, z, a)
    BY <1>1 DEF OpBounds, Twofold
  <2> QED BY <1>1, <1>2, <1>4, <2>1, OpTyped
<1>6. p.f = q.f /\ Masked(z, p.d[o.r]) = q.v
  <2>1. PICK x : x = o.r /\ x \in Registers
    BY <1>1
  <2>2. z \in Sizes /\ Typed(z, q) /\ p = Settled(n, z, x, q)
    BY <1>1, <1>4, <1>5, <2>1 DEF Placed, Settled
  <2>3. p.f = q.f /\ Masked(z, p.d[x]) = q.v
    BY <2>1, <2>2, SettledLeaves
  <2> QED BY <2>1, <2>3
<1>7. Operands(i) = <<a, b>>
  BY <1>1, <1>2 DEF Operands, Low1, Masked
<1>8. Outcome(i) = q.v
  BY <1>1, <1>4, <1>6 DEF Outcome, Low1, Masked
<1>9. q = Op(i.name, i.z, cpu.f, a, IF i.name \in Negating THEN a ELSE b)
      /\ i.name \notin Negating
  BY <1>1, <1>4 DEF Negating
<1> QED BY <1>1, <1>2, <1>4, <1>6, <1>7, <1>8, <1>9 DEF Computes, Leaves

\* addi and subi on a register.
LEMMA ImmComputes ==
  ASSUME cpu \in Machine, NEW i, IsInstruction(i), ImmHandlers(i), Binary(i)
  PROVE  Computes(i) /\ i.name \in {"addi", "subi"}
<1>1. i.form = "" /\ i.name \in {"addi", "subi"} /\ i.ea.mode = "d"
  BY ImmIs DEF Binary
<1>2. PICK v \in Nat : v = ImmWords(i.z)
  BY DEF ImmWords
<1>3. PICK n : n = Skip(Fetched, v) /\ Stepped(cpu, n, {}, 1 + v)
  BY SkippedOn
<1>4. n \in Machine /\ n.d = cpu.d
  BY <1>3 DEF Stepped
<1>5. Immediate(i, n)
  BY <1>1, <1>2, <1>3, ImmIs DEF Immediate
<1> QED BY <1>1, <1>4, <1>5, PlacedComputes

\* addq and subq on a register.
LEMMA QuickComputes ==
  ASSUME cpu \in Machine, NEW i, IsInstruction(i), QuickHandlers(i), Binary(i)
  PROVE  Computes(i) /\ i.name \in {"addq", "subq"}
<1>1. i.form = "" /\ i.name \in {"addq", "subq"} /\ i.ea.mode = "d"
  BY QuickIs DEF Binary
<1>2. PICK v \in Nat : v = 0
  OBVIOUS
<1>3. PICK n : n = Fetched /\ Stepped(cpu, n, {}, 1 + v)
  BY <1>2, SkippedOn
<1>4. n \in Machine /\ n.d = cpu.d
  BY <1>3 DEF Stepped
<1>5. Immediate(i, n)
  BY <1>1, <1>3, QuickIs DEF Immediate
<1> QED BY <1>1, <1>4, <1>5, PlacedComputes

\* One operand, subtracted from zero.
LEMMA UnaryComputes ==
  ASSUME cpu \in Machine, NEW i, IsInstruction(i), UnaryHandlers(i), Binary(i)
  PROVE  Computes(i) /\ i.name \in Negating
<1>1. PICK name, z, o :
        /\ name = i.name /\ z = i.z /\ o = i.ea /\ z \in Sizes
        /\ name \in {"neg", "negx", "nbcd"} /\ i.form = "" /\ (name = "nbcd" => z = 1)
        /\ o.mode = "d" /\ o.r \in Registers /\ IsOperand(o) /\ o.mode \in Alterable
  BY UnaryIs DEF IsInstruction, IsOperand, Alterable, Binary, Onefold
<1>2. PICK n, w : n = Fetched /\ w = 1 + 0 /\ w \in Nat /\ Stepped(cpu, n, {}, w)
  BY SkippedOn
<1>3. PICK a : a = Masked(z, cpu.d[o.r]) /\ a \in Range0(z) /\ cpu.f \in Flags
  BY <1>1, RegisterRange
<1>4. Target(n, z, o) = a
  BY <1>1, <1>2, <1>3 DEF Target, Stepped
<1>5. PICK q, p : q = Op(name, z, cpu.f, 0, a) /\ p = cpu' /\ p = Placed(n, z, o, q)
  BY <1>1, <1>2, <1>4, UnaryIs
<1>6. Typed(z, q)
  <2>1. OpBounds(name, z, 0)
    BY <1>1, ZeroIs DEF OpBounds, Onefold, Decimals
  <2> QED BY <1>1, <1>3, <1>5, <2>1, OpTyped
<1>7. p.f = q.f /\ Masked(z, p.d[o.r]) = q.v
  <2>1. n \in Machine /\ n.d = cpu.d
    BY <1>2 DEF Stepped
  <2>2. PICK x : x = o.r /\ x \in Registers
    BY <1>1
  <2>3. z \in Sizes /\ Typed(z, q) /\ p = Settled(n, z, x, q)
    BY <1>1, <1>5, <1>6, <2>2 DEF Placed, Settled
  <2>4. p.f = q.f /\ Masked(z, p.d[x]) = q.v
    BY <2>1, <2>2, <2>3, SettledLeaves
  <2> QED BY <2>2, <2>4
<1>8. PICK b : b = 0 /\ b \in Range0(z)
  <2>1. PICK h \in Nat \ {0} : h = Mod(z)
    BY <1>1, Widths
  <2> QED BY <2>1 DEF Range0
<1>9. Operands(i) = <<a, b>>
  BY <1>1, <1>3, <1>8 DEF Operands, Low1, Masked
<1>10. Outcome(i) = q.v
  BY <1>1, <1>5, <1>7 DEF Outcome, Low1, Masked
<1>11. q = Op(i.name, i.z, cpu.f, a, IF i.name \in Negating THEN a ELSE b)
       /\ i.name \in Negating
  BY <1>1, <1>5 DEF Negating, Op
<1> QED BY <1>1, <1>3, <1>5, <1>7, <1>8, <1>9, <1>10, <1>11 DEF Computes, Leaves

-----------------------------------------------------------------------------
(* Operands in memory.                                                     *)

\* An address that goes around a long is the same byte.
LEMMA AroundIs ==
  ASSUME NEW u \in Int, NEW k \in Int
  PROVE  (Masked(4, u) + k) % AddressSpace = (u + k) % AddressSpace
<1>1. PICK l \in Nat \ {0}, h \in Nat \ {0} : l = Mod(4) /\ h = AddressSpace /\ l % h = 0
  BY AddressAssumption, LongIs
<1>2. PICK j \in Int : l = j * h
  <2>1. l \div h \in Int /\ l % h = l - (l \div h) * h
    <3>1. PICK v \in Int : v = l
      OBVIOUS
    <3>2. v \div h \in Int /\ v % h = v - (v \div h) * h
      BY DivBounds
    <3> QED BY <3>1, <3>2
  <2>2. PICK j \in Int : j = l \div h
    BY <2>1
  <2>3. PICK w \in Int : w = j * h
    OBVIOUS
  <2>4. l = w
    BY <1>1, <2>1, <2>2, <2>3
  <2> QED BY <2>2, <2>3, <2>4
<1>3. PICK g \in Int : u % l = u - g * l
  BY <1>1, DivBounds
<1>4. PICK c \in Int, r \in Int : /\ u + k - c * h = r /\ 0 <= r /\ r < h
                                  /\ (u + k) % h = r
  <2>1. PICK t \in Int : t = u + k
    OBVIOUS
  <2>2. /\ t \div h \in Int /\ (t \div h) * h <= t /\ t < (t \div h) * h + h
        /\ t % h = t - (t \div h) * h
    BY <1>1, DivBounds
  <2>3. PICK c \in Int, w \in Int : c = t \div h /\ w = c * h
    BY <2>2
  <2>4. PICK r \in Int : r = t - w
    OBVIOUS
  <2> QED BY <1>1, <2>1, <2>2, <2>3, <2>4
<1>5. PICK e \in Int : e = g * j /\ g * l = e * h
  <2>1. g * (j * h) = (g * j) * h
    BY <1>1
  <2> QED BY <1>2, <2>1
<1>6. PICK v \in Int : v = (u % l) + k
  BY <1>1, <1>3
<1>7. v % h = r
  <2>1. (c - e) * h = c * h - e * h
    BY <1>1, Distribute
  <2>2. PICK a \in Int, b \in Int, y \in Int : a = c * h /\ b = e * h /\ y = (c - e) * h
    BY <1>1
  <2>3. v = y + r
    <3>1. v = u - b + k
      BY <1>3, <1>5, <1>6, <2>2
    <3>2. u + k = a + r
      BY <1>4, <2>2
    <3> QED BY <2>1, <2>2, <3>1, <3>2
  <2>4. PICK f \in Int : f = c - e
    OBVIOUS
  <2>5. f * h = y
    BY <2>2, <2>4
  <2>6. f * h <= v /\ v < f * h + h
    BY <1>1, <1>4, <2>2, <2>3, <2>5
  <2>7. v % h = v - f * h
    BY <1>1, <2>6, DivIs
  <2> QED BY <2>2, <2>3, <2>5, <2>7
<1> QED BY <1>1, <1>4, <1>6, <1>7 DEF Masked

\* Reading at an address cut to a long is reading at the address.
LEMMA ReadAround ==
  ASSUME NEW m \in Machine, NEW n, n.mem = m.mem, NEW z \in Sizes, NEW u \in Int,
         NEW v, v = Masked(4, u)
  PROVE  Read(n, z, v) = Read(m, z, u)
<1>1. v \in Int
  BY LongIs, SizeIs, MaskedRange, Widths DEF Range0
<1>2. \A k \in Int : ByteAt(n, v + k) = ByteAt(m, u + k)
  BY AroundIs DEF ByteAt
<1>3. /\ ByteAt(n, v) = ByteAt(m, u) /\ ByteAt(n, v + 1) = ByteAt(m, u + 1)
      /\ ByteAt(n, v + 2 * 1) = ByteAt(m, u + 2 * 1)
      /\ ByteAt(n, v + 2 * 1 + 1) = ByteAt(m, u + 2 * 1 + 1)
  <2>1. v + 0 = v /\ u + 0 = u /\ v + 2 * 1 + 1 = v + 3 /\ u + 2 * 1 + 1 = u + 3
        /\ v + 2 * 1 = v + 2 /\ u + 2 * 1 = u + 2
    BY <1>1
  <2>2. /\ ByteAt(n, v + 0) = ByteAt(m, u + 0) /\ ByteAt(n, v + 1) = ByteAt(m, u + 1)
        /\ ByteAt(n, v + 2) = ByteAt(m, u + 2) /\ ByteAt(n, v + 3) = ByteAt(m, u + 3)
    BY <1>2
  <2> QED BY <2>1, <2>2
<1> QED BY <1>3 DEF Read, ReadEvery

\* What is read depends on the memory only.
LEMMA SameRead ==
  ASSUME NEW m, NEW n, n.mem = m.mem, NEW z, NEW u
  PROVE  Read(n, z, u) = Read(m, z, u)
BY DEF Read, ReadEvery, ByteAt

\* What a stepping down finds.
LEMMA DownIs ==
  ASSUME NEW m \in Machine, NEW z \in Sizes, NEW r \in Registers, NEW o, o = Down(r),
         NEW k, k = IF z = 1 /\ r = 7 THEN 2 ELSE z
  PROVE  /\ Ea(m, z, o).at = Masked(4, m.a[r] - k) /\ k \in Int
            /\ Masked(4, m.a[r] - k) \in Range0(4)
         /\ Ea(m, z, o).m = [m EXCEPT !.a[r] = Masked(4, m.a[r] - k)]
         /\ Operand(m, z, o).v = Read(Ea(m, z, o).m, z, Ea(m, z, o).at)
         /\ Operand(m, z, o).m = Ea(m, z, o).m
         /\ Target(m, z, o) = Read(Ea(m, z, o).m, z, Ea(m, z, o).at)
<1>1. o.mode = "pd" /\ o.r = r
  BY DEF Down
<1>2. Step(z, o) = k
  BY <1>1 DEF Step
<1>3. PICK e : /\ e = Ea(m, z, o) /\ e.at = Masked(4, m.a[r] - k)
               /\ e.m = [m EXCEPT !.a[r] = Masked(4, m.a[r] - k)]
  <2>1. PICK b : b = Masked(4, m.a[r] - k)
    OBVIOUS
  <2>2. Masked(4, m.a[o.r] - Step(z, o)) = b
    BY <1>1, <1>2, <2>1
  <2>3. Ea(m, z, o) = [at |-> b, m |-> [m EXCEPT !.a[r] = b]]
    BY <1>1, <2>2 DEF Ea
  <2> QED BY <2>1, <2>3
<1>4. Operand(m, z, o).v = Read(e.m, z, e.at) /\ Operand(m, z, o).m = e.m
  BY <1>1, <1>3 DEF Operand
<1>5. Target(m, z, o) = Read(e.m, z, e.at)
  BY <1>1, <1>3 DEF Target
<1>6. k \in Int
  BY DEF Sizes
<1>7. Masked(4, m.a[r] - k) \in Range0(4)
  <2>1. m.a[r] \in Int
    BY MachineIs
  <2> QED BY <1>6, <2>1, SizeIs, MaskedRange
<1> QED BY <1>3, <1>4, <1>5, <1>6, <1>7

\* addx, subx, abcd and sbcd downwards in memory, the source first, when both
\* predecrements are of the same register too.
LEMMA MmComputes ==
  ASSUME cpu \in Machine, NEW i, IsInstruction(i), MmHandlers(i)
  PROVE  Computes(i)
<1>1. PICK name, z, r, x, k, l :
        /\ name = i.name /\ z = i.z /\ r = i.ea.r /\ x = i.x
        /\ z \in Sizes /\ x \in Registers /\ r \in Registers
        /\ name \in {"addx", "subx", "abcd", "sbcd"} /\ i.form = "mm"
        /\ name \in {"abcd", "sbcd"} => z = 1
        /\ k = (IF z = 1 /\ r = 7 THEN 2 ELSE z) /\ l = (IF z = 1 /\ x = 7 THEN 2 ELSE z)
  BY MmIs DEF IsInstruction, HasX, IsOperand
<1>2. PICK m : m = Fetched /\ m \in Machine /\ m.mem = cpu.mem /\ m.a = cpu.a
  <2>1. Fetched \in Machine
    BY SkippedOn
  <2>2. Fetched.mem = cpu.mem /\ Fetched.a = cpu.a
    BY DEF Fetched, Skip, Machine
  <2> QED BY <2>1, <2>2
<1>3. PICK o, e, s, n : /\ o = Down(r) /\ e = Ea(m, z, o) /\ s = Operand(m, z, o) /\ n = s.m
                        /\ e.at = Masked(4, m.a[r] - k) /\ k \in Int /\ e.at \in Range0(4)
                        /\ e.m = [m EXCEPT !.a[r] = e.at] /\ s.v = Read(e.m, z, e.at) /\ n = e.m
  <2>1. PICK o, c : o = Down(r) /\ c = Masked(4, m.a[r] - k)
    OBVIOUS
  <2>2. /\ Ea(m, z, o).at = c /\ k \in Int /\ c \in Range0(4)
        /\ Ea(m, z, o).m = [m EXCEPT !.a[r] = c]
        /\ Operand(m, z, o).v = Read(Ea(m, z, o).m, z, Ea(m, z, o).at)
        /\ Operand(m, z, o).m = Ea(m, z, o).m
    BY <1>1, <1>2, <2>1, DownIs
  <2> QED BY <2>1, <2>2
<1>4. n \in Machine /\ n.mem = cpu.mem
  BY <1>1, <1>2, <1>3 DEF Machine
<1>5. PICK p, g, t : /\ p = Down(x) /\ g = Ea(n, z, p) /\ t = Target(n, z, p)
                     /\ g.at = Masked(4, n.a[x] - l) /\ g.at \in Range0(4)
                     /\ g.m = [n EXCEPT !.a[x] = g.at] /\ t = Read(g.m, z, g.at)
  <2>1. PICK p, c : p = Down(x) /\ c = Masked(4, n.a[x] - l)
    OBVIOUS
  <2>2. /\ Ea(n, z, p).at = c /\ c \in Range0(4)
        /\ Ea(n, z, p).m = [n EXCEPT !.a[x] = c]
        /\ Target(n, z, p) = Read(Ea(n, z, p).m, z, Ea(n, z, p).at)
    BY <1>1, <1>4, <2>1, DownIs
  <2> QED BY <2>1, <2>2
<1>6. g.m \in Machine /\ g.m.mem = cpu.mem /\ g.m.a[x] = g.at
  BY <1>1, <1>4, <1>5 DEF Machine
<1>7. PICK a, b : a = s.v /\ b = t /\ a \in Range0(z) /\ b \in Range0(z) /\ cpu.f \in Flags
  <2>1. PICK u \in Int, v \in Int : u = e.at /\ v = g.at
    BY <1>3, <1>5, LongIs
  <2>2. Read(n, z, u) \in Range0(z) /\ Read(g.m, z, v) \in Range0(z)
    BY <1>1, <1>4, <1>6, ReadRange DEF Read
  <2> QED BY <1>3, <1>5, <2>1, <2>2, MachineIs
<1>8. PICK q : q = Op(name, z, cpu.f, a, b) /\ cpu' = Placed(n, z, p, q)
  <2>1. PICK c : /\ c = Operand(Fetched, i.z, Down(i.ea.r))
                 /\ cpu' = Placed(c.m, i.z, Down(i.x),
                             Op(i.name, i.z, cpu.f, c.v, Target(c.m, i.z, Down(i.x))))
    BY MmIs
  <2>2. c = s /\ c.m = n /\ c.v = a /\ Down(i.x) = p /\ Target(n, z, p) = b
    BY <1>1, <1>2, <1>3, <1>5, <1>7, <2>1
  <2>3. cpu' = Placed(n, z, p, Op(name, z, cpu.f, a, b))
    BY <1>1, <2>1, <2>2
  <2> QED BY <2>3
<1>9. q.v \in Range0(z) /\ q.f \in Flags
  <2>1. OpBounds(name, z, a)
    BY <1>1, <1>7 DEF OpBounds, Twofold, Decimals
  <2>2. Typed(z, q)
    BY <1>1, <1>7, <1>8, <2>1, OpTyped
  <2> QED BY <2>2 DEF Typed
<1>10. PICK j, w, y : /\ j = [g.m EXCEPT !.f = q.f] /\ w = cpu' /\ y = g.at /\ y \in Int
                      /\ w = Write(j, z, y, q.v)
  <2>1. cpu' = Write([g.m EXCEPT !.f = q.f], z, g.at, q.v)
    BY <1>5, <1>8 DEF Placed, Down
  <2> QED BY <1>5, <2>1, LongIs
<1>11. j \in Machine /\ j.a = g.m.a /\ j.f = q.f
  BY <1>6, <1>9, <1>10 DEF Machine
<1>12. w.a = g.m.a /\ w.f = q.f
  <2>1. PICK mem : w = [j EXCEPT !.mem = mem]
    BY <1>10 DEF Write
  <2>2. w.a = j.a /\ w.f = j.f
    BY <1>11, <2>1 DEF Machine
  <2> QED BY <1>11, <2>2
<1>13. w.a[x] = y
  BY <1>6, <1>10, <1>12
<1>14. Read(w, z, y) = q.v
  BY <1>1, <1>9, <1>10, <1>11, ReadAgain
<1>15. Read(cpu, z, cpu.a[r] - k) = a
  <2>1. PICK u, v : u = cpu.a[r] - k /\ v = Masked(4, u) /\ u \in Int
    <3>1. cpu.a[r] \in Int
      BY <1>1, MachineIs
    <3> QED BY <1>3, <3>1
  <2>2. Read(n, z, v) = Read(cpu, z, u)
    BY <1>1, <1>4, <2>1, ReadAround
  <2> QED BY <1>2, <1>3, <1>7, <2>1, <2>2
<1>16. Read(cpu, z, y) = b
  <2>1. PICK c : c = g.m /\ c.mem = cpu.mem
    BY <1>6
  <2>2. Read(c, z, y) = Read(cpu, z, y)
    BY <2>1, SameRead
  <2> QED BY <1>5, <1>7, <1>10, <2>1, <2>2
<1>17. Operands(i) = <<a, b>>
  <2>1. Operands(i) = <<Read(cpu, z, cpu.a[r] - k), Read(cpu, z, cpu'.a[x])>>
    BY <1>1 DEF Operands
  <2> QED BY <1>10, <1>13, <1>15, <1>16, <2>1
<1>18. Outcome(i) = q.v
  BY <1>1, <1>10, <1>13, <1>14 DEF Outcome
<1>19. q = Op(i.name, i.z, cpu.f, a, IF i.name \in Negating THEN a ELSE b)
       /\ i.name \notin Negating
  BY <1>1, <1>8 DEF Negating
<1> QED BY <1>1, <1>7, <1>10, <1>12, <1>17, <1>18, <1>19 DEF Computes, Leaves

-----------------------------------------------------------------------------
(* Decimals against their numbers.                                         *)

\* A byte of two digits.
TwoDigit(v, hi, lo) ==
  /\ hi \in 0..(Digits - 1) /\ lo \in 0..(Digits - 1)
  /\ v = hi * Nibble + lo

\* A decimal byte has its two digits.
LEMMA DigitsOf == ASSUME NEW v \in Range0(1), IsDecimal(v)
  PROVE  \E hi, lo \in Int : TwoDigit(v, hi, lo)
<1>1. PICK n \in Nat \ {0}, t \in Int : n = Nibble /\ t = Digits /\ Mod(1) = n * n
  BY DecimalConstants
<1>2. v \in Int /\ 0 <= v
  <2>1. PICK w \in Nat : w = n * n
    OBVIOUS
  <2> QED BY <1>1, <2>1 DEF Range0
<1>3. v \div n \in Int /\ (v \div n) * n <= v /\ v < (v \div n) * n + n
      /\ v % n = v - (v \div n) * n
  BY <1>1, <1>2, DivBounds
<1>4. PICK hi \in Int, lo \in Int : hi = v \div n /\ lo = v % n
  <2>1. v % n \in 0..(n - 1)
    BY <1>1, <1>2, Remainder
  <2> QED BY <1>3, <2>1
<1>5. hi \in 0..v
  BY <1>1, <1>2, <1>4, Part
<1>6. lo \in 0..(n - 1)
  BY <1>1, <1>2, <1>4, Remainder
<1>7. hi < t /\ lo < t
  BY <1>1, <1>4 DEF IsDecimal
<1>8. v = hi * n + lo
  <2>1. PICK w \in Int : w = hi * n
    OBVIOUS
  <2> QED BY <1>2, <1>3, <1>4, <2>1
<1> QED BY <1>1, <1>2, <1>5, <1>6, <1>7, <1>8 DEF TwoDigit

\* Two digits are a decimal byte, with their number.
LEMMA DigitsIn ==
  ASSUME NEW v, NEW hi \in Int, NEW lo \in Int, TwoDigit(v, hi, lo)
  PROVE  /\ v \in Range0(1) /\ Masked(1, v) = v /\ IsDecimal(v)
         /\ Low(v) = lo /\ High(v) = hi * Nibble /\ Number(v) = hi * Digits + lo
         /\ v = 0 => hi = 0 /\ lo = 0
<1>1. PICK n \in Nat \ {0}, t \in Nat \ {0} : n = Nibble /\ t = Digits /\ Mod(1) = n * n /\ t < n
  BY DecimalConstants
<1>2. hi \in 0..(n - 1) /\ lo \in 0..(n - 1) /\ 0 <= hi /\ 0 <= lo /\ hi < t /\ lo < t /\ lo < n
      /\ v = hi * n + lo
  BY <1>1 DEF TwoDigit
<1>3. v \in 0..(n * n - 1)
  BY <1>1, <1>2, TwoDigits
<1>4. v \in Range0(1)
  BY <1>1, <1>3 DEF Range0
<1>5. v \div n = hi /\ v % n = v - hi * n
  <2>1. PICK w \in Int : w = hi * n
    OBVIOUS
  <2>2. v \in Int /\ w <= v /\ v < w + n
    BY <1>2, <2>1
  <2> QED BY <1>1, <2>1, <2>2, DivIs
<1>6. v % n = lo /\ v - lo = hi * n
  <2>1. PICK w \in Int : w = hi * n
    OBVIOUS
  <2> QED BY <1>2, <1>5, <2>1
<1>7. IsDecimal(v) /\ Low(v) = lo /\ High(v) = hi * Nibble /\ Number(v) = hi * Digits + lo
  BY <1>1, <1>2, <1>5, <1>6 DEF IsDecimal, Low, High, Number
<1>8. Masked(1, v) = v
  BY <1>4, SizeIs, MaskedSame
<1>9. v = 0 => hi = 0 /\ lo = 0
  <2>1. 0 * n <= hi * n /\ (hi >= 1 => 1 * n <= hi * n)
    BY <1>1, <1>2, Times
  <2>2. PICK w \in Int : w = hi * n
    OBVIOUS
  <2> QED BY <1>1, <1>2, <2>1, <2>2
<1> QED BY <1>4, <1>7, <1>8, <1>9

\* A number that a carry takes around.
LEMMA DigitsAround ==
  ASSUME NEW hi \in 0..(Digits - 1), NEW lo \in 0..(Digits - 1), NEW c \in {-1, 0, 1},
         NEW t, t = (hi + c * Digits) * Digits + lo
  PROVE  /\ t % (Digits * Digits) = hi * Digits + lo
         /\ t \notin 0..(Digits * Digits - 1) <=> c # 0
<1>1. PICK b \in Nat \ {0} : b = Digits
  BY DecimalConstants
<1>2. PICK w \in Int, v \in Int : w = b * b /\ v = hi * b + lo /\ hi \in Int /\ lo \in Int
  BY <1>1
<1>3. 0 <= v /\ v < w /\ w \in Nat \ {0}
  <2>1. hi \in 0..(b - 1) /\ lo \in 0..(b - 1)
    BY <1>1
  <2>2. v \in 0..(b * b - 1)
    BY <1>1, <1>2, <2>1, TwoDigits
  <2> QED BY <1>2, <2>2
<1>4. t = v + c * w
  <2>1. (hi + c * b) * b = hi * b + (c * b) * b
    BY <1>1, <1>2, Distribute
  <2>2. (c * b) * b = c * w
    BY <1>1, <1>2
  <2>3. PICK p \in Int, q \in Int : p = hi * b /\ q = c * w
    BY <1>1, <1>2
  <2> QED BY <1>1, <1>2, <2>1, <2>2, <2>3
<1>5. t \in Int
  BY <1>2, <1>4
<1>6. t % w = v
  <2>1. PICK q \in Int : q = c * w
    BY <1>2
  <2>2. q <= t /\ t < q + w
    BY <1>2, <1>3, <1>4, <2>1
  <2>3. t % w = t - c * w
    BY <1>3, <1>5, <2>1, <2>2, DivIs
  <2> QED BY <1>2, <1>4, <1>5, <2>1, <2>3
<1>7. t \notin 0..(w - 1) <=> c # 0
  BY <1>2, <1>3, <1>4
<1> QED BY <1>1, <1>2, <1>6, <1>7

\* What a decimal operation leaves.
Decimally(f, t, q) ==
  /\ IsDecimal(q.v) /\ Number(q.v) = t % (Digits * Digits)
  /\ (q.f.c = 1) <=> t \notin 0..(Digits * Digits - 1)
  /\ q.f.x = q.f.c
  /\ (q.f.z = 1) <=> (q.v = 0 /\ f.z = 1)

\* What Decimal makes of two digits and a carry is the number modulo 100.
LEMMA DecimalLeaves ==
  ASSUME NEW f, NEW before, NEW hi \in 0..(Digits - 1), NEW lo \in 0..(Digits - 1),
         NEW c \in {0, 1},
         NEW g \in {-1, 0, 1}, c = 0 <=> g = 0,
         NEW t, t = (hi + g * Digits) * Digits + lo,
         NEW q, q = Decimal(f, before, hi * Nibble + lo, c)
  PROVE  Decimally(f, t, q)
<1>1. PICK v, a \in Int, b \in Int : a = hi /\ b = lo /\ v = hi * Nibble + lo
      /\ TwoDigit(v, a, b)
  BY DecimalConstants DEF TwoDigit
<1>2. Masked(1, v) = v /\ IsDecimal(v) /\ Number(v) = hi * Digits + lo
  BY <1>1, DigitsIn
<1>3. /\ t % (Digits * Digits) = hi * Digits + lo
      /\ t \notin 0..(Digits * Digits - 1) <=> g # 0
  BY DigitsAround
<1>4. q.v = v /\ q.f.c = c /\ q.f.x = c /\ q.f.z = Bit(f.z = 1 /\ v = 0)
  BY <1>1, <1>2 DEF Decimal, Result
<1>5. (q.f.z = 1) <=> (q.v = 0 /\ f.z = 1)
  BY <1>4 DEF Bit
<1>6. IsDecimal(q.v) /\ Number(q.v) = t % (Digits * Digits)
  BY <1>2, <1>3, <1>4
<1>7. (q.f.c = 1) <=> t \notin 0..(Digits * Digits - 1)
  BY <1>3, <1>4
<1> QED BY <1>4, <1>5, <1>6, <1>7 DEF Decimally

\* abcd adds the numbers of its operands and X.
LEMMA AbcdExact ==
  ASSUME NEW f \in Flags, NEW s \in Range0(1), NEW d \in Range0(1), IsDecimal(s), IsDecimal(d),
         NEW q, q = Abcd(f, s, d)
  PROVE  Decimally(f, Number(d) + Number(s) + f.x, q)
<1>1. PICK n \in Nat \ {0}, b \in Nat \ {0} : n = Nibble /\ b = Digits /\ b < n /\ 1 < b
  BY DecimalConstants
<1>2. PICK s1 \in Int, s0 \in Int, d1 \in Int, d0 \in Int : TwoDigit(s, s1, s0)
      /\ TwoDigit(d, d1, d0)
  BY DigitsOf
<1>3. /\ s1 \in 0..(b - 1) /\ s0 \in 0..(b - 1) /\ d1 \in 0..(b - 1) /\ d0 \in 0..(b - 1)
      /\ Low(s) = s0 /\ High(s) = s1 * n /\ Number(s) = s1 * b + s0
      /\ Low(d) = d0 /\ High(d) = d1 * n /\ Number(d) = d1 * b + d0
  BY <1>1, <1>2, DigitsIn DEF TwoDigit
<1>4. PICK x \in {0, 1} : x = f.x
  BY DEF Flags
<1>0. PICK t \in Int : t = Number(d) + Number(s) + f.x
  BY <1>3, <1>4
<1>5. PICK low \in Int, k \in {0, 1} : low = s0 + d0 + x /\ k = (IF low > b - 1 THEN 1 ELSE 0)
  BY <1>3
<1>6. PICK lo \in Int : lo = low - k * b /\ lo \in 0..(b - 1)
  <2>1. k * b = IF k = 1 THEN b ELSE 0
    BY <1>1, <1>5
  <2>2. 0 <= low /\ low <= 2 * b - 1
    BY <1>1, <1>3, <1>5
  <2>3. PICK u \in Int : u = k * b
    BY <1>1, <1>5
  <2>4. PICK lo \in Int : lo = low - u
    BY <2>3
  <2>5. lo \in 0..(b - 1)
    BY <1>1, <1>5, <2>1, <2>2, <2>3, <2>4
  <2> QED BY <2>3, <2>4, <2>5
<1>7. PICK h \in Int : h = s1 + d1 + k
  BY <1>3
<1>8. PICK sum \in Int : sum = h * n + lo
  BY <1>1
<1>9. (IF low > b - 1 THEN low + n - b ELSE low) + s1 * n + d1 * n = sum
  <2>1. h * n = (s1 + d1) * n + k * n /\ (s1 + d1) * n = s1 * n + d1 * n
    BY <1>1, <1>3, <1>5, <1>7, Distribute
  <2>2. PICK p \in Int, r \in Int, w \in Int : p = s1 * n /\ r = d1 * n /\ w = h * n
    BY <1>1, <1>3
  <2>3. k * n = (IF k = 1 THEN n ELSE 0) /\ k * b = (IF k = 1 THEN b ELSE 0)
    BY <1>1, <1>5
  <2>4. w = p + r + (IF k = 1 THEN n ELSE 0) /\ sum = w + lo
        /\ lo = low - (IF k = 1 THEN b ELSE 0)
    BY <1>6, <1>8, <2>1, <2>2, <2>3
  <2> QED BY <1>1, <1>5, <2>2, <2>4
<1>10. PICK c \in {0, 1} : c = (IF h >= b THEN 1 ELSE 0)
  OBVIOUS
<1>11. Bit(sum > Nines) = c
  <2>1. PICK m \in Int, w \in Int : m = (b - 1) * n /\ w = h * n
    BY <1>1
  <2>2. Nines = m + b - 1
    <3>1. (b - 1) * (n + 1) = (b - 1) * n + (b - 1)
      BY <1>1
    <3> QED BY <1>1, <2>1, <3>1 DEF Nines
  <2>3. h <= b - 1 => w <= m
    BY <1>1, <2>1, Times
  <2>4. b <= h => b * n <= w
    BY <1>1, <2>1, Times
  <2>5. b * n = m + n
    BY <1>1, <2>1
  <2>6. h <= b - 1 => ~(sum > Nines)
    BY <1>1, <1>6, <1>8, <2>1, <2>2, <2>3
  <2>7. b <= h => sum > Nines
    BY <1>1, <1>6, <1>8, <2>1, <2>2, <2>4, <2>5
  <2> QED BY <1>1, <1>10, <2>6, <2>7 DEF Bit
<1>12. PICK hi \in Int : hi = h - c * b /\ hi \in 0..(b - 1)
  <2>1. c * b = IF c = 1 THEN b ELSE 0
    BY <1>1, <1>10
  <2>2. h \in 0..(2 * b - 1)
    BY <1>1, <1>3, <1>5, <1>7
  <2>3. PICK u \in Int, hi \in Int : u = c * b /\ hi = h - u
    BY <1>1, <1>10
  <2>4. hi \in 0..(b - 1)
    BY <1>1, <1>10, <2>1, <2>2, <2>3
  <2> QED BY <2>3, <2>4
<1>13. sum - c * b * n = hi * n + lo
  <2>1. (h - c * b) * n = h * n - (c * b) * n
    BY <1>1, <1>10, Distribute
  <2>2. PICK w \in Int, p \in Int : w = h * n /\ p = (c * b) * n
    BY <1>1, <1>10
  <2> QED BY <1>6, <1>8, <1>12, <2>1, <2>2
<1>14. q = Decimal(f, low, hi * Nibble + lo, c)
  <2>1. Low(s) + Low(d) + f.x = low
    BY <1>3, <1>4, <1>5
  <2>2. (IF low > Digits - 1 THEN low + Nibble - Digits ELSE low) + High(s) + High(d) = sum
    BY <1>1, <1>3, <1>9
  <2> QED BY <1>1, <1>11, <1>13, <2>1, <2>2 DEF Abcd
<1>15. t = (hi + c * Digits) * Digits + lo
  <2>1. PICK y \in Int : y = d1 + s1 /\ h = y + k /\ hi + c * b = h
    BY <1>3, <1>5, <1>7, <1>10, <1>12
  <2>2. (y + k) * b = y * b + k * b /\ (d1 + s1) * b = d1 * b + s1 * b
    BY <1>1, <1>3, <1>5, <2>1, Distribute
  <2>3. PICK p \in Int, r \in Int, w \in Int, u \in Int : p = s1 * b /\ r = d1 * b
        /\ w = h * b /\ u = k * b
    BY <1>1, <1>3, <1>5
  <2>4. w = p + r + u
    BY <2>1, <2>2, <2>3
  <2>5. t = (r + d0) + (p + s0) + x
    BY <1>0, <1>3, <1>4, <2>3
  <2>6. lo = s0 + d0 + x - u
    BY <1>5, <1>6, <2>3
  <2>7. t = w + lo
    BY <2>3, <2>4, <2>5, <2>6
  <2> QED BY <1>1, <2>1, <2>3, <2>7
<1>16. PICK g \in {-1, 0, 1} : g = c
  OBVIOUS
<1>17. hi \in 0..(Digits - 1) /\ lo \in 0..(Digits - 1) /\ (c = 0 <=> g = 0)
       /\ t = (hi + g * Digits) * Digits + lo
  BY <1>1, <1>6, <1>12, <1>15, <1>16
<1> QED BY <1>0, <1>10, <1>14, <1>17, DecimalLeaves

\* sbcd subtracts the numbers of its operands and X.
LEMMA SbcdExact ==
  ASSUME NEW f \in Flags, NEW s \in Range0(1), NEW d \in Range0(1), IsDecimal(s), IsDecimal(d),
         NEW q, q = Sbcd(f, s, d)
  PROVE  Decimally(f, Number(d) - Number(s) - f.x, q)
<1>1. PICK n \in Nat \ {0}, b \in Nat \ {0} : n = Nibble /\ b = Digits /\ b < n /\ 1 < b
  BY DecimalConstants
<1>2. PICK s1 \in Int, s0 \in Int, d1 \in Int, d0 \in Int : TwoDigit(s, s1, s0)
      /\ TwoDigit(d, d1, d0)
  BY DigitsOf
<1>3. /\ s1 \in 0..(b - 1) /\ s0 \in 0..(b - 1) /\ d1 \in 0..(b - 1) /\ d0 \in 0..(b - 1)
      /\ Low(s) = s0 /\ High(s) = s1 * n /\ Number(s) = s1 * b + s0
      /\ Low(d) = d0 /\ High(d) = d1 * n /\ Number(d) = d1 * b + d0
  BY <1>1, <1>2, DigitsIn DEF TwoDigit
<1>4. PICK x \in {0, 1} : x = f.x
  BY DEF Flags
<1>0. PICK t \in Int : t = Number(d) - Number(s) - f.x
  BY <1>3, <1>4
<1>5. PICK low \in Int, k \in {0, 1} : low = d0 - s0 - x /\ k = (IF low < 0 THEN 1 ELSE 0)
  BY <1>3
<1>6. PICK lo \in Int : lo = low + k * b /\ lo \in 0..(b - 1)
  <2>1. k * b = IF k = 1 THEN b ELSE 0
    BY <1>1, <1>5
  <2>2. low \in (-b)..(b - 1)
    BY <1>1, <1>3, <1>5
  <2> QED BY <1>1, <1>5, <2>1, <2>2
<1>7. PICK h \in Int : h = d1 - s1 - k
  BY <1>3
<1>8. PICK rest \in Int : rest = h * n + lo
  BY <1>1
<1>9. (IF Exceeds(low, b - 1) THEN low - (n - b) ELSE low) + d1 * n - s1 * n = rest
  <2>1. h * n = (d1 - s1) * n - k * n /\ (d1 - s1) * n = d1 * n - s1 * n
    BY <1>1, <1>3, <1>5, <1>7, Distribute
  <2>2. PICK p \in Int, r \in Int, w \in Int : p = s1 * n /\ r = d1 * n /\ w = h * n
    BY <1>1, <1>3
  <2>3. k * n = (IF k = 1 THEN n ELSE 0) /\ k * b = (IF k = 1 THEN b ELSE 0)
    BY <1>1, <1>5
  <2>4. w = r - p - (IF k = 1 THEN n ELSE 0) /\ rest = w + lo
        /\ lo = low + (IF k = 1 THEN b ELSE 0)
    BY <1>6, <1>8, <2>1, <2>2, <2>3
  <2>5. Exceeds(low, b - 1) <=> low < 0
    BY <1>1, <1>3, <1>5 DEF Exceeds
  <2> QED BY <1>1, <1>5, <2>2, <2>4, <2>5
<1>10. PICK c \in {0, 1} : c = (IF h < 0 THEN 1 ELSE 0)
  OBVIOUS
<1>11. Bit(Exceeds(rest, Nines)) = c
  <2>1. PICK m \in Int, w \in Int : m = (b - 1) * n /\ w = h * n
    BY <1>1
  <2>2. Nines = m + b - 1
    <3>1. (b - 1) * (n + 1) = (b - 1) * n + (b - 1)
      BY <1>1
    <3> QED BY <1>1, <2>1, <3>1 DEF Nines
  <2>3. h <= b - 1 => w <= m
    BY <1>1, <2>1, Times
  <2>4. h <= -1 => w <= (-1) * n
    BY <1>1, <2>1, Times
  <2>5. 0 <= h => 0 * n <= w
    BY <1>1, <2>1, Times
  <2>6. h <= b - 1
    BY <1>1, <1>3, <1>5, <1>7
  <2>7. h < 0 => rest < 0
    BY <1>1, <1>6, <1>8, <2>1, <2>4
  <2>8. h >= 0 => ~(rest < 0) /\ ~(rest > Nines)
    BY <1>1, <1>6, <1>8, <2>1, <2>2, <2>3, <2>5, <2>6
  <2>9. Exceeds(rest, Nines) <=> h < 0
    BY <2>7, <2>8 DEF Exceeds
  <2> QED BY <1>10, <2>9 DEF Bit
<1>12. PICK hi \in Int : hi = h + c * b /\ hi \in 0..(b - 1)
  <2>1. c * b = IF c = 1 THEN b ELSE 0
    BY <1>1, <1>10
  <2>2. h \in (-b)..(b - 1)
    BY <1>1, <1>3, <1>5, <1>7
  <2> QED BY <1>1, <1>10, <2>1, <2>2
<1>13. rest + c * b * n = hi * n + lo
  <2>1. (h + c * b) * n = h * n + (c * b) * n
    BY <1>1, <1>10, Distribute
  <2>2. PICK w \in Int, p \in Int : w = h * n /\ p = (c * b) * n
    BY <1>1, <1>10
  <2> QED BY <1>6, <1>8, <1>12, <2>1, <2>2
<1>14. q = Decimal(f, low, hi * Nibble + lo, c)
  <2>1. Low(d) - Low(s) - f.x = low
    BY <1>3, <1>4, <1>5
  <2>2. (IF Exceeds(low,
            Digits - 1) THEN low - (Nibble - Digits) ELSE low) + High(d) - High(s) = rest
    BY <1>1, <1>3, <1>9
  <2> QED BY <1>1, <1>11, <1>13, <2>1, <2>2 DEF Sbcd
<1>15. PICK g \in {-1, 0, 1} : g = -c
  OBVIOUS
<1>16. t = (hi + g * Digits) * Digits + lo
  <2>1. PICK y \in Int : y = d1 - s1 /\ h = y - k /\ hi + g * b = h
    BY <1>1, <1>3, <1>5, <1>7, <1>10, <1>12, <1>15
  <2>2. (y - k) * b = y * b - k * b /\ (d1 - s1) * b = d1 * b - s1 * b
    BY <1>1, <1>3, <1>5, <2>1, Distribute
  <2>3. PICK p \in Int, r \in Int, w \in Int, u \in Int : p = s1 * b /\ r = d1 * b
        /\ w = h * b /\ u = k * b
    BY <1>1, <1>3, <1>5
  <2>4. w = r - p - u
    BY <2>1, <2>2, <2>3
  <2>5. t = (r + d0) - (p + s0) - x
    BY <1>0, <1>3, <1>4, <2>3
  <2>6. lo = d0 - s0 - x + u
    BY <1>5, <1>6, <2>3
  <2>7. PICK x2 \in Int, a0 \in Int, b0 \in Int, l2 \in Int : x2 = x /\ a0 = d0 /\ b0 = s0
        /\ l2 = lo
    OBVIOUS
  <2>8. t = w + l2
    <3>0. p \in Int /\ r \in Int /\ w \in Int /\ u \in Int
      BY <2>3
    <3>1. t = r + a0 - p - b0 - x2 /\ l2 = a0 - b0 - x2 + u
      BY <3>0, <2>5, <2>6, <2>7
    <3> QED BY <3>0, <2>4, <2>7, <3>1
  <2> QED BY <1>1, <2>1, <2>3, <2>7, <2>8
<1>17. hi \in 0..(Digits - 1) /\ lo \in 0..(Digits - 1) /\ (c = 0 <=> g = 0)
       /\ t = (hi + g * Digits) * Digits + lo
  BY <1>1, <1>6, <1>12, <1>15, <1>16
<1> QED BY <1>0, <1>10, <1>14, <1>15, <1>17, DecimalLeaves

\* nbcd subtracts the number of its operand and X from zero.
LEMMA NbcdExact ==
  ASSUME NEW f \in Flags, NEW d \in Range0(1), IsDecimal(d),
         NEW q, q = Nbcd(f, d)
  PROVE  Decimally(f, 0 - Number(d) - f.x, q)
<1>1. PICK n \in Nat \ {0}, b \in Nat \ {0} : n = Nibble /\ b = Digits /\ b < n /\ 1 < b
  BY DecimalConstants
<1>2. PICK d1 \in Int, d0 \in Int : TwoDigit(d, d1, d0)
  BY DigitsOf
<1>3. d1 \in 0..(b - 1) /\ d0 \in 0..(b - 1) /\ d = d1 * n + d0 /\ Number(d) = d1 * b + d0
  BY <1>1, <1>2, DigitsIn DEF TwoDigit
<1>4. PICK x \in {0, 1} : x = f.x
  BY DEF Flags
<1>0. PICK t \in Int : t = 0 - Number(d) - f.x
  BY <1>3, <1>4
<1>5. PICK u \in Int, y \in Int : /\ u = b - 1 - d1 /\ y = b - d0 - x
                                 /\ 0 <= u /\ u <= b - 1 /\ 0 <= y /\ y <= b
  BY <1>1, <1>3, <1>4
<1>6. PICK v \in Int : v = u * n + y
  BY <1>1, <1>5
<1>7. PICK m \in Int, p \in Int, w \in Int : m = (b - 1) * n /\ p = d1 * n /\ w = u * n
      /\ w = m - p
  <2>1. (b - 1 - d1) * n = (b - 1) * n - d1 * n
    BY <1>1, <1>3, Distribute
  <2> QED BY <1>1, <1>3, <1>5, <2>1
<1>8. Nines = m + b - 1
  <2>1. (b - 1) * (n + 1) = (b - 1) * n + (b - 1)
    BY <1>1
  <2> QED BY <1>1, <1>7, <2>1 DEF Nines
<1>9. Nines + 1 - d - f.x = v
  BY <1>1, <1>3, <1>4, <1>5, <1>6, <1>7, <1>8
<1>10. Masked(1, v) = v /\ Low(v) = y /\ High(v) = w
  <2>1. u \in 0..(n - 1) /\ y \in 0..(n - 1)
    BY <1>1, <1>5
  <2>2. u * n + y \in 0..(n * n - 1)
    BY <1>1, <2>1, TwoDigits
  <2>3. v \in Range0(1)
    BY <1>1, <1>6, <2>2, DecimalConstants DEF Range0
  <2>4. w <= v /\ v < w + n
    BY <1>1, <1>6, <1>7, <2>1
  <2>5. v % n = v - u * n
    <3>1. u * n <= v /\ v < u * n + n
      BY <1>7, <2>4
    <3>2. u \in Int /\ v \in Int /\ n \in Nat \ {0}
      BY <1>1, <1>5, <1>6
    <3> QED BY <3>1, <3>2, DivIs
  <2>6. v % n = y /\ v - y = w
    BY <1>6, <1>7, <2>5
  <2> QED BY <1>1, <2>3, <2>6, SizeIs, MaskedSame DEF Low, High
<1>11. Number(d) = d1 * b + d0
  BY <1>3
<1>12. PICK e \in Int, g \in Int : e = d1 * b /\ g = u * b /\ g = b * b - b - e
  <2>1. (b - 1 - d1) * b = (b - 1) * b - d1 * b /\ (b - 1) * b = b * b - 1 * b
    BY <1>1, <1>3, Distribute
  <2> QED BY <1>1, <1>3, <1>5, <2>1
<1>13. t = g + y - b * b
  <2>1. PICK w2 \in Int : w2 = b * b
    OBVIOUS
  <2>2. t = 0 - (e + d0) - x
    BY <1>0, <1>4, <1>11, <1>12
  <2>3. PICK x2 \in Int, a0 \in Int : x2 = x /\ a0 = d0
    OBVIOUS
  <2>4. t = 0 - e - a0 - x2 /\ y = b - a0 - x2 /\ g = w2 - b - e
    <3>1. e \in Int /\ g \in Int
      BY <1>12
    <3>2. g = w2 - b - e
      BY <1>12, <2>1
    <3>3. y = b - a0 - x2
      BY <1>5, <2>3
    <3>4. t = 0 - e - a0 - x2
      BY <2>2, <2>3, <3>1
    <3> QED BY <3>2, <3>3, <3>4
  <2>5. t = g + y - w2
    <3>1. e \in Int /\ g \in Int /\ y \in Int /\ w2 \in Int /\ b \in Int
      BY <1>1, <1>5, <1>12, <2>1
    <3> QED BY <2>3, <2>4, <3>1
  <2> QED BY <2>1, <2>5
<1>14. CASE v = Nines + 1
  <2>1. w = m /\ y = b
    <3>1. w <= m
      BY <1>1, <1>5, <1>7, Times
    <3> QED BY <1>1, <1>5, <1>6, <1>7, <1>8, <1>14, <3>1
  <2>2. d0 = 0 /\ x = 0
    BY <1>3, <1>4, <1>5, <2>1
  <2>3. p = 0 /\ d = 0
    BY <1>3, <1>7, <2>1, <2>2
  <2>4. d1 = 0
    BY <1>2, <2>3, DigitsIn
  <2>5. t = 0
    <3>1. e = 0
      BY <1>1, <1>12, <2>4
    <3> QED BY <1>0, <1>4, <1>11, <1>12, <2>2, <3>1
  <2>6. q = Result(d, [f EXCEPT !.v = 0, !.c = 0, !.x = 0, !.n = Msb(1, v)])
    <3>1. Masked(1, Nines + 1 - d - f.x) = Nines + 1 /\ Nines + 1 = v
      BY <1>9, <1>10, <1>14
    <3> QED BY <3>1 DEF Nbcd
  <2>7. q.v = 0 /\ q.f.c = 0 /\ q.f.x = 0 /\ q.f.z = f.z
    <3>1. PICK e2 : e2 = Msb(1, v)
      OBVIOUS
    <3>2. PICK g2 : g2 = [f EXCEPT !.v = 0, !.c = 0, !.x = 0, !.n = e2]
      OBVIOUS
    <3>3. q = Result(d, g2)
      BY <2>6, <3>1, <3>2
    <3>4. q.v = d /\ q.f = g2
      BY <3>3 DEF Result
    <3>5. g2.c = 0 /\ g2.x = 0 /\ g2.z = f.z
      BY <3>2 DEF Flags
    <3> QED BY <2>3, <3>4, <3>5
  <2>8. PICK z2 \in Nat \ {0} : z2 = Digits * Digits
    BY <1>1
  <2>9. 0 % z2 = 0 /\ 0 \in 0..(z2 - 1)
    BY <2>8
  <2>10. IsDecimal(0) /\ Number(0) = 0
    <3>1. PICK a \in Int : a = 0 /\ a = a * Nibble + a /\ a * Digits + a = 0
      BY <1>1
    <3>2. TwoDigit(a, a, a)
      BY <1>1, <3>1 DEF TwoDigit
    <3> QED BY <3>1, <3>2, DigitsIn
  <2> QED BY <1>0, <2>5, <2>7, <2>8, <2>9, <2>10 DEF Decimally
<1>15. CASE v # Nines + 1
  <2>1. PICK hi \in Int, lo \in Int : /\ hi = (IF y = b THEN u + 1 ELSE u)
                                         /\ lo = (IF y = b THEN 0 ELSE y)
    OBVIOUS
  <2>2. hi \in 0..(b - 1) /\ lo \in 0..(b - 1)
    <3>1. y = b => u < b - 1
      <4>1. u = b - 1 => w = m
        BY <1>7
      <4> QED BY <1>1, <1>5, <1>6, <1>7, <1>8, <1>15, <4>1
    <3> QED BY <1>1, <1>5, <2>1, <3>1
  <2>3. (IF Low(v) = Digits THEN High(v) + Nibble ELSE v) = hi * n + lo
    <3>1. (u + 1) * n = u * n + 1 * n
      BY <1>1, <1>5, Distribute
    <3> QED BY <1>1, <1>6, <1>7, <1>10, <2>1, <3>1
  <2>4. TwoDigit(hi * n + lo, hi, lo)
    BY <1>1, <2>2 DEF TwoDigit
  <2>5. Masked(1, hi * n + lo) = hi * n + lo
    BY <2>4, DigitsIn
  <2>6. q = Decimal(f, v, hi * Nibble + lo, 1)
    <3>1. Masked(1, Nines + 1 - d - f.x) = v
      BY <1>9, <1>10
    <3> QED BY <1>1, <1>15, <2>3, <2>5, <3>1 DEF Nbcd
  <2>7. t = (hi + (-1) * Digits) * Digits + lo
    <3>1. (hi + (-1) * b) * b = hi * b + ((-1) * b) * b
      BY <1>1, Distribute
    <3>2. ((-1) * b) * b = 0 - b * b
      BY <1>1
    <3>3. (u + 1) * b = u * b + 1 * b
      BY <1>1, <1>5, Distribute
    <3>4. hi * b + lo = g + y
      BY <1>1, <1>12, <2>1, <3>3
    <3>5. PICK w2 \in Int, w3 \in Int : w2 = b * b /\ w3 = hi * b
      OBVIOUS
    <3> QED BY <1>1, <1>5, <1>12, <1>13, <2>1, <3>1, <3>2, <3>4, <3>5
  <2>8. PICK c \in {0, 1}, k \in {-1, 0, 1} : c = 1 /\ k = -1
    OBVIOUS
  <2>9. hi \in 0..(Digits - 1) /\ lo \in 0..(Digits - 1) /\ (c = 0 <=> k = 0)
        /\ t = (hi + k * Digits) * Digits + lo /\ q = Decimal(f, v, hi * Nibble + lo, c)
    BY <1>1, <2>2, <2>6, <2>7, <2>8
  <2> QED BY <1>0, <2>9, DecimalLeaves
<1> QED BY <1>14, <1>15

-----------------------------------------------------------------------------
(* What a handler leaves against the property.                             *)

\* What a comparison leaves is what the property says of it.
LEMMA Compares ==
  ASSUME NEW i, i.name \in Comparing, i.z \in Sizes, cpu.f \in Flags,
         NEW s \in Range0(i.z), NEW d \in Range0(i.z), Operands(i) = <<s, d>>,
         cpu'.f = Cmp(i.z, cpu.f, s, d).f, cpu'.d = cpu.d
  PROVE  InIntegers(i)
<1>1. PICK z, f, q : z = i.z /\ f = cpu.f /\ q = Cmp(z, f, s, d) /\ z \in Sizes /\ f \in Flags
  OBVIOUS
<1>2. PICK u, t : u = d - s /\ t = Signed(z, d) - Signed(z, s)
  OBVIOUS
<1>3. /\ OrderShown(z, s, d, q.f) /\ q.f.x = f.x
      /\ (q.f.c = 1) <=> u \notin Range0(z)
      /\ (q.f.v = 1) <=> t \notin (-Half[z])..(Half[z] - 1)
  BY <1>1, <1>2, CmpOrders
<1>4. CarryIn(i) = 0 /\ i.name \notin Adding
  BY DEF CarryIn, Comparing, Chaining, Adding
<1>5. Total(i, s, d, CarryIn(i)) = u /\ Total(i, Signed(z, s), Signed(z, d), CarryIn(i)) = t
  <2>1. s \in Int /\ d \in Int
    BY <1>1, Widths DEF Range0
  <2>2. PICK a, b : a = Signed(z, s) /\ b = Signed(z, d) /\ a \in Int /\ b \in Int
    BY <1>1, SignedIs
  <2>3. u = d - s - 0 /\ t = b - a - 0
    BY <1>2, <2>1, <2>2
  <2> QED BY <1>4, <2>2, <2>3 DEF Total
<1>6. Operands(i)[1] = s /\ Operands(i)[2] = d
  OBVIOUS
<1>7. PICK g : g = cpu'.f /\ g = q.f
  BY <1>1
<1> QED BY <1>1, <1>3, <1>5, <1>6, <1>7 DEF InIntegers

\* cmp of two registers.
LEMMA CmpInIntegers ==
  ASSUME cpu \in Machine, NEW i, IsInstruction(i), ShowHandlers(i), Binary(i)
  PROVE  InIntegers(i) /\ i.name = "cmp"
<1>1. i.name = "cmp" /\ (cmp_8(i) \/ cmp_16(i) \/ cmp_32(i))
  <2>1. i.name = "cmp"
    BY ShowIs DEF Binary
  <2> QED BY <2>1 DEF ShowHandlers, cmpa_16, cmpa_32, tst_8, tst_16, tst_32, btst_32_r, btst_8_r,
                      move_16_toc, Does
<1>2. PICK z, o, s : /\ z = i.z /\ o = i.ea /\ s = Operand(Fetched, z, o) /\ i.form = ""
                        /\ o.mode = "d"
                     /\ cpu' = WithFlags(s.m, Cmp(z, cpu.f, s.v, Masked(z, cpu.d[i.x])))
  BY <1>1 DEF cmp_8, cmp_16, cmp_32, Does, Compared, Binary
<1>3. z \in Sizes /\ o.r \in Registers /\ i.x \in Registers
  BY <1>1, <1>2 DEF IsInstruction, HasX, IsOperand
<1>4. PICK a, b : /\ a = Masked(z, cpu.d[o.r]) /\ b = Masked(z, cpu.d[i.x])
                  /\ a \in Range0(z) /\ b \in Range0(z) /\ cpu.f \in Flags
  BY <1>3, RegisterRange
<1>5. s.m = Fetched /\ s.v = a /\ Fetched \in Machine /\ Fetched.d = cpu.d
  BY <1>2, <1>4, SkippedOn DEF Operand, Stepped
<1>6. PICK n, p, f : /\ n = Fetched /\ p = cpu' /\ f = Cmp(z, cpu.f, a, b).f
                     /\ n \in Machine /\ n.d = cpu.d /\ p = [n EXCEPT !.f = f]
  BY <1>2, <1>4, <1>5 DEF WithFlags
<1>7. p.f = f /\ p.d = n.d
  BY <1>6 DEF Machine
<1>8. Operands(i) = <<a, b>>
  BY <1>1, <1>2, <1>4 DEF Operands, Low1, Masked
<1>9. i.z \in Sizes /\ a \in Range0(i.z) /\ b \in Range0(i.z) /\ i.name \in Comparing
      /\ cpu.f \in Flags
      /\ cpu'.f = Cmp(i.z, cpu.f, a, b).f /\ cpu'.d = cpu.d
  BY <1>1, <1>2, <1>3, <1>4, <1>6, <1>7 DEF Comparing
<1> QED BY <1>1, <1>8, <1>9, Compares

\* cmpi with a register.
LEMMA CmpiInIntegers ==
  ASSUME cpu \in Machine, NEW i, IsInstruction(i), AgainstHandlers(i), Binary(i)
  PROVE  InIntegers(i) /\ i.name = "cmpi"
<1>1. i.name = "cmpi" /\ (cmpi_8(i) \/ cmpi_16(i) \/ cmpi_32(i))
  <2>1. i.name = "cmpi"
    BY AgainstIs DEF Binary
  <2> QED BY <2>1 DEF AgainstHandlers, btst_32_s, btst_8_s, Does
<1>2. PICK z, o, v, n, s :
        /\ z = i.z /\ o = i.ea /\ v = ImmWords(z) /\ n = Skip(Fetched, v) /\ s = Operand(n, z, o)
        /\ i.form = "" /\ o.mode = "d" /\ cpu' = WithFlags(s.m, Cmp(z, cpu.f, i.q, s.v))
  BY <1>1 DEF cmpi_8, cmpi_16, cmpi_32, Does, ComparedI, Binary
<1>3. z \in Sizes /\ o.r \in Registers /\ i.q \in Range0(z)
  BY <1>1, <1>2 DEF IsInstruction, IsOperand
<1>4. PICK a, b : /\ a = i.q /\ b = Masked(z, cpu.d[o.r])
                  /\ a \in Range0(z) /\ b \in Range0(z) /\ cpu.f \in Flags
  BY <1>3, RegisterRange
<1>5. n \in Machine /\ n.d = cpu.d
  <2>1. v \in Nat
    BY <1>2 DEF ImmWords
  <2>2. Stepped(cpu, n, {}, 1 + v)
    BY <1>2, <2>1, SkippedOn
  <2> QED BY <2>2 DEF Stepped
<1>6. s.m = n /\ s.v = b
  BY <1>2, <1>4, <1>5 DEF Operand
<1>7. PICK p, f : p = cpu' /\ f = Cmp(z, cpu.f, a, b).f /\ p = [n EXCEPT !.f = f]
  BY <1>2, <1>4, <1>6 DEF WithFlags
<1>8. p.f = f /\ p.d = n.d
  BY <1>5, <1>7 DEF Machine
<1>9. Operands(i) = <<a, b>>
  BY <1>1, <1>2, <1>4 DEF Operands, Low1, Masked
<1>10. i.z \in Sizes /\ a \in Range0(i.z) /\ b \in Range0(i.z) /\ i.name \in Comparing
      /\ cpu.f \in Flags
       /\ cpu'.f = Cmp(i.z, cpu.f, a, b).f /\ cpu'.d = cpu.d
  BY <1>1, <1>2, <1>3, <1>4, <1>5, <1>7, <1>8 DEF Comparing
<1> QED BY <1>1, <1>9, <1>10, Compares

\* What a sum or a difference leaves is what the property says of it.
LEMMA SumsConclude ==
  ASSUME NEW i, i.name \in Summing, i.z \in Sizes, cpu.f \in Flags, Computes(i)
  PROVE  InIntegers(i)
<1>1. PICK s, d \in Range0(i.z) : \E q :
        /\ q = Op(i.name, i.z, cpu.f, s, IF i.name \in Negating THEN s ELSE d)
        /\ i.name \in Negating => d = 0
        /\ Leaves(i, s, d, q)
  BY DEF Computes
<1>2. PICK q : /\ q = Op(i.name, i.z, cpu.f, s, IF i.name \in Negating THEN s ELSE d)
               /\ i.name \in Negating => d = 0
               /\ Leaves(i, s, d, q)
  BY <1>1
<1>3. PICK name, z, f : name = i.name /\ z = i.z /\ f = cpu.f
  OBVIOUS
<1>4. Summed(name, z, f, s, d, q)
  BY <1>2, <1>3, OpSums
<1>5. PICK x : x = CarryIn(i)
  OBVIOUS
<1>6. PICK u, t : u = Total(i, s, d, x) /\ t = Total(i, Signed(z, s), Signed(z, d), x)
  OBVIOUS
<1>7. Exactly(z, q, u, t) /\ ((q.f.z = 1) <=> (q.v = 0 /\ (name \in Chaining => f.z = 1)))
  BY <1>3, <1>4, <1>5, <1>6 DEF Summed, Total, CarryIn
<1>8. Operands(i)[1] = s /\ Operands(i)[2] = d /\ Outcome(i) = q.v /\ cpu'.f = q.f
  BY <1>2 DEF Leaves
<1>9. PICK g, r : g = cpu'.f /\ r = Outcome(i) /\ g = q.f /\ r = q.v
  BY <1>8
<1>10. i.name \notin Comparing
  BY DEF Summing, Comparing
<1>11. /\ (g.c = 1) <=> u \notin Range0(z)
       /\ (g.v = 1) <=> t \notin (-Half[z])..(Half[z] - 1)
       /\ r = Low1(z, u) /\ g.x = g.c
       /\ (g.n = 1) <=> Signed(z, r) < 0
       /\ (g.z = 1) <=> (r = 0 /\ (name \in Chaining => f.z = 1))
  BY <1>7, <1>9 DEF Exactly
<1> QED BY <1>3, <1>5, <1>6, <1>8, <1>9, <1>10, <1>11 DEF InIntegers

\* What a decimal operation leaves is what the property says of it.
LEMMA DecimalsConclude ==
  ASSUME NEW i, i.name \in {"abcd", "sbcd", "nbcd"}, i.z = 1, cpu.f \in Flags, Computes(i)
  PROVE  InDecimals(i)
<1>1. PICK s, d \in Range0(i.z) : \E q :
        /\ q = Op(i.name, i.z, cpu.f, s, IF i.name \in Negating THEN s ELSE d)
        /\ i.name \in Negating => d = 0
        /\ Leaves(i, s, d, q)
  BY DEF Computes
<1>2. PICK q : /\ q = Op(i.name, i.z, cpu.f, s, IF i.name \in Negating THEN s ELSE d)
               /\ i.name \in Negating => d = 0
               /\ Leaves(i, s, d, q)
  BY <1>1
<1>3. PICK name, f : name = i.name /\ f = cpu.f /\ s \in Range0(1) /\ d \in Range0(1)
      /\ f \in Flags
  OBVIOUS
<1>4. PICK t : t = Total(i, Number(s), Number(d), f.x)
  OBVIOUS
<1>5. SUFFICES ASSUME IsDecimal(s), IsDecimal(d) PROVE Decimally(f, t, q)
  <2>1. Operands(i)[1] = s /\ Operands(i)[2] = d /\ Outcome(i) = q.v /\ cpu'.f = q.f
    BY <1>2 DEF Leaves
  <2>2. PICK g, r : g = cpu'.f /\ r = Outcome(i) /\ g = q.f /\ r = q.v
    BY <2>1
  <2> QED BY <1>3, <1>4, <2>1, <2>2 DEF InDecimals, Decimally
<1>6. CASE name = "abcd"
  <2>1. q = Abcd(f, s, d)
    BY <1>2, <1>3, <1>6 DEF Op, Negating
  <2>2. t = Number(d) + Number(s) + f.x
    BY <1>3, <1>4, <1>6 DEF Total, Adding
  <2> QED BY <1>3, <1>5, <2>1, <2>2, AbcdExact
<1>7. CASE name = "sbcd"
  <2>1. q = Sbcd(f, s, d)
    BY <1>2, <1>3, <1>7 DEF Op, Negating
  <2>2. t = Number(d) - Number(s) - f.x
    BY <1>3, <1>4, <1>7 DEF Total, Adding
  <2> QED BY <1>3, <1>5, <2>1, <2>2, SbcdExact
<1>8. CASE name = "nbcd"
  <2>1. q = Nbcd(f, s) /\ d = 0
    BY <1>2, <1>3, <1>8 DEF Op, Negating
  <2>2. Number(0) = 0
    <3>1. PICK n \in Nat \ {0}, b \in Nat \ {0} : n = Nibble /\ b = Digits
      BY DecimalConstants
    <3>2. 0 \div n = 0 /\ 0 % n = 0 /\ 0 * b = 0
      BY <3>1
    <3> QED BY <3>1, <3>2 DEF Number
  <2>3. t = 0 - Number(s) - f.x
    BY <1>3, <1>4, <1>8, <2>1, <2>2 DEF Total, Adding
  <2> QED BY <1>3, <1>5, <2>1, <2>3, NbcdExact
<1> QED BY <1>3, <1>6, <1>7, <1>8

-----------------------------------------------------------------------------
(* Every sum and difference.                                               *)

\* A binary operation on registers, or downwards in memory, is done by the
\* handlers of a few kinds.
Computing(i) ==
  \/ ErHandlers(i) \/ ImmHandlers(i) \/ QuickHandlers(i) \/ UnaryHandlers(i) \/ RrHandlers(i)
  \/ MmHandlers(i) \/ ShowHandlers(i) \/ AgainstHandlers(i)

\* No other kind of handler does a binary operation on registers.
LEMMA PlainElsewhere ==
  ASSUME NEW i, Binary(i),
         \/ ReHandlers(i) \/ ShiftSHandlers(i) \/ ShiftRHandlers(i) \/ ShiftMHandlers(i)
         \/ BitRHandlers(i) \/ BitSHandlers(i) \/ LongHandlers(i) \/ ToAHandlers(i)
         \/ MoveHandlers(i) \/ FillHandlers(i) \/ ExgHandlers(i) \/ SaveHandlers(i)
         \/ RestoreHandlers(i) \/ BranchHandlers(i) \/ LoopHandlers(i)
  PROVE  FALSE
<1>1. PICK name, form, mode : name = i.name /\ form = i.form /\ mode = i.ea.mode
  OBVIOUS
<1>2. /\ name \in {"add", "addx", "sub", "subx", "cmp", "neg", "negx", "addi", "subi", "cmpi",
             "addq",
                   "subq", "abcd", "sbcd", "nbcd"}
      /\ mode = "d" \/ form = "mm"
  BY <1>1 DEF Binary
<1>3. ~ReHandlers(i)
  <2>1. SUFFICES ASSUME ReHandlers(i) PROVE FALSE
    OBVIOUS
  <2>2. name \in {"and", "or", "eor"} \/ (mode \in Memory /\ form = "re")
    BY <1>1, <2>1
       DEF ReHandlers, Does, add_8_re, add_16_re, add_32_re, sub_8_re, sub_16_re, sub_32_re,
                      and_8_re, and_16_re, and_32_re, or_8_re, or_16_re, or_32_re, eor_8,
                          eor_16, eor_32
  <2> QED BY <1>2, <2>2 DEF Memory
<1>4. ~ShiftSHandlers(i) /\ ~ShiftRHandlers(i) /\ ~ShiftMHandlers(i) /\ ~BitRHandlers(i)
      /\ ~BitSHandlers(i)
  <2>1. ShiftSHandlers(i) => name \in Rotated
    BY <1>1, ShiftSIs
  <2>2. ShiftRHandlers(i) => name \in Rotated
    BY <1>1, ShiftRIs
  <2>3. ShiftMHandlers(i) => name \in Rotated
    BY <1>1, ShiftMIs
  <2>4. BitRHandlers(i) => name \in Bitwise1
    BY <1>1, BitRIs
  <2>5. BitSHandlers(i) => name \in Bitwise1
    BY <1>1, BitSIs
  <2>6. name \notin Rotated /\ name \notin Bitwise1
    BY <1>2 DEF Rotated, Bitwise1
  <2> QED BY <2>1, <2>2, <2>3, <2>4, <2>5, <2>6
<1>5. ~LongHandlers(i) /\ ~ToAHandlers(i) /\ ~FillHandlers(i) /\ ~ExgHandlers(i)
  BY <1>1, <1>2
     DEF LongHandlers, ToAHandlers, FillHandlers, ExgHandlers, Does, mulu_16, muls_16,
         divu_16, divs_16,
         adda_16, adda_32, suba_16, suba_32, movea_16, movea_32, clr_8, clr_16, clr_32, st_8,
             sf_8, scc_8,
         exg_32_dd, exg_32_aa, exg_32_da
<1>6. ~MoveHandlers(i)
  BY <1>1, <1>2, MoveIs
<1>7. ~SaveHandlers(i) /\ ~RestoreHandlers(i) /\ ~BranchHandlers(i) /\ ~LoopHandlers(i)
  BY <1>1, <1>2
     DEF SaveHandlers, RestoreHandlers, BranchHandlers, LoopHandlers, Does, movem_16_re_pd,
         movem_32_re_pd,
         movem_16_re, movem_32_re, movem_16_er_pi, movem_32_er_pi, movem_16_er, movem_32_er,
         bcc_8, bcc_16, bra_8, bra_16, dbf_16, dbcc_16
<1> QED BY <1>3, <1>4, <1>5, <1>6, <1>7

\* Nor does one of the rest.
LEMMA OtherElsewhere == ASSUME NEW i, Binary(i), OtherHandlers(i) PROVE FALSE
<1>1. PICK name, form, mode : name = i.name /\ form = i.form /\ mode = i.ea.mode
  OBVIOUS
<1>2. /\ name \in {"add", "addx", "sub", "subx", "cmp", "neg", "negx", "addi", "subi", "cmpi",
             "addq",
                   "subq", "abcd", "sbcd", "nbcd"}
      /\ mode = "d" \/ form = "mm"
  BY <1>1 DEF Binary
<1>3. \/ name \in {"cmpm", "andi", "ori", "eori", "nop", "trapv", "dbt", "moveq", "chk",
             "tas", "movep"}
      \/ name \in {"lea", "pea", "link", "unlk", "bsr", "jmp", "jsr", "rts", "rtr"}
      \/ mode = "a" /\ form = "a"
  BY <1>1
     DEF OtherHandlers, Does, cmpm_8, cmpm_16, cmpm_32, andi_16_toc, ori_16_toc, eori_16_toc,
         nop, trapv,
         dbt_16, addq_16_a, addq_32_a, subq_16_a, subq_32_a, moveq_32, chk_16, tas_8,
             movep_16_er,
         movep_32_er, movep_16_re, movep_32_re, lea_32, pea_32, link_16, link_16_a7, unlk_32,
             unlk_32_a7,
         bsr_8, bsr_16, jmp_32, jsr_32, rts_32, rtr_32
<1> QED BY <1>2, <1>3

\* So it is done by a handler that computes.
LEMMA BinaryHandlers == ASSUME NEW i, Binary(i), Handlers(i) PROVE Computing(i)
BY PlainElsewhere, OtherElsewhere DEF Handlers, Computing

Exact(i) == IF i.name \in {"abcd", "sbcd", "nbcd"} THEN InDecimals(i) ELSE InIntegers(i)

\* Every handler of a binary operation leaves what the property says.
LEMMA BinaryExact ==
  ASSUME cpu \in Machine, NEW i, IsInstruction(i), Handlers(i), Binary(i)
  PROVE  Exact(i)
<1>1. i.z \in Sizes /\ cpu.f \in Flags
  <2>1. PICK m : m = cpu /\ m \in Machine
    OBVIOUS
  <2>2. m.f \in Flags
    BY <2>1, MachineIs
  <2> QED BY <2>1, <2>2 DEF IsInstruction
<1>2. i.name \in Summing => i.name \notin {"abcd", "sbcd", "nbcd"}
  BY DEF Summing
<1>3. CASE ErHandlers(i) \/ ImmHandlers(i) \/ QuickHandlers(i)
  <2>1. Computes(i) /\ i.name \in {"add", "sub", "addi", "subi", "addq", "subq"}
    BY <1>3, ErComputes, ImmComputes, QuickComputes
  <2>2. i.name \in Summing
    BY <2>1 DEF Summing
  <2> QED BY <1>1, <1>2, <2>1, <2>2, SumsConclude DEF Exact
<1>4. CASE UnaryHandlers(i) \/ RrHandlers(i) \/ MmHandlers(i)
  <2>1. Computes(i)
    BY <1>4, UnaryComputes, RrComputes, MmComputes
  <2>2. i.name \in {"neg", "negx", "addx", "subx"} \/ (i.name \in {"abcd", "sbcd", "nbcd"}
        /\ i.z = 1)
    <3>1. UnaryHandlers(i) => i.name \in {"neg", "negx"} \/ (i.name = "nbcd" /\ i.z = 1)
      BY UnaryComputes, UnaryIs DEF Negating
    <3> QED BY <1>4, <3>1, RrIs, MmIs
  <2>3. CASE i.name \in {"neg", "negx", "addx", "subx"}
    <3>1. i.name \in Summing
      BY <2>3 DEF Summing
    <3> QED BY <1>1, <1>2, <2>1, <3>1, SumsConclude DEF Exact
  <2>4. CASE i.name \in {"abcd", "sbcd", "nbcd"} /\ i.z = 1
    BY <1>1, <2>1, <2>4, DecimalsConclude DEF Exact
  <2> QED BY <2>2, <2>3, <2>4
<1>5. CASE ShowHandlers(i) \/ AgainstHandlers(i)
  BY <1>5, CmpInIntegers, CmpiInIntegers DEF Exact
<1> QED BY <1>3, <1>4, <1>5, BinaryHandlers DEF Computing

\* And so does every step of a program.
LEMMA StepExact == ASSUME IInv, Next, Running, Binary(Instr) PROVE Exact(Instr)
<1>1. PICK i : i = Instr
  OBVIOUS
<1>2. ~Unready
  <2>1. Unready => i.name = "movep"
    BY <1>1 DEF Unready, Movep, Plain
  <2> QED BY <1>1, <2>1 DEF Binary
<1>3. Handling
  BY <1>2 DEF Next, Handling, Ended
<1>4. IsInstruction(i) /\ Handlers(i) /\ cpu \in Machine
  BY <1>1, <1>3, InstrIs, HandlersAre DEF IInv, TypeOK
<1>5. Exact(i)
  BY <1>1, <1>4, BinaryExact
<1> QED BY <1>1, <1>5

\* Sums, differences, comparisons, chains with X and decimals are exact, with their flags
\* (ArithmeticExact), in every program.
THEOREM Arithmetics == Spec => ArithmeticExact
<1>1. IInv /\ [Next]_vars
        => [Running /\ Binary(Instr) =>
              IF Instr.name \in {"abcd", "sbcd",
                  "nbcd"} THEN InDecimals(Instr) ELSE InIntegers(Instr)]_cpu
  BY StepExact DEF vars, Exact
<1> QED BY <1>1, Invariant, PTL DEF Spec, ArithmeticExact

-----------------------------------------------------------------------------
(* Products and quotients against integers.                                *)

\* A number that fits is what its low bits say.
LEMMA SignedBack ==
  ASSUME NEW z \in Sizes, NEW v \in Int, -Half[z] <= v, v < Half[z]
  PROVE  Masked(z, v) \in Range0(z) /\ Signed(z, Masked(z, v)) = v
<1>1. PICK h \in Nat \ {0} : h = Half[z] /\ Mod(z) = 2 * h
  BY Widths
<1>2. Masked(z, v) = IF v < 0 THEN v + Mod(z) ELSE IF v < Mod(z) THEN v ELSE v - Mod(z)
  BY <1>1, Bits2
<1> QED BY <1>1, <1>2 DEF Range0, Signed

\* MAKE_INT looks at the low bits only.
LEMMA MakeIntLow == ASSUME NEW z, NEW v PROVE MakeInt(z, v) = Signed(z, Low1(z, v))
BY DEF MakeInt, Masked, Signed, Low1

\* The bounds of a word and of a long, from those of a word.
LEMMA SizesOf ==
  \E h \in Nat \ {0}, m \in Nat \ {0}, k \in Nat \ {0} :
    /\ h = Half[2] /\ m = Mod(2) /\ m = 2 * h /\ k = h * h /\ Half[4] = 2 * k /\ Mod(4) = m * m
    /\ h <= k /\ 2 \in Sizes /\ 4 \in Sizes
<1>1. PICK h \in Nat \ {0}, m \in Nat \ {0}, l \in Nat \ {0} :
        /\ h = Half[2] /\ m = Mod(2) /\ m = 2 * h /\ l = Half[4] /\ Mod(4) = 2 * l
           /\ Mod(4) = m * m
  BY Widths DEF Sizes
<1>2. PICK k \in Int : k = h * h
  OBVIOUS
<1>3. m * m = 4 * k
  BY <1>1, <1>2
<1>4. l = 2 * k
  BY <1>1, <1>2, <1>3
<1>5. 1 * h <= h * h
  BY Times
<1>6. h <= k /\ k \in Nat \ {0}
  BY <1>2, <1>5
<1> QED BY <1>1, <1>2, <1>4, <1>6 DEF Sizes

\* A product of two signed numbers is not beyond the square of their bound.
LEMMA ProductFits ==
  ASSUME NEW a \in Int, NEW b \in Int, NEW h \in Nat, -h <= a, a <= h, -h <= b, b <= h
  PROVE  a * b \in Int /\ -(h * h) <= a * b /\ a * b <= h * h
<1>1. PICK p \in Nat, r \in Nat : p = (IF a < 0 THEN -a ELSE a) /\ r = (IF b < 0 THEN -b ELSE b)
  OBVIOUS
<1>2. p <= h /\ r <= h
  BY <1>1
<1>3. p * r <= h * r
  BY <1>2, Times
<1>4. r * h <= h * h
  BY <1>2, Times
<1>5. 0 * r <= p * r
  BY Times
<1>6. PICK t \in Int, k \in Int, u \in Int : t = p * r /\ k = h * h /\ u = r * h /\ u = h * r
  OBVIOUS
<1>7. 0 <= t /\ t <= k
  BY <1>3, <1>4, <1>5, <1>6
<1>8. a * b = t \/ a * b = -t
  <2>1. CASE a < 0 /\ b < 0
    <3>1. a = -p /\ b = -r
      BY <1>1, <2>1
    <3>2. a * b = p * r
      BY <3>1
    <3> QED BY <1>6, <3>2
  <2>2. CASE a < 0 /\ ~(b < 0)
    <3>1. a = -p /\ b = r
      BY <1>1, <2>2
    <3>2. a * b = -(p * r)
      BY <3>1
    <3> QED BY <1>6, <3>2
  <2>3. CASE ~(a < 0) /\ b < 0
    <3>1. a = p /\ b = -r
      BY <1>1, <2>3
    <3>2. a * b = -(p * r)
      BY <3>1
    <3> QED BY <1>6, <3>2
  <2>4. CASE ~(a < 0) /\ ~(b < 0)
    BY <1>1, <1>6, <2>4
  <2> QED BY <2>1, <2>2, <2>3, <2>4
<1> QED BY <1>6, <1>7, <1>8

\* Division of numbers that are not negative.
LEMMA DivNat == ASSUME NEW p \in Nat, NEW h \in Nat \ {0}
  PROVE  \E n \in Int : n = p \div h /\ n * h <= p /\ p < n * h + h
BY DivBounds

\* Division towards zero.
LEMMA DivisionIs ==
  ASSUME NEW a \in Int, NEW b \in Int, b # 0,
         NEW m, m = Abs(a) \div Abs(b), NEW q, q = IF (a < 0) = (b < 0) THEN m ELSE -m
  PROVE  /\ m \in Nat /\ q \in Int /\ a - q * b \in Int
         /\ Divides(a, b, q, a - q * b)
<1>1. PICK p \in Nat, h \in Nat \ {0} : p = Abs(a) /\ h = Abs(b)
  BY DEF Abs
<1>2. m \in Int /\ m * h <= p /\ p < m * h + h
  <2>1. m = p \div h
    BY <1>1
  <2>2. PICK n \in Int : n = p \div h /\ n * h <= p /\ p < n * h + h
    BY DivNat
  <2>3. m = n
    BY <2>1, <2>2
  <2> QED BY <2>2, <2>3
<1>3. m \in Nat
  BY <1>1, Part
<1>4. q \in Int
  BY <1>3
<1>5. PICK w \in Int, t \in Int : w = m * h /\ t = p - w /\ 0 <= t /\ t < h
  BY <1>2
<1>6. PICK e \in Int, r \in Int : e = q * b /\ r = a - e
  BY <1>4
<1>7. e = IF a < 0 THEN -w ELSE w
  <2>1. CASE a < 0 /\ b < 0
    <3>1. q = m /\ b = -h
      BY <1>1, <2>1 DEF Abs
    <3>2. q * b = -(m * h)
      BY <1>3, <3>1
    <3> QED BY <1>5, <1>6, <2>1, <3>2
  <2>2. CASE a < 0 /\ ~(b < 0)
    <3>1. q = -m /\ b = h
      BY <1>1, <2>2 DEF Abs
    <3>2. q * b = -(m * h)
      BY <1>3, <3>1
    <3> QED BY <1>5, <1>6, <2>2, <3>2
  <2>3. CASE ~(a < 0) /\ b < 0
    <3>1. q = -m /\ b = -h
      BY <1>1, <2>3 DEF Abs
    <3>2. q * b = m * h
      BY <1>3, <3>1
    <3> QED BY <1>5, <1>6, <2>3, <3>2
  <2>4. CASE ~(a < 0) /\ ~(b < 0)
    <3>1. q = m /\ b = h
      BY <1>1, <2>4 DEF Abs
    <3> QED BY <1>5, <1>6, <2>4, <3>1
  <2> QED BY <2>1, <2>2, <2>3, <2>4
<1>8. a = IF a < 0 THEN -p ELSE p
  BY <1>1 DEF Abs
<1>9. r = IF a < 0 THEN -t ELSE t
  BY <1>5, <1>6, <1>7, <1>8
<1>10. Abs(r) = t
  BY <1>5, <1>9 DEF Abs
<1>11. r # 0 => (r < 0) = (a < 0)
  BY <1>5, <1>9
<1>12. a = e + r
  BY <1>6
<1> QED BY <1>1, <1>3, <1>4, <1>5, <1>6, <1>10, <1>11, <1>12 DEF Divides

\* MULU and MULS.
LEMMA MuluIs ==
  ASSUME NEW f \in Flags, NEW s \in Range0(2), NEW d \in Range0(4)
  PROVE  Mulu(f, s, d).v = s * Low1(2, d)
BY DEF Mulu, Logical, Result, Low1, Masked

\* MULS: the bounds of a word's square are those of a long, halved.
LEMMA MulsIs ==
  ASSUME NEW f \in Flags, NEW s \in Range0(2), NEW d \in Range0(4)
  PROVE  Signed(4, Muls(f, s, d).v) = Signed(2, s) * Signed(2, Low1(2, d))
<1>1. PICK h \in Nat \ {0}, m \in Nat \ {0}, k \in Nat \ {0} :
        /\ h = Half[2] /\ m = Mod(2) /\ m = 2 * h /\ k = h * h /\ Half[4] = 2 * k
           /\ Mod(4) = m * m
        /\ h <= k /\ 2 \in Sizes /\ 4 \in Sizes
  BY SizesOf
<1>2. PICK a, b : a = Signed(2, s) /\ b = Signed(2, Low1(2, d)) /\ a = MakeInt(2, s)
      /\ b = MakeInt(2, d)
  BY <1>1, SignedIs, MakeIntLow
<1>3. s \in Int /\ d \in Int
  BY <1>1, MaskedSame
<1>4. a \in Int /\ b \in Int /\ -h <= a /\ a <= h /\ -h <= b /\ b <= h
  BY <1>1, <1>2, <1>3, MakeIntType
<1>5. a * b \in Int /\ -k <= a * b /\ a * b <= k
  BY <1>1, <1>4, ProductFits
<1>6. PICK t \in Int : t = a * b /\ -k <= t /\ t <= k
  BY <1>5
<1>7. -Half[4] <= t /\ t < Half[4]
  BY <1>1, <1>6
<1>8. Signed(4, Masked(4, t)) = t
  BY <1>1, <1>7, SignedBack
<1>9. Muls(f, s, d).v = Masked(4, t)
  BY <1>2, <1>6 DEF Muls, Logical, Result
<1> QED BY <1>2, <1>6, <1>8, <1>9

\* A quotient and its remainder, in one long.
LEMMA QuotientIs ==
  ASSUME NEW f \in Flags, NEW q \in Int, NEW r \in Int, NEW p, p = Quotient(f, q, r)
  PROVE  /\ Low1(2, p.v) = Masked(2, q) /\ p.v \div Mod(2) = Masked(2, r)
         /\ p.f.v = 0 /\ p.f.z = Bit(q = 0)
<1>1. PICK m \in Nat \ {0} : m = Mod(2) /\ 2 \in Sizes
  BY Widths DEF Sizes
<1>2. PICK a \in Int, b \in Int : a = Masked(2, q) /\ b = Masked(2, r) /\ 0 <= a /\ a < m
  <2>1. Masked(2, q) \in Range0(2) /\ Masked(2, r) \in Range0(2)
    BY <1>1, MaskedRange
  <2> QED BY <1>1, <2>1 DEF Range0
<1>3. p = Result(a + b * m, [Logical(2, f, a).f EXCEPT !.z = Bit(q = 0)])
  BY <1>1, <1>2 DEF Quotient
<1>4. PICK v \in Int, w \in Int : v = p.v /\ w = b * m /\ v = a + w
  BY <1>3 DEF Result
<1>5. b * m <= v /\ v < b * m + m
  BY <1>2, <1>4
<1>6. v \div m = b /\ v % m = v - b * m
  BY <1>5, DivIs
<1>7. v % m = a
  BY <1>2, <1>4, <1>6
<1>8. p.f.v = 0 /\ p.f.z = Bit(q = 0)
  <2>0. PICK g, e, j : /\ g = Logical(2, f, a).f /\ e = Bit(q = 0)
                       /\ j = [Logical(2, f, a).f EXCEPT !.z = Bit(q = 0)]
    OBVIOUS
  <2>1. g = Logical(2, f, a).f /\ p.f = [g EXCEPT !.z = e] /\ e = Bit(q = 0)
    <3>1. p = Result(a + b * m, j)
      BY <1>3, <2>0
    <3>2. p.f = j
      BY <3>1 DEF Result
    <3> QED BY <2>0, <3>2
  <2>2. g = [x |-> f.x, n |-> Msb(2, a), z |-> Bit(a = 0), v |-> 0, c |-> 0]
    BY <2>1 DEF Logical, Result
  <2> QED BY <2>1, <2>2
<1> QED BY <1>1, <1>2, <1>4, <1>6, <1>7, <1>8 DEF Low1

-----------------------------------------------------------------------------
(* Quotients in one long.                                                  *)

\* A quotient and a remainder, or nothing when the quotient does not fit.
Divided(p, old, d, s, low, high, q, r) ==
  /\ (p.f.v = 0) <=> Fits(d, s, low, high)
  /\ p.f.v = 0 => Divides(d, s, q, r) /\ ((p.f.z = 1) <=> q = 0)
  /\ p.f.v # 0 => p.v = old

\* What division leaves.
LEMMA RestIs == ASSUME NEW p \in Nat, NEW h \in Nat \ {0}
  PROVE  p % h = p - (p \div h) * h /\ p % h \in 0..(h - 1)
BY DivBounds, Remainder

\* DIVU, as the property has it.
LEMMA DivuIs ==
  ASSUME NEW f \in Flags, NEW s \in Range0(2), NEW d \in Range0(4), s # 0, NEW p, p = Divu(f,
         s, d),
         NEW q, q = Low1(2, p.v), NEW r, r = p.v \div Mod(2)
  PROVE  Divided(p, d, d, s, 0, Mod(2) - 1, q, r)
<1>1. PICK n \in Nat \ {0} : n = Mod(2) /\ 2 \in Sizes
  BY SizesOf
<1>2. s \in Int /\ d \in Int /\ 0 < s /\ s < n /\ 0 <= d
  <2>1. s \in 0..(n - 1) /\ d \in Nat
    BY <1>1, SizesOf, MaskedSame DEF Range0
  <2> QED BY <2>1
<1>3. Abs(d) = d /\ Abs(s) = s /\ (d < 0) = (s < 0)
  BY <1>2 DEF Abs
<1>4. PICK m, t : m = d \div s /\ t = d - m * s
  OBVIOUS
<1>5. m = Abs(d) \div Abs(s) /\ m = (IF (d < 0) = (s < 0) THEN m ELSE -m)
  BY <1>3, <1>4
<1>6. m \in Nat /\ t \in Int /\ Divides(d, s, m, t)
  BY <1>2, <1>4, <1>5, DivisionIs
<1>7. d % s = t /\ 0 <= t /\ t < s
  <2>1. PICK h \in Nat \ {0}, v \in Nat : h = s /\ v = d
    BY <1>2
  <2>2. v % h = v - (v \div h) * h /\ v % h \in 0..(h - 1)
    BY RestIs
  <2> QED BY <1>4, <2>1, <2>2
<1>8. Fits(d, s, 0, Mod(2) - 1) <=> m < n
  BY <1>1, <1>5, <1>6 DEF Fits
<1>9. CASE m < n
  <2>1. p = Quotient(f, m, t)
    BY <1>1, <1>4, <1>7, <1>9 DEF Divu
  <2>2. Masked(2, m) = m /\ Masked(2, t) = t
    <3>1. m \in Range0(2) /\ t \in Range0(2)
      BY <1>1, <1>2, <1>6, <1>7, <1>9 DEF Range0
    <3> QED BY <1>1, <3>1, MaskedSame
  <2>3. m \in Int
    BY <1>6
  <2>4. q = m /\ r = t /\ p.f.v = 0 /\ p.f.z = Bit(m = 0)
    BY <1>6, <2>1, <2>2, <2>3, QuotientIs
  <2> QED BY <1>6, <1>8, <1>9, <2>4 DEF Bit, Divided
<1>10. CASE ~(m < n)
  <2>1. p = TooBig(f, d)
    BY <1>1, <1>4, <1>10 DEF Divu
  <2>2. p.v = d /\ p.f.v = 1
    BY <2>1 DEF TooBig, Result, Flags
  <2> QED BY <1>8, <1>10, <2>2 DEF Divided
<1> QED BY <1>9, <1>10

\* DIVS, unless the handler gives up on it.
LEMMA DivsIs ==
  ASSUME NEW f \in Flags, NEW s \in Range0(2), NEW d \in Range0(4), s # 0,
         ~(d = Half[4] /\ s = Mod(2) - 1), NEW p, p = Divs(f, s, d),
         NEW a, a = Signed(4, d), NEW b, b = Signed(2, s),
         NEW q, q = Signed(2, Low1(2, p.v)), NEW r, r = Signed(2, p.v \div Mod(2))
  PROVE  Divided(p, d, a, b, -Half[2], Half[2] - 1, q, r)
<1>1. PICK h \in Nat \ {0}, n \in Nat \ {0} : h = Half[2] /\ n = Mod(2) /\ n = 2 * h
      /\ 2 \in Sizes /\ 4 \in Sizes
  BY SizesOf
<1>2. s \in Int /\ 0 < s /\ s < n
  <2>1. s \in 0..(n - 1)
    BY <1>1 DEF Range0
  <2> QED BY <2>1
<1>3. a = MakeInt(4, d) /\ b = MakeInt(2, s) /\ a \in Int /\ b \in Int
  BY <1>1, SignedIs
<1>4. b = IF s < h THEN s ELSE s - n
  BY <1>1 DEF Signed
<1>5. b # 0 /\ -h <= b /\ b < h /\ (b = -1 <=> s = n - 1)
  BY <1>1, <1>2, <1>4
<1>6. PICK m, u : m = Abs(a) \div Abs(b) /\ u = IF (a < 0) = (b < 0) THEN m ELSE -m
  OBVIOUS
<1>7. u \in Int /\ a - u * b \in Int /\ Divides(a, b, u, a - u * b)
  BY <1>3, <1>5, <1>6, DivisionIs
<1>8. PICK t \in Int : t = a - u * b
  BY <1>7
<1>9. -h <= t /\ t < h
  <2>1. Abs(t) < Abs(b)
    BY <1>7, <1>8 DEF Divides
  <2> QED BY <1>1, <1>3, <1>5, <2>1 DEF Abs
<1>10. Fits(a, b, -Half[2], Half[2] - 1) <=> u \in -h..(h - 1)
  BY <1>1, <1>6 DEF Fits
<1>11. p = IF u \in -h..(h - 1) THEN Quotient(f, u, t) ELSE TooBig(f, d)
  <2>1. ~(d = Half[4] /\ b = -1)
    BY <1>1, <1>5
  <2>2. Divs(f, s, d) = IF d = Half[4] /\ b = -1 THEN Logical(4, f, 0)
                        ELSE IF u \in -Half[2]..(Half[2] - 1) THEN Quotient(f, u, a - u * b)
                        ELSE TooBig(f, d)
    BY <1>3, <1>6 DEF Divs, Abs
  <2> QED BY <1>1, <1>8, <2>1, <2>2
<1>12. CASE u \in -h..(h - 1)
  <2>1. p = Quotient(f, u, t)
    BY <1>11, <1>12
  <2>2. Signed(2, Masked(2, u)) = u /\ Signed(2, Masked(2, t)) = t
    <3>1. -h <= u /\ u < h
      BY <1>7, <1>12
    <3> QED BY <1>1, <1>7, <1>9, <3>1, SignedBack
  <2>3. Low1(2, p.v) = Masked(2, u) /\ p.v \div Mod(2) = Masked(2, t) /\ p.f.v = 0
        /\ p.f.z = Bit(u = 0)
    BY <1>7, <2>1, QuotientIs
  <2>4. q = u /\ r = t
    BY <2>2, <2>3
  <2> QED BY <1>7, <1>8, <1>10, <1>12, <2>3, <2>4 DEF Bit, Divided
<1>13. CASE ~(u \in -h..(h - 1))
  <2>1. p = TooBig(f, d)
    BY <1>11, <1>13
  <2>2. p.v = d /\ p.f.v = 1
    BY <2>1 DEF TooBig, Result, Flags
  <2> QED BY <1>10, <1>13, <2>2 DEF Divided
<1> QED BY <1>12, <1>13

\* DIVS of the smallest long by -1, where it gives up.
LEMMA SmallestIs ==
  ASSUME NEW f \in Flags, NEW p, p = Divs(f, Mod(2) - 1, Half[4])
  PROVE  p.v = 0 /\ p.f = [x |-> f.x, n |-> 0, z |-> 1, v |-> 0, c |-> 0]
<1>1. PICK h \in Nat \ {0}, n \in Nat \ {0}, s \in Nat :
        h = Half[2] /\ n = Mod(2) /\ n = 2 * h /\ 2 \in Sizes /\ s = n - 1
  BY SizesOf
<1>2. MakeInt(2, s) = -1
  <2>1. s \in Range0(2)
    BY <1>1 DEF Range0
  <2>2. MakeInt(2, s) = IF s < h THEN s ELSE s - n
    BY <1>1, <2>1, SignedIs DEF Signed
  <2> QED BY <1>1, <2>2
<1>3. p = Logical(4, f, 0)
  BY <1>1, <1>2 DEF Divs
<1>4. p.v = 0 /\ p.f = [x |-> f.x, n |-> Msb(4, 0), z |-> Bit(0 = 0), v |-> 0, c |-> 0]
  BY <1>3 DEF Logical, Result
<1>5. Msb(4, 0) = 0
  <2>1. PICK l \in Nat \ {0} : l = Half[4]
    BY SizesOf
  <2>2. 0 \div l = 0
    BY <2>1
  <2> QED BY <2>1, <2>2 DEF Msb
<1> QED BY <1>4, <1>5 DEF Bit

\* What the handlers of words to a long leave, of registers.
LEMMA LongLeaves ==
  ASSUME cpu \in Machine, NEW i, IsInstruction(i), LongHandlers(i), i.ea.mode = "d"
  PROVE  /\ i.name \in {"mulu", "muls", "divu", "divs"} /\ i.x \in Registers
         /\ \E s \in Range0(2), d \in Range0(4) :
              /\ s = Low1(2, cpu.d[i.ea.r]) /\ d = cpu.d[i.x] /\ cpu.f \in Flags
              /\ IF s = 0 /\ i.name \in {"divu", "divs"}
                 THEN cpu'.trap = "zero_divide" /\ cpu'.d = cpu.d /\ cpu'.f = cpu.f
                 ELSE \E q : /\ q = CASE i.name = "mulu" -> Mulu(cpu.f, s, d)
                                      [] i.name = "muls" -> Muls(cpu.f, s, d)
                                      [] i.name = "divu" -> Divu(cpu.f, s, d)
                                      [] i.name = "divs" -> Divs(cpu.f, s, d)
                             /\ cpu'.f = q.f /\ cpu'.d = [cpu.d EXCEPT ![i.x] = q.v]
<1>1. /\ i.name \in {"mulu", "muls", "divu", "divs"}
      /\ \/ i.name = "mulu" /\ cpu' = Long(i, Mulu)
         \/ i.name = "muls" /\ cpu' = Long(i, Muls)
         \/ i.name = "divu" /\ cpu' = Division(i, Divu)
         \/ i.name = "divs" /\ cpu' = Division(i, Divs)
  BY DEF LongHandlers, mulu_16, muls_16, divu_16, divs_16, Does
<1>2. PICK o, x : o = i.ea /\ x = i.x /\ x \in Registers /\ o.r \in Registers
      /\ o.mode = "d" /\ 2 \in Sizes
  BY <1>1, SizesOf DEF IsInstruction, HasX, IsOperand
<1>3. PICK s, d : /\ s = Masked(2, cpu.d[o.r]) /\ d = cpu.d[x] /\ cpu.f \in Flags
                  /\ s \in Range0(2) /\ d \in Range0(4)
  <2>1. PICK m : m = cpu /\ m \in Machine
    OBVIOUS
  <2>2. m.d[x] \in Range0(4)
    BY <1>2, <2>1, MachineIs
  <2> QED BY <1>2, <2>1, <2>2, RegisterRange
<1>4. PICK n, e : n = Fetched /\ e = Operand(Fetched, 2, o) /\ Stepped(cpu, n, {}, 1 + 0)
  BY SkippedOn
<1>5. n \in Machine /\ n.d = cpu.d /\ n.f = cpu.f
  BY <1>4 DEF Stepped
<1>6. e.m = n /\ e.v = s
  BY <1>2, <1>3, <1>4, <1>5 DEF Operand
<1>7. CASE s = 0 /\ i.name \in {"divu", "divs"}
  <2>1. cpu' = Raise(n, "zero_divide")
    BY <1>1, <1>2, <1>4, <1>6, <1>7 DEF Division
  <2>2. cpu'.trap = "zero_divide" /\ cpu'.d = n.d /\ cpu'.f = n.f
    BY <1>5, <2>1 DEF Raise, Machine
  <2> QED BY <1>1, <1>2, <1>3, <1>5, <1>7, <2>2 DEF Low1, Masked
<1>8. CASE ~(s = 0 /\ i.name \in {"divu", "divs"})
  <2>1. PICK q : q = CASE i.name = "mulu" -> Mulu(cpu.f, s, d)
                       [] i.name = "muls" -> Muls(cpu.f, s, d)
                       [] i.name = "divu" -> Divu(cpu.f, s, d)
                       [] i.name = "divs" -> Divs(cpu.f, s, d)
    OBVIOUS
  <2>2. cpu' = Settled(n, 4, x, q)
    BY <1>1, <1>2, <1>3, <1>4, <1>6, <1>8, <2>1 DEF Division, Long, Settled
  <2>3. Typed(4, q)
    <3>1. PICK g : g = cpu.f /\ g \in Flags
      BY <1>3
    <3>2. /\ Typed(4, Mulu(g, s, d)) /\ Typed(4, Muls(g, s, d))
          /\ s # 0 => Typed(4, Divu(g, s, d)) /\ Typed(4, Divs(g, s, d))
      BY <1>3, <3>1, LongTyped
    <3> QED BY <1>1, <1>8, <2>1, <3>1, <3>2
  <2>4. PICK p, f, v : p = cpu' /\ f = q.f /\ v = q.v /\ v \in Range0(4) /\ f \in Flags
    BY <2>3 DEF Typed
  <2>5. PICK u : u = d - Masked(4, d) + v /\ p = [n EXCEPT !.f = f, !.d = [n.d EXCEPT ![x] = u]]
    BY <1>2, <1>3, <1>5, <2>2, <2>4, MachineIs DEF Settled, PutD
  <2>6. u = v
    <3>1. Masked(4, d) = d /\ d \in Nat /\ v \in Nat
      BY <1>3, <2>4, SizesOf, MaskedSame
    <3> QED BY <2>5, <3>1
  <2>7. p.f = f /\ p.d = [n.d EXCEPT ![x] = u]
    BY <1>5, <2>5 DEF Machine
  <2>8. cpu'.f = q.f /\ cpu'.d = [cpu.d EXCEPT ![x] = q.v]
    BY <1>5, <2>4, <2>6, <2>7
  <2>9. IF s = 0 /\ i.name \in {"divu", "divs"}
        THEN cpu'.trap = "zero_divide" /\ cpu'.d = cpu.d /\ cpu'.f = cpu.f
        ELSE \E p1 : /\ p1 = CASE i.name = "mulu" -> Mulu(cpu.f, s, d)
                               [] i.name = "muls" -> Muls(cpu.f, s, d)
                               [] i.name = "divu" -> Divu(cpu.f, s, d)
                               [] i.name = "divs" -> Divs(cpu.f, s, d)
                     /\ cpu'.f = p1.f /\ cpu'.d = [cpu.d EXCEPT ![i.x] = p1.v]
    <3>1. /\ q = CASE i.name = "mulu" -> Mulu(cpu.f, s, d)
                   [] i.name = "muls" -> Muls(cpu.f, s, d)
                   [] i.name = "divu" -> Divu(cpu.f, s, d)
                   [] i.name = "divs" -> Divs(cpu.f, s, d)
          /\ cpu'.f = q.f /\ cpu'.d = [cpu.d EXCEPT ![i.x] = q.v]
      BY <1>2, <2>1, <2>8
    <3> QED BY <1>8, <3>1, Zenon
  <2>10. s = Low1(2, cpu.d[i.ea.r]) /\ d = cpu.d[i.x]
    BY <1>2, <1>3 DEF Low1, Masked
  <2> QED BY <1>1, <1>2, <1>3, <2>9, <2>10
<1> QED BY <1>7, <1>8

-----------------------------------------------------------------------------
(* Every product and quotient.                                             *)

\* Every handler of words to a long leaves what the property says.
LEMMA LongProduct ==
  ASSUME cpu \in Machine, NEW i, IsInstruction(i), LongHandlers(i), i.ea.mode = "d"
  PROVE  Product(i)
<1>1. i.name \in {"mulu", "muls", "divu", "divs"} /\ i.x \in Registers
  BY LongLeaves
<1>2. PICK s \in Range0(2), d \in Range0(4) :
        /\ s = Low1(2, cpu.d[i.ea.r]) /\ d = cpu.d[i.x] /\ cpu.f \in Flags
        /\ IF s = 0 /\ i.name \in {"divu", "divs"}
           THEN cpu'.trap = "zero_divide" /\ cpu'.d = cpu.d /\ cpu'.f = cpu.f
           ELSE \E q : /\ q = CASE i.name = "mulu" -> Mulu(cpu.f, s, d)
                                [] i.name = "muls" -> Muls(cpu.f, s, d)
                                [] i.name = "divu" -> Divu(cpu.f, s, d)
                                [] i.name = "divs" -> Divs(cpu.f, s, d)
                       /\ cpu'.f = q.f /\ cpu'.d = [cpu.d EXCEPT ![i.x] = q.v]
  BY LongLeaves
<1>3. CASE s = 0 /\ i.name \in {"divu", "divs"}
  BY <1>2, <1>3 DEF Product
<1>4. CASE ~(s = 0 /\ i.name \in {"divu", "divs"})
  <2>1. PICK p : /\ p = CASE i.name = "mulu" -> Mulu(cpu.f, s, d)
                          [] i.name = "muls" -> Muls(cpu.f, s, d)
                          [] i.name = "divu" -> Divu(cpu.f, s, d)
                          [] i.name = "divs" -> Divs(cpu.f, s, d)
                 /\ cpu'.f = p.f /\ cpu'.d = [cpu.d EXCEPT ![i.x] = p.v]
    BY <1>2, <1>4
  <2>2. cpu'.d[i.x] = p.v /\ (p.v = d => cpu'.d = cpu.d)
    <3>1. PICK e, x : e = cpu.d /\ x = i.x /\ e \in [Registers -> Range0(4)]
      <4>1. PICK m : m = cpu /\ m \in Machine
        OBVIOUS
      <4> QED BY <4>1, MachineIs
    <3>2. PICK e2, v : e2 = cpu'.d /\ v = p.v /\ e2 = [e EXCEPT ![x] = v]
          /\ x \in Registers /\ d = e[x]
      BY <1>1, <1>2, <2>1, <3>1
    <3>3. e2[x] = v /\ (v = d => e2 = e)
      BY <3>1, <3>2
    <3> QED BY <3>1, <3>2, <3>3
  <2>3. CASE i.name = "mulu"
    <3>1. p.v = s * Low1(2, d)
      BY <1>2, <2>1, <2>3, MuluIs
    <3> QED BY <1>2, <2>2, <2>3, <3>1 DEF Product
  <2>4. CASE i.name = "muls"
    <3>1. Signed(4, p.v) = Signed(2, s) * Signed(2, Low1(2, d))
      BY <1>2, <2>1, <2>4, MulsIs
    <3> QED BY <1>2, <2>2, <2>4, <3>1 DEF Product
  <2>5. CASE i.name = "divu"
    <3>1. PICK q, r : q = Low1(2, p.v) /\ r = p.v \div Mod(2)
      OBVIOUS
    <3>2. s # 0 /\ p = Divu(cpu.f, s, d)
      BY <1>4, <2>1, <2>5
    <3>0. PICK f \in Flags : p = Divu(f, s, d)
      BY <1>2, <3>2
    <3>3. Divided(p, d, d, s, 0, Mod(2) - 1, q, r)
      <4>1. f \in Flags /\ s \in Range0(2) /\ d \in Range0(4) /\ s # 0 /\ p = Divu(f, s, d)
            /\ q = Low1(2, p.v) /\ r = p.v \div Mod(2)
        BY <3>0, <3>1, <3>2
      <4> QED BY <4>1, DivuIs
    <3>4. /\ (cpu'.f.v = 0) <=> Fits(d, s, 0, Mod(2) - 1)
          /\ IF cpu'.f.v = 0 THEN Divides(d, s, q, r)
             /\ ((cpu'.f.z = 1) <=> q = 0) ELSE cpu'.d = cpu.d
      BY <2>1, <2>2, <3>3 DEF Divided
    <3>5. q = Low1(2, cpu'.d[i.x]) /\ r = cpu'.d[i.x] \div Mod(2)
      BY <2>2, <3>1
    <3> QED BY <1>2, <2>5, <3>2, <3>4, <3>5 DEF Product, QuotientRight
  <2>6. CASE i.name = "divs"
    <3>1. PICK q, r : q = Signed(2, Low1(2, p.v)) /\ r = Signed(2, p.v \div Mod(2))
      OBVIOUS
    <3>2. s # 0 /\ p = Divs(cpu.f, s, d)
      BY <1>4, <2>1, <2>6
    <3>3. CASE d = Half[4] /\ s = Mod(2) - 1
      <4>0. PICK f \in Flags : f = cpu.f /\ p = Divs(f, s, d)
        BY <1>2, <3>2
      <4>1. p = Divs(f, Mod(2) - 1, Half[4])
        BY <3>3, <4>0
      <4>2. p.v = 0 /\ p.f = [x |-> f.x, n |-> 0, z |-> 1, v |-> 0, c |-> 0]
        BY <4>1, SmallestIs
      <4>3. Unquotient(i)
        BY <2>1, <4>0, <4>2 DEF Unquotient
      <4> QED BY <1>2, <2>6, <3>2, <3>3, <4>3 DEF Product
    <3>4. CASE ~(d = Half[4] /\ s = Mod(2) - 1)
      <4>0. PICK f \in Flags : p = Divs(f, s, d)
        BY <1>2, <3>2
      <4>1. PICK a, b : a = Signed(4, d) /\ b = Signed(2, s)
        OBVIOUS
      <4>2. Divided(p, d, a, b, -Half[2], Half[2] - 1, q, r)
        BY <3>1, <3>2, <3>4, <4>0, <4>1, DivsIs
      <4>3. /\ (cpu'.f.v = 0) <=> Fits(a, b, -Half[2], Half[2] - 1)
            /\ IF cpu'.f.v = 0 THEN Divides(a, b, q, r)
               /\ ((cpu'.f.z = 1) <=> q = 0) ELSE cpu'.d = cpu.d
        BY <2>1, <2>2, <4>2 DEF Divided
      <4>4. q = Signed(2, Low1(2, cpu'.d[i.x])) /\ r = Signed(2, cpu'.d[i.x] \div Mod(2))
        BY <2>2, <3>1
      <4> QED BY <1>2, <2>6, <3>2, <3>4, <4>1, <4>3, <4>4 DEF Product, QuotientRight
    <3> QED BY <3>3, <3>4
  <2> QED BY <1>1, <2>3, <2>4, <2>5, <2>6
<1> QED BY <1>3, <1>4

\* Products, quotients and shifts have handlers of their own.
Alone == {"mulu", "muls", "divu", "divs"} \cup Rotated

\* No other handler multiplies, divides or shifts.
LEMMA AloneOnes ==
  ASSUME cpu \in Machine, NEW i, IsInstruction(i), Handlers(i), i.name \in Alone
  PROVE  LongHandlers(i) \/ ShiftSHandlers(i) \/ ShiftRHandlers(i) \/ ShiftMHandlers(i)
<1>1. PICK name : name = i.name /\ name \in Alone
  OBVIOUS
<1>2. ~ErHandlers(i) /\ ~ReHandlers(i) /\ ~ImmHandlers(i) /\ ~QuickHandlers(i)
  <2>1. ErHandlers(i) \/ ReHandlers(i) \/ ImmHandlers(i) \/ QuickHandlers(i)
          => name \in {"add", "sub", "and", "or", "eor", "addi", "subi", "andi", "ori", "eori",
                        "addq", "subq"}
    BY <1>1, ErIs, ReIs, ImmIs, QuickIs
  <2> QED BY <1>1, <2>1 DEF Alone, Rotated
<1>3. ~UnaryHandlers(i) /\ ~BitRHandlers(i) /\ ~BitSHandlers(i)
  <2>1. UnaryHandlers(i) => name \in Onefold \cup {"nbcd", "ext", "swap"}
    BY <1>1, UnaryIs
  <2>2. BitRHandlers(i) \/ BitSHandlers(i) => name \in Bitwise1
    BY <1>1, BitRIs, BitSIs
  <2> QED BY <1>1, <2>1, <2>2 DEF Alone, Rotated, Onefold, Bitwise1
<1>4. ~ShowHandlers(i) /\ ~AgainstHandlers(i)
  <2>1. ShowHandlers(i) => name \in {"cmp", "cmpa", "tst", "btst", "move"}
    BY <1>1, ShowIs
  <2>2. AgainstHandlers(i) => name \in {"cmpi", "btst"}
    BY <1>1, AgainstIs
  <2> QED BY <1>1, <2>1, <2>2 DEF Alone, Rotated
<1>5. ~RrHandlers(i) /\ ~MmHandlers(i) /\ ~MoveHandlers(i)
  <2>1. RrHandlers(i) \/ MmHandlers(i) \/ MoveHandlers(i)
          => name \in {"addx", "subx", "abcd", "sbcd", "move"}
    BY <1>1, RrIs, MmIs, MoveIs
  <2> QED BY <1>1, <2>1 DEF Alone, Rotated
<1>6. ~ToAHandlers(i) /\ ~FillHandlers(i) /\ ~ExgHandlers(i)
  <2>1. ToAHandlers(i) \/ FillHandlers(i) \/ ExgHandlers(i)
          => name \in {"adda", "suba", "movea", "clr", "st", "sf", "scc", "exg"}
    BY <1>1
       DEF ToAHandlers, FillHandlers, ExgHandlers, Does, adda_16, adda_32, suba_16, suba_32,
           movea_16,
           movea_32, clr_8, clr_16, clr_32, st_8, sf_8, scc_8, exg_32_dd, exg_32_aa, exg_32_da
  <2> QED BY <1>1, <2>1 DEF Alone, Rotated
<1>7. ~SaveHandlers(i) /\ ~RestoreHandlers(i) /\ ~BranchHandlers(i) /\ ~LoopHandlers(i)
  <2>1. SaveHandlers(i) \/ RestoreHandlers(i) \/ BranchHandlers(i) \/ LoopHandlers(i)
          => name \in {"movem", "bcc", "bra", "dbf", "dbcc"}
    BY <1>1
       DEF SaveHandlers, RestoreHandlers, BranchHandlers, LoopHandlers, Does, movem_16_re_pd,
           movem_32_re_pd, movem_16_re, movem_32_re, movem_16_er_pi, movem_32_er_pi, movem_16_er,
           movem_32_er, bcc_8, bcc_16, bra_8, bra_16, dbf_16, dbcc_16
  <2> QED BY <1>1, <2>1 DEF Alone, Rotated
<1>8. ~OtherHandlers(i)
  <2>1. OtherHandlers(i)
          => \/ name \in {"cmpm", "andi", "ori", "eori", "nop", "trapv", "dbt", "moveq",
              "chk", "tas",
                           "movep"}
             \/ name \in {"lea", "pea", "link", "unlk", "bsr", "jmp", "jsr", "rts", "rtr",
                    "addq", "subq"}
    BY <1>1
       DEF OtherHandlers, Does, cmpm_8, cmpm_16, cmpm_32, andi_16_toc, ori_16_toc,
           eori_16_toc, nop,
           trapv, dbt_16, addq_16_a, addq_32_a, subq_16_a, subq_32_a, moveq_32, chk_16, tas_8,
           movep_16_er, movep_32_er, movep_16_re, movep_32_re, lea_32, pea_32, link_16,
               link_16_a7,
           unlk_32, unlk_32_a7, bsr_8, bsr_16, jmp_32, jsr_32, rts_32, rtr_32
  <2> QED BY <1>1, <2>1 DEF Alone, Rotated
<1> QED BY <1>2, <1>3, <1>4, <1>5, <1>6, <1>7, <1>8 DEF Handlers

\* So a product is made by a handler of words to a long.
LEMMA LongOnes ==
  ASSUME cpu \in Machine, NEW i, IsInstruction(i), Handlers(i),
         i.name \in {"mulu", "muls", "divu", "divs"}
  PROVE  LongHandlers(i)
<1>1. i.name \in Alone /\ i.name \notin Rotated
  BY DEF Alone, Rotated
<1> QED BY <1>1, AloneOnes, ShiftSIs, ShiftRIs, ShiftMIs

\* And so does every step of a program.
LEMMA StepProduct ==
  ASSUME IInv, Next, Running, Instr.name \in {"mulu", "muls", "divu", "divs"},
             Instr.ea.mode = "d"
  PROVE  Product(Instr)
<1>1. PICK i : i = Instr
  OBVIOUS
<1>2. ~Unready
  <2>1. Unready => i.name = "movep"
    BY <1>1 DEF Unready, Movep, Plain
  <2> QED BY <1>1, <2>1
<1>3. Handling
  BY <1>2 DEF Next, Handling, Ended
<1>4. IsInstruction(i) /\ Handlers(i) /\ cpu \in Machine
  BY <1>1, <1>3, InstrIs, HandlersAre DEF IInv, TypeOK
<1>5. LongHandlers(i)
  BY <1>1, <1>4, LongOnes
<1>6. Product(i)
  BY <1>1, <1>4, <1>5, LongProduct
<1> QED BY <1>1, <1>6

\* Products are exact, quotients divide towards zero or set V and change nothing,
\* all but that of the smallest long by -1, which is left as 0 (ProductsExact), in
\* every program.
THEOREM Products == Spec => ProductsExact
<1>1. IInv /\ [Next]_vars
        => [/\ Running /\ Instr.name \in {"mulu", "muls", "divu", "divs"} /\ Instr.ea.mode = "d"
            => Product(Instr)]_cpu
  BY StepProduct DEF vars
<1> QED BY <1>1, Invariant, PTL DEF Spec, ProductsExact

-----------------------------------------------------------------------------
(* A shift bit by bit.                                                     *)

\* One bit at a time: the recursion has one solution, so any function that
\* takes the steps tells where they lead.
First(name, f, d) ==
  [v |-> d, c |-> IF name \in {"roxr", "roxl"} THEN f.x ELSE 0, x |-> f.x, o |-> 0]
Walk(g, name, z, first, n) ==
  g = [k \in 0..n |-> IF k = 0 THEN first ELSE OneBit(name, z, g[k - 1])]

\* The recursion of BitByBit as a walk of that many steps.
LEMMA BitsWalk == ASSUME NEW name, NEW z, NEW f, NEW n, NEW d
  PROVE  BitByBit(name, z, f, n, d) = (CHOOSE g : Walk(g, name, z, First(name, f, d), n))[n]
BY Zenon DEF BitByBit, Walk, First

\* A function that begins there and takes the same steps is the walk, however long.
LEMMA StepsLead ==
  ASSUME NEW name, NEW z, NEW f, NEW d, NEW n \in Nat, NEW G,
         G[0] = First(name, f, d), \A k \in Nat : G[k + 1] = OneBit(name, z, G[k])
  PROVE  BitByBit(name, z, f, n, d) = G[n]
<1>1. PICK first : first = First(name, f, d) /\ G[0] = first
  OBVIOUS
<1>2. PICK h : h = [k \in 0..n |-> G[k]]
  OBVIOUS
<1>3. ASSUME NEW k \in 0..n
      PROVE  h[k] = IF k = 0 THEN first ELSE OneBit(name, z, h[k - 1])
  <2>1. CASE k = 0
    BY <1>1, <1>2, <2>1
  <2>2. CASE k # 0
    <3>1. PICK j \in Nat : j = k - 1 /\ j \in 0..n /\ k = j + 1
      BY <2>2
    <3>2. h[k] = G[j + 1] /\ h[j] = G[j]
      BY <1>2, <3>1
    <3>3. G[j + 1] = OneBit(name, z, G[j])
      BY <3>1
    <3> QED BY <2>2, <3>1, <3>2, <3>3
  <2> QED BY <2>1, <2>2
<1>4. h = [k \in 0..n |-> h[k]]
  BY <1>2
<1>5. Walk(h, name, z, first, n)
  BY <1>3, <1>4, Zenon DEF Walk
<1>6. PICK g : g = (CHOOSE e : Walk(e, name, z, first, n)) /\ Walk(g, name, z, first, n)
  BY <1>5, Zenon
<1>7. \A k \in 0..n : g[k] = IF k = 0 THEN first ELSE OneBit(name, z, g[k - 1])
  BY <1>6, Zenon DEF Walk
<1> DEFINE T == {k \in Nat : k <= n => g[k] = G[k]}
<1>8. 0 \in T
  BY <1>1, <1>7
<1>9. ASSUME NEW k \in Nat, k \in T PROVE k + 1 \in T
  <2>1. SUFFICES ASSUME k + 1 <= n PROVE g[k + 1] = G[k + 1]
    OBVIOUS
  <2>2. PICK j \in 0..n : j = k + 1 /\ j # 0 /\ j - 1 = k
    BY <2>1
  <2>3. g[j] = OneBit(name, z, g[k])
    BY <1>7, <2>2
  <2>4. g[k] = G[k]
    BY <1>9, <2>1
  <2> QED BY <2>2, <2>3, <2>4
<1> HIDE DEF T
<1>10. Nat \subseteq T
  BY <1>8, <1>9, Induction
<1>11. g[n] = G[n]
  <2>1. n \in T
    BY <1>10
  <2> QED BY <2>1 DEF T
<1> QED BY <1>1, <1>6, <1>11, BitsWalk

-----------------------------------------------------------------------------
\* The steps by their names.
Out(v, c, o) == [v |-> v, c |-> c, x |-> c, o |-> o]
Doubled(v, m) == (2 * v) % m
Around(v, c, x, o) == [v |-> v, c |-> c, x |-> x, o |-> o]

\* OneBit, name by name.
LEMMA Ones == ASSUME NEW z, NEW p
  PROVE  /\ OneBit("asr", z, p) = Out(p.v \div 2 + (p.v \div Half[z]) * Half[z], p.v % 2, p.o)
         /\ OneBit("lsr", z, p) = Out(p.v \div 2 + 0 * Half[z], p.v % 2, p.o)
         /\ OneBit("lsl", z, p) = Out(Doubled(p.v, Mod(z)) + 0, p.v \div Half[z], p.o)
         /\ OneBit("asl", z, p)
              = Out(Doubled(p.v, Mod(z)) + 0, p.v \div Half[z],
                    IF (Doubled(p.v, Mod(z)) + 0) \div Half[z] # p.v \div Half[z]
                    THEN 1 ELSE p.o)
         /\ OneBit("ror", z, p) = Around(p.v \div 2 + (p.v % 2) * Half[z], p.v % 2, p.x, p.o)
         /\ OneBit("rol", z, p) = Around(Doubled(p.v, Mod(z)) + p.v \div Half[z],
                                         p.v \div Half[z], p.x, p.o)
         /\ OneBit("roxr", z, p) = Out(p.v \div 2 + p.x * Half[z], p.v % 2, p.o)
         /\ OneBit("roxl", z, p) = Out(Doubled(p.v, Mod(z)) + p.x, p.v \div Half[z], p.o)
<1>1. OneBit("asr", z, p) = Out(p.v \div 2 + (p.v \div Half[z]) * Half[z], p.v % 2, p.o)
  BY DEF OneBit, Out, Doubled
<1>2. OneBit("lsr", z, p) = Out(p.v \div 2 + 0 * Half[z], p.v % 2, p.o)
  BY DEF OneBit, Out, Doubled
<1>3. OneBit("lsl", z, p) = Out(Doubled(p.v, Mod(z)) + 0, p.v \div Half[z], p.o)
  BY DEF OneBit, Out, Doubled
<1>4. OneBit("asl", z, p)
        = Out(Doubled(p.v, Mod(z)) + 0, p.v \div Half[z],
              IF (Doubled(p.v, Mod(z)) + 0) \div Half[z] # p.v \div Half[z] THEN 1 ELSE p.o)
  BY DEF OneBit, Out, Doubled
<1>5. OneBit("ror", z, p) = Around(p.v \div 2 + (p.v % 2) * Half[z], p.v % 2, p.x, p.o)
  BY DEF OneBit, Around, Doubled
<1>6. OneBit("rol", z, p) = Around(Doubled(p.v, Mod(z)) + p.v \div Half[z], p.v \div Half[z],
          p.x, p.o)
  BY DEF OneBit, Around, Doubled
<1>7. OneBit("roxr", z, p) = Out(p.v \div 2 + p.x * Half[z], p.v % 2, p.o)
  BY DEF OneBit, Out, Doubled
<1>8. OneBit("roxl", z, p) = Out(Doubled(p.v, Mod(z)) + p.x, p.v \div Half[z], p.o)
  BY DEF OneBit, Out, Doubled
<1> QED BY <1>1, <1>2, <1>3, <1>4, <1>5, <1>6, <1>7, <1>8

-----------------------------------------------------------------------------
\* What a step to the left makes of a value and the bit at its top.
Topped(h, m, v, u, b) == v \div h = b /\ Doubled(v, m) = u + u

\* The highest bit goes out, the rest doubles.
LEMMA LeftTop ==
  ASSUME NEW h \in Nat \ {0}, NEW m \in Nat \ {0}, m = 2 * h, NEW u \in 0..(h - 1),
         NEW b \in {0, 1},
         NEW v \in Int, v = u + (IF b = 1 THEN h ELSE 0)
  PROVE  Topped(h, m, v, u, b)
<1>1. b * h = (IF b = 1 THEN h ELSE 0) /\ b * m = (IF b = 1 THEN m ELSE 0)
  OBVIOUS
<1>2. b \in Int /\ b * h <= v /\ v < b * h + h
  BY <1>1
<1>3. v \div h = b
  BY <1>2, DivIs
<1>4. PICK t \in Int : t = 2 * v /\ b * m <= t /\ t < b * m + m /\ t - b * m = u + u
  BY <1>1, <1>2
<1>5. t % m = t - b * m
  BY <1>2, <1>4, DivIs
<1> QED BY <1>3, <1>4, <1>5 DEF Doubled, Topped

TopParts(h, m, v, u, b) ==
  /\ h \in Nat \ {0} /\ m \in Nat \ {0} /\ m = 2 * h /\ u \in 0..(h - 1) /\ b \in {0, 1}
  /\ v \in Int /\ v = u + (IF b = 1 THEN h ELSE 0)

\* The same, of named parts.
LEMMA LeftTops == ASSUME NEW h, NEW m, NEW v, NEW u, NEW b, TopParts(h, m, v, u, b)
  PROVE  Topped(h, m, v, u, b)
<1>1. /\ h \in Nat \ {0} /\ m \in Nat \ {0} /\ m = 2 * h /\ u \in 0..(h - 1) /\ b \in {0, 1}
      /\ v \in Int /\ v = u + (IF b = 1 THEN h ELSE 0)
  BY DEF TopParts
<1> QED BY <1>1, LeftTop

\* The states of a step, as records.
LEMMA StateOut == ASSUME NEW q, NEW v, NEW c, NEW o, q.v = v, q.f.c = c, q.f.x = c, q.f.v = o
  PROVE  State(q) = Out(v, c, o)
BY DEF State, Out

\* A rotation has X of its own.
LEMMA StateAround ==
  ASSUME NEW q, NEW v, NEW c, NEW x, NEW o, q.v = v, q.f.c = c, q.f.x = x, q.f.v = o
  PROVE  State(q) = Around(v, c, x, o)
BY DEF State, Around

\* What a state is made of.
LEMMA StateParts == ASSUME NEW q
  PROVE  State(q).v = q.v /\ State(q).c = q.f.c /\ State(q).x = q.f.x /\ State(q).o = q.f.v
BY DEF State

\* One place more of lsr is one step of it.
LEMMA OneLsr ==
  ASSUME NEW z \in Sizes, NEW f, NEW d \in Range0(z), NEW k \in Nat,
         NEW p, p = Lsr(z, f, k, d), NEW q, q = Lsr(z, f, k + 1, d)
  PROVE  State(q) = OneBit("lsr", z, State(p))
<1>1. PICK w, h, m : Sized(z, w, h, m, d)
  BY Sizing
<1>2. d \in Int /\ h \in Nat \ {0} /\ h = Half[z] /\ w = Bits(z) /\ w \in Nat \ {0}
  BY <1>1 DEF Sized
<1>3. PICK v \in Int : /\ v = d \div Pow2[k] /\ d \div Pow2[k + 1] = v \div 2
                          /\ BitOf(d, k) = v % 2
  BY <1>2, BitDown
<1>4. p.v = v /\ p.f.v = 0
  <2>1. CASE k = 0
    <3>1. d \div 1 = d /\ Pow2[0] = 1
      BY <1>2, Pow2Step
    <3>2. p = Unshifted(z, f, d)
      BY <1>2, <2>1 DEF Lsr
    <3> QED BY <1>3, <2>1, <3>1, <3>2 DEF Unshifted, Logical, Result
  <2>2. CASE k # 0
    <3>1. k \in Nat \ {0}
      BY <2>2
    <3>2. p = Shifted(z, d \div Pow2[k], BitOf(d, k - 1))
      BY <3>1, LsrIs
    <3> QED BY <1>3, <3>2 DEF Shifted, Result
  <2> QED BY <2>1, <2>2
<1>5. q.v = v \div 2 /\ q.f.c = v % 2 /\ q.f.x = v % 2 /\ q.f.v = 0
  <2>1. PICK l \in Nat \ {0} : l = k + 1 /\ l - 1 = k
    OBVIOUS
  <2>2. q = Shifted(z, d \div Pow2[l], BitOf(d, l - 1))
    BY <2>1, LsrIs
  <2> QED BY <1>3, <2>1, <2>2 DEF Shifted, Result
<1>6. v \div 2 + 0 * h = v \div 2
  BY <1>2, <1>3
<1>7. State(q) = Out(v \div 2 + 0 * h, v % 2, 0)
  BY <1>5, <1>6, StateOut
<1> QED BY <1>2, <1>4, <1>7, Ones, StateParts

\* Signed numbers: a quotient is no greater, and their low bits.
LEMMA Smaller ==
  ASSUME NEW h \in Nat \ {0}, NEW a \in Int, -h <= a, a < h, NEW e \in Nat \ {0}, NEW s \in Int,
         s * e <= a, a < s * e + e
  PROVE  -h <= s /\ s < h
<1>1. PICK g \in Int : g = s * e /\ g <= a /\ a < g + e
  OBVIOUS
<1>2. s < h
  <2>1. SUFFICES ASSUME s >= h PROVE FALSE
    OBVIOUS
  <2>2. h * 1 <= h * e /\ h * e <= s * e
    <3>1. 1 * h <= e * h /\ e * h = h * e
      BY Times
    <3>2. h * e <= s * e
      BY <2>1, Times
    <3> QED BY <3>1, <3>2
  <2> QED BY <1>1, <2>2
<1>3. -h <= s
  <2>1. SUFFICES ASSUME s <= -h - 1 PROVE FALSE
    OBVIOUS
  <2>2. (s + 1) * e <= (-h) * e
    BY <2>1, Times
  <2>3. (s + 1) * e = s * e + 1 * e
    BY Distribute
  <2>4. 1 * h <= e * h /\ (-h) * e = -(e * h)
    BY Times
  <2>5. PICK y \in Int : y = e * h
    OBVIOUS
  <2> QED BY <1>1, <2>2, <2>3, <2>4, <2>5
<1> QED BY <1>2, <1>3

\* MASK_OUT_ABOVE of a signed number of the size.
LEMMA MaskedSign ==
  ASSUME NEW z \in Sizes, NEW h \in Nat \ {0}, NEW m \in Nat \ {0}, m = Mod(z), m = 2 * h,
         NEW t \in Int, -h <= t, t < h
  PROVE  Masked(z, t) = IF t < 0 THEN t + m ELSE t
<1>1. PICK k \in Int : k = IF t < 0 THEN -1 ELSE 0
  OBVIOUS
<1>2. k * m = IF t < 0 THEN -m ELSE 0
  BY <1>1
<1>3. k * m <= t /\ t < k * m + m
  BY <1>1, <1>2
<1>4. t % m = t - k * m
  BY <1>3, DivIs
<1> QED BY <1>2, <1>4 DEF Masked

\* One place more of asr is one step of it: the signed quotient halves.
LEMMA OneAsr ==
  ASSUME NEW z \in Sizes, NEW f, NEW d \in Range0(z), NEW k \in Nat,
         NEW p, p = Asr(z, f, k, d), NEW q, q = Asr(z, f, k + 1, d)
  PROVE  State(q) = OneBit("asr", z, State(p))
<1>1. PICK w, h, m : Sized(z, w, h, m, d)
  BY Sizing
<1>2. d \in Int /\ h \in Nat \ {0} /\ h = Half[z] /\ w = Bits(z) /\ w \in Nat \ {0} /\ m = Mod(z)
      /\ m = 2 * h /\ d \in Nat /\ d < m /\ m \in Nat \ {0}
  BY <1>1 DEF Sized
<1>3. PICK a \in Int : /\ a = MakeInt(z, d) /\ a = (IF d < h THEN d ELSE d - m)
                       /\ -h <= a /\ a < h
  BY <1>1, SignOf
<1>4. PICK s \in Int : /\ s = a \div Pow2[k] /\ a \div Pow2[k + 1] = s \div 2
                          /\ BitOf(a, k) = s % 2
                       /\ -h <= s /\ s < h
  <2>1. PICK s \in Int : /\ s = a \div Pow2[k] /\ a \div Pow2[k + 1] = s \div 2
                            /\ BitOf(a, k) = s % 2
    BY <1>3, BitDown
  <2>2. PICK e \in Nat \ {0} : e = Pow2[k]
    BY Pow2Type
  <2>3. s * e <= a /\ a < s * e + e
    BY <1>3, <2>1, <2>2, DivBounds
  <2>4. -h <= s /\ s < h
    BY <1>2, <1>3, <2>2, <2>3, Smaller
  <2> QED BY <2>1, <2>4
<1>5. \A t \in Int : -h <= t /\ t < h => Masked(z, t) = IF t < 0 THEN t + m ELSE t
  BY <1>2, MaskedSign
<1>6. PICK v \in Int : v = p.v /\ v = (IF s < 0 THEN s + m ELSE s) /\ p.f.v = 0
  <2>1. CASE k = 0
    <3>1. a \div 1 = a /\ Pow2[0] = 1
      BY <1>3, Pow2Step
    <3>2. s = a
      BY <1>4, <2>1, <3>1
    <3>3. p = Unshifted(z, f, d)
      BY <1>2, <2>1 DEF Asr
    <3>4. p.v = d /\ p.f.v = 0
      BY <3>3 DEF Unshifted, Logical, Result
    <3>5. d = IF s < 0 THEN s + m ELSE s
      BY <1>2, <1>3, <3>2
    <3> QED BY <1>2, <3>4, <3>5
  <2>2. CASE k # 0
    <3>1. k \in Nat \ {0}
      BY <2>2
    <3>2. p = Shifted(z, Masked(z, s), BitOf(a, k - 1))
      BY <1>3, <1>4, <3>1, AsrIs
    <3>3. p.v = Masked(z, s) /\ p.f.v = 0
      BY <3>2 DEF Shifted, Result
    <3> QED BY <1>2, <1>4, <1>5, <3>3
  <2> QED BY <2>1, <2>2
<1>7. PICK t \in Int : t = s \div 2 /\ -h <= t /\ t < h /\ (t < 0 <=> s < 0)
  BY <1>2, <1>4
<1>8. q.v = Masked(z, t) /\ q.f.c = s % 2 /\ q.f.x = s % 2 /\ q.f.v = 0
  <2>1. PICK l \in Nat \ {0} : l = k + 1 /\ l - 1 = k
    OBVIOUS
  <2>2. q = Shifted(z, Masked(z, a \div Pow2[l]), BitOf(a, l - 1))
    BY <1>3, <2>1, AsrIs
  <2>3. q = Shifted(z, Masked(z, t), s % 2)
    BY <1>4, <1>7, <2>1, <2>2
  <2> QED BY <2>3 DEF Shifted, Result
<1>9. v \div 2 + (v \div h) * h = Masked(z, t) /\ v % 2 = s % 2
  <2>1. PICK b \in {0, 1}, u \in 0..(h - 1) : v = u + (IF b = 1 THEN h ELSE 0)
        /\ b = IF s < 0 THEN 1 ELSE 0
    <3>1. CASE s < 0
      <4>1. s + h \in 0..(h - 1) /\ v = (s + h) + h
        BY <1>2, <1>4, <1>6, <3>1
      <4> QED BY <3>1, <4>1
    <3>2. CASE ~(s < 0)
      BY <1>2, <1>4, <1>6, <3>2
    <3> QED BY <3>1, <3>2
  <2>2. v \div h = b
    <3>1. Topped(h, m, v, u, b)
      BY <1>2, <2>1, LeftTop
    <3> QED BY <3>1 DEF Topped
  <2>3. b * h = IF s < 0 THEN h ELSE 0
    BY <1>2, <2>1
  <2>4. v \div 2 = (IF s < 0 THEN t + h ELSE t) /\ v % 2 = s % 2
    BY <1>2, <1>4, <1>6, <1>7
  <2>5. Masked(z, t) = IF s < 0 THEN t + m ELSE t
    BY <1>5, <1>7
  <2> QED BY <1>2, <1>7, <2>2, <2>3, <2>4, <2>5
<1>10. State(q) = Out(v \div 2 + (v \div h) * h, v % 2, 0)
  BY <1>8, <1>9, StateOut
<1>11. PICK e : e = State(p) /\ e.v = v /\ e.o = 0
  <2>1. State(p).v = p.v /\ State(p).o = p.f.v
    BY StateParts, Zenon
  <2>2. p.v = v /\ p.f.v = 0
    BY <1>6
  <2> QED BY <2>1, <2>2, Zenon
<1>12. OneBit("asr", z, e) = Out(e.v \div 2 + (e.v \div h) * h, e.v % 2, e.o)
  BY <1>2, Ones
<1> QED BY <1>10, <1>11, <1>12, Zenon

-----------------------------------------------------------------------------
\* The states of a machine's result, by their parts.
LEMMA PartsNamed == ASSUME NEW p
  PROVE  \E e : e = State(p) /\ e.v = p.v /\ e.x = p.f.x /\ e.o = p.f.v
BY Zenon, StateParts

\* One place more of lsl is one step of it.
LEMMA OneLsl ==
  ASSUME NEW z \in Sizes, NEW f, NEW d \in Range0(z), NEW k \in Nat,
         NEW p, p = Lsl(z, f, k, d), NEW q, q = Lsl(z, f, k + 1, d)
  PROVE  State(q) = OneBit("lsl", z, State(p))
<1>1. PICK h \in Nat \ {0}, m \in Nat \ {0} : h = Half[z] /\ m = Mod(z) /\ m = 2 * h
  BY Widths
<1>2. Leftwards(h, p, q) /\ p.f.v = 0 /\ q.f.v = 0
  BY <1>1, LslStep
<1>3. PICK u \in 0..(h - 1), b \in {0, 1} :
        p.v = u + (IF b = 1 THEN h ELSE 0) /\ q.v = u + u /\ q.f.c = b /\ q.f.x = b
  BY <1>2 DEF Leftwards
<1>4. p.v \div Half[z] = b /\ Doubled(p.v, Mod(z)) = u + u
  <2>1. TopParts(h, m, p.v, u, b)
    BY <1>1, <1>3 DEF TopParts
  <2>2. Topped(h, m, p.v, u, b)
    BY <2>1, LeftTops
  <2> QED BY <1>1, <2>2 DEF Topped
<1>5. State(q) = Out(u + u, b, 0)
  BY <1>2, <1>3, StateOut
<1>6. PICK e : e = State(p) /\ e.v = p.v /\ e.x = p.f.x /\ e.o = p.f.v
  BY PartsNamed
<1>7. OneBit("lsl", z, e) = Out(Doubled(e.v, Mod(z)) + 0, e.v \div Half[z], e.o)
  BY Ones
<1>8. (u + u) + 0 = u + u
  BY <1>3
<1>9. OneBit("lsl", z, e) = Out(u + u, b, 0)
  BY <1>2, <1>4, <1>6, <1>7, <1>8
<1> QED BY <1>5, <1>6, <1>9

\* One place more of asl is one step of it, and V stays set.
LEMMA OneAsl ==
  ASSUME NEW z \in Sizes, NEW f, NEW d \in Range0(z), NEW k \in Nat,
         NEW p, p = Asl(z, f, k, d), NEW q, q = Asl(z, f, k + 1, d)
  PROVE  State(q) = OneBit("asl", z, State(p))
<1>1. PICK h \in Nat \ {0}, m \in Nat \ {0} : h = Half[z] /\ m = Mod(z) /\ m = 2 * h
  BY Widths
<1>2. Leftwards(h, p, q) /\ q.f.v = IF q.v \div Half[z] # q.f.c THEN 1 ELSE p.f.v
  BY <1>1, AslStep
<1>3. PICK u \in 0..(h - 1), b \in {0, 1} :
        p.v = u + (IF b = 1 THEN h ELSE 0) /\ q.v = u + u /\ q.f.c = b /\ q.f.x = b
  BY <1>2 DEF Leftwards
<1>4. p.v \div Half[z] = b /\ Doubled(p.v, Mod(z)) = u + u
  <2>1. TopParts(h, m, p.v, u, b)
    BY <1>1, <1>3 DEF TopParts
  <2>2. Topped(h, m, p.v, u, b)
    BY <2>1, LeftTops
  <2> QED BY <1>1, <2>2 DEF Topped
<1>5. PICK o : o = (IF (u + u) \div Half[z] # b THEN 1 ELSE p.f.v) /\ q.f.v = o
  BY <1>2, <1>3
<1>6. State(q) = Out(u + u, b, o)
  BY <1>3, <1>5, StateOut
<1>7. PICK e : e = State(p) /\ e.v = p.v /\ e.x = p.f.x /\ e.o = p.f.v
  BY PartsNamed
<1>8. OneBit("asl", z, e) = Out(Doubled(e.v, Mod(z)) + 0, e.v \div Half[z],
                                IF (Doubled(e.v,
                                    Mod(z)) + 0) \div Half[z] # e.v \div Half[z] THEN 1 ELSE e.o)
  BY Ones
<1>9. Doubled(e.v, Mod(z)) + 0 = u + u
  BY <1>3, <1>4, <1>7
<1>10. OneBit("asl", z, e) = Out(u + u, b, o)
  BY <1>4, <1>5, <1>7, <1>8, <1>9
<1> QED BY <1>6, <1>7, <1>10

\* One place more of ror is one step of it.
LEMMA OneRor ==
  ASSUME NEW z \in Sizes, NEW f, NEW d \in Range0(z), NEW k \in Nat,
         NEW p, p = Ror(z, f, k, d), NEW q, q = Ror(z, f, k + 1, d)
  PROVE  State(q) = OneBit("ror", z, State(p))
<1>1. PICK h \in Nat \ {0}, m \in Nat \ {0} : h = Half[z] /\ m = Mod(z) /\ m = 2 * h
  BY Widths
<1>2. /\ p.v \in Int /\ q.v = p.v \div 2 + (IF p.v % 2 = 1 THEN h ELSE 0)
      /\ q.f.c = p.v % 2 /\ q.f.x = p.f.x /\ q.f.v = p.f.v
  BY <1>1, RorStep
<1>3. PICK v \in Int, b \in {0, 1} : v = p.v /\ b = v % 2
  BY <1>2
<1>4. b * Half[z] = IF b = 1 THEN h ELSE 0
  BY <1>1
<1>5. State(q) = Around(v \div 2 + b * Half[z], b, p.f.x, p.f.v)
  BY <1>2, <1>3, <1>4, StateAround
<1>6. PICK e : e = State(p) /\ e.v = p.v /\ e.x = p.f.x /\ e.o = p.f.v
  BY PartsNamed
<1>7. OneBit("ror", z, e) = Around(e.v \div 2 + (e.v % 2) * Half[z], e.v % 2, e.x, e.o)
  BY Ones
<1> QED BY <1>3, <1>5, <1>6, <1>7

\* One place more of rol is one step of it.
LEMMA OneRol ==
  ASSUME NEW z \in Sizes, NEW f, NEW d \in Range0(z), NEW k \in Nat,
         NEW p, p = Rol(z, f, k, d), NEW q, q = Rol(z, f, k + 1, d)
  PROVE  State(q) = OneBit("rol", z, State(p))
<1>1. PICK h \in Nat \ {0}, m \in Nat \ {0} : h = Half[z] /\ m = Mod(z) /\ m = 2 * h
  BY Widths
<1>2. PICK u \in 0..(h - 1), b \in {0, 1} :
        /\ p.v = u + (IF b = 1 THEN h ELSE 0)
        /\ q.v = u + u + b /\ q.f.c = b /\ q.f.x = p.f.x /\ q.f.v = p.f.v
  BY <1>1, RolStep
<1>3. p.v \div Half[z] = b /\ Doubled(p.v, Mod(z)) = u + u
  <2>1. TopParts(h, m, p.v, u, b)
    BY <1>1, <1>2 DEF TopParts
  <2>2. Topped(h, m, p.v, u, b)
    BY <2>1, LeftTops
  <2> QED BY <1>1, <2>2 DEF Topped
<1>4. State(q) = Around(u + u + b, b, p.f.x, p.f.v)
  BY <1>2, StateAround
<1>5. PICK e : e = State(p) /\ e.v = p.v /\ e.x = p.f.x /\ e.o = p.f.v
  BY PartsNamed
<1>6. OneBit("rol", z, e) = Around(Doubled(e.v, Mod(z)) + e.v \div Half[z], e.v \div Half[z],
          e.x, e.o)
  BY Ones
<1> QED BY <1>3, <1>4, <1>5, <1>6

\* One place more of roxr is one step of it.
LEMMA OneRoxr ==
  ASSUME NEW z \in Sizes, NEW f \in Flags, NEW d \in Range0(z), NEW k \in Nat,
         NEW p, p = Roxr(z, f, k, d), NEW q, q = Roxr(z, f, k + 1, d)
  PROVE  State(q) = OneBit("roxr", z, State(p))
<1>1. PICK h \in Nat \ {0}, m \in Nat \ {0} : h = Half[z] /\ m = Mod(z) /\ m = 2 * h
  BY Widths
<1>2. /\ p.v \in Int /\ q.v = p.v \div 2 + (IF p.f.x = 1 THEN h ELSE 0)
      /\ p.f.x \in {0, 1} /\ q.f.c = p.v % 2 /\ q.f.x = p.v % 2 /\ q.f.v = p.f.v
  BY <1>1, RoxrStep
<1>3. PICK v \in Int, b \in {0, 1}, x \in {0, 1} : v = p.v /\ b = v % 2 /\ x = p.f.x
  BY <1>2
<1>4. x * Half[z] = IF x = 1 THEN h ELSE 0
  BY <1>1
<1>5. State(q) = Out(v \div 2 + x * Half[z], b, p.f.v)
  BY <1>2, <1>3, <1>4, StateOut
<1>6. PICK e : e = State(p) /\ e.v = p.v /\ e.x = p.f.x /\ e.o = p.f.v
  BY PartsNamed
<1>7. OneBit("roxr", z, e) = Out(e.v \div 2 + e.x * Half[z], e.v % 2, e.o)
  BY Ones
<1> QED BY <1>3, <1>5, <1>6, <1>7

\* One place more of roxl is one step of it.
LEMMA OneRoxl ==
  ASSUME NEW z \in Sizes, NEW f \in Flags, NEW d \in Range0(z), NEW k \in Nat,
         NEW p, p = Roxl(z, f, k, d), NEW q, q = Roxl(z, f, k + 1, d)
  PROVE  State(q) = OneBit("roxl", z, State(p))
<1>1. PICK h \in Nat \ {0}, m \in Nat \ {0} : h = Half[z] /\ m = Mod(z) /\ m = 2 * h
  BY Widths
<1>2. PICK u \in 0..(h - 1), b \in {0, 1} :
        /\ p.v = u + (IF b = 1 THEN h ELSE 0) /\ p.f.x \in {0, 1}
        /\ q.v = u + u + p.f.x /\ q.f.c = b /\ q.f.x = b /\ q.f.v = p.f.v
  <2>1. /\ LeftParted(Half[z], p.v, q.v, p.f.x, q.f.c) /\ q.f.c \in {0, 1} /\ q.f.x = q.f.c
        /\ p.f.x \in {0, 1} /\ q.f.v = p.f.v
    BY RoxlStep
  <2>2. PICK b \in {0, 1} : b = q.f.c /\ LeftParted(h, p.v, q.v, p.f.x, b)
    BY <1>1, <2>1
  <2> QED BY <2>1, <2>2 DEF LeftParted
<1>3. p.v \div Half[z] = b /\ Doubled(p.v, Mod(z)) = u + u
  <2>1. TopParts(h, m, p.v, u, b)
    BY <1>1, <1>2 DEF TopParts
  <2>2. Topped(h, m, p.v, u, b)
    BY <2>1, LeftTops
  <2> QED BY <1>1, <2>2 DEF Topped
<1>4. State(q) = Out(u + u + p.f.x, b, p.f.v)
  BY <1>2, StateOut
<1>5. PICK e : e = State(p) /\ e.v = p.v /\ e.x = p.f.x /\ e.o = p.f.v
  BY PartsNamed
<1>6. OneBit("roxl", z, e) = Out(Doubled(e.v, Mod(z)) + e.x, e.v \div Half[z], e.o)
  BY Ones
<1> QED BY <1>3, <1>4, <1>5, <1>6

\* Whatever the operation, one place more is one step more, and by 0 places
\* the walk begins.
LEMMA StepMore ==
  ASSUME NEW name \in Rotated, NEW z \in Sizes, NEW f \in Flags, NEW d \in Range0(z),
         NEW k \in Nat
  PROVE  State(Op(name, z, f, k + 1, d)) = OneBit(name, z, State(Op(name, z, f, k, d)))
<1>1. CASE name = "asr"
  BY <1>1, OneAsr DEF Op
<1>2. CASE name = "asl"
  BY <1>2, OneAsl DEF Op
<1>3. CASE name = "lsr"
  BY <1>3, OneLsr DEF Op
<1>4. CASE name = "lsl"
  BY <1>4, OneLsl DEF Op
<1>5. CASE name = "ror"
  BY <1>5, OneRor DEF Op
<1>6. CASE name = "rol"
  BY <1>6, OneRol DEF Op
<1>7. CASE name = "roxr"
  BY <1>7, OneRoxr DEF Op
<1>8. CASE name = "roxl"
  BY <1>8, OneRoxl DEF Op
<1> QED BY <1>1, <1>2, <1>3, <1>4, <1>5, <1>6, <1>7, <1>8 DEF Rotated

-----------------------------------------------------------------------------
\* By 0 places the walk begins.
LEMMA NoTurn ==
  ASSUME NEW z \in Sizes, NEW f \in Flags, NEW d \in Range0(z), NEW q, q = Through(z, f, d, 0)
  PROVE  q.v = d /\ q.f.x = f.x /\ q.f.c = f.x /\ q.f.v = 0
<1>1. PICK w \in Nat \ {0}, h \in Nat \ {0}, m \in Nat \ {0}, v \in Nat :
        /\ w = Bits(z) + 1 /\ h = Half[z] /\ m = Mod(z) /\ m = 2 * h /\ m = Pow2[w - 1]
        /\ v = d + f.x * Mod(z) /\ v \in 0..(Pow2[w] - 1) /\ Pow2[w] = 2 * m
  BY Widened1
<1>2. PICK r : r = Turned(w, v, 0) /\ r = v
  BY <1>1, TurnWhole
<1>3. Parted(m, r, q)
  BY <1>1, <1>2, ThroughIs
<1>4. PICK x \in {0, 1}, u \in Nat : x = f.x /\ u = d /\ u < m
  <2>1. f.x \in {0, 1}
    BY DEF Flags
  <2>2. d \in Nat /\ d < m
    BY <1>1 DEF Range0
  <2> QED BY <2>1, <2>2
<1>5. x * m = (IF x = 1 THEN m ELSE 0)
  BY <1>1, <1>4
<1>6. v = u + (IF x = 1 THEN m ELSE 0)
  <2>1. v = u + x * m
    BY <1>1, <1>4
  <2> QED BY <1>5, <2>1
<1>7. PICK a \in 0..(m - 1), y \in {0, 1} : a = r % m /\ y = r \div m
      /\ r = a + (IF y = 1 THEN m ELSE 0)
  <2>1. h \in Nat \ {0} /\ m \in Nat \ {0} /\ m = 2 * h /\ r \in 0..(2 * m - 1)
    BY <1>1, <1>2
  <2> QED BY <2>1, PartsOf
<1>8. a = u /\ y = x
  <2>1. a + (IF y = 1 THEN m ELSE 0) = u + (IF x = 1 THEN m ELSE 0)
    BY <1>2, <1>6, <1>7
  <2> QED BY <1>4, <1>7, <2>1
<1> QED BY <1>3, <1>4, <1>7, <1>8 DEF Parted

\* By 0 places the circle is not turned, in either direction.
LEMMA ZeroIndex == ASSUME NEW w \in Nat \ {0}
  PROVE  0 % w = 0 /\ Back(w, 0) = 0
<1>1. 0 % w = 0 /\ w % w = 0 /\ w - 0 = w
  <2>1. 0 * w = 0 /\ 1 * w = w
    OBVIOUS
  <2>2. 0 % w = 0 - 0 * w
    BY <2>1, DivIs
  <2>3. w % w = w - 1 * w
    BY <2>1, DivIs
  <2> QED BY <2>1, <2>2, <2>3
<1> QED BY <1>1 DEF Back

\* The result by 0 places is where the walk begins: C is X for roxr and roxl, else clear.
LEMMA ZeroSteps ==
  ASSUME NEW name \in Rotated, NEW z \in Sizes, NEW f \in Flags, NEW d \in Range0(z)
  PROVE  State(Op(name, z, f, 0, d)) = First(name, f, d)
<1>1. State(Unshifted(z, f, d)) = [v |-> d, c |-> 0, x |-> f.x, o |-> 0]
  BY States
<1>13. Bits(z) \in Nat \ {0}
  BY Widths
<1>14. /\ 0 \notin 1..Bits(z) /\ 0 \notin 1..(Bits(z) - 1)
       /\ ~(0 >= Bits(z)) /\ ~(0 > Bits(z))
  BY <1>13
<1>2. CASE name = "asr"
  <2>1. Asr(z, f, 0, d) = Unshifted(z, f, d)
    BY <1>14 DEF Asr
  <2>2. Op("asr", z, f, 0, d) = Asr(z, f, 0, d)
    BY DEF Op
  <2> QED BY <1>1, <1>2, <2>1, <2>2 DEF First
<1>3. CASE name = "asl"
  <2>1. Asl(z, f, 0, d) = Unshifted(z, f, d)
    BY <1>14 DEF Asl
  <2>2. Op("asl", z, f, 0, d) = Asl(z, f, 0, d)
    BY DEF Op
  <2> QED BY <1>1, <1>3, <2>1, <2>2 DEF First
<1>4. CASE name = "lsr"
  <2>1. Lsr(z, f, 0, d) = Unshifted(z, f, d)
    BY <1>14 DEF Lsr
  <2>2. Op("lsr", z, f, 0, d) = Lsr(z, f, 0, d)
    BY DEF Op
  <2> QED BY <1>1, <1>4, <2>1, <2>2 DEF First
<1>5. CASE name = "lsl"
  <2>1. Lsl(z, f, 0, d) = Unshifted(z, f, d)
    BY <1>14 DEF Lsl
  <2>2. Op("lsl", z, f, 0, d) = Lsl(z, f, 0, d)
    BY DEF Op
  <2> QED BY <1>1, <1>5, <2>1, <2>2 DEF First
<1>6. CASE name = "ror"
  <2>1. Ror(z, f, 0, d) = Unshifted(z, f, d)
    BY <1>14 DEF Ror
  <2>2. Op("ror", z, f, 0, d) = Ror(z, f, 0, d)
    BY DEF Op
  <2> QED BY <1>1, <1>6, <2>1, <2>2 DEF First
<1>7. CASE name = "rol"
  <2>1. Rol(z, f, 0, d) = Unshifted(z, f, d)
    BY <1>14 DEF Rol
  <2>2. Op("rol", z, f, 0, d) = Rol(z, f, 0, d)
    BY DEF Op
  <2> QED BY <1>1, <1>7, <2>1, <2>2 DEF First
<1>8. PICK w \in Nat \ {0} : w = Bits(z) + 1 /\ Bits(z) \in Nat
  BY Widths
<1>9. Roxr(z, f, 0, d) = Through(z, f, d, 0) /\ Roxl(z, f, 0, d) = Through(z, f, d, 0)
  <2>1. Roxr(z, f, 0, d) = Through(z, f, d, 0 % w)
        /\ Roxl(z, f, 0, d) = Through(z, f, d, Back(w, 0))
    BY <1>8, RoxIs
  <2> QED BY <1>8, <2>1, ZeroIndex
<1>10. PICK q : q = Through(z, f, d, 0) /\ q.v = d /\ q.f.x = f.x /\ q.f.c = f.x /\ q.f.v = 0
  BY NoTurn
<1>11. State(q) = [v |-> d, c |-> f.x, x |-> f.x, o |-> 0]
  BY <1>10 DEF State
<1>12. CASE name \in {"roxr", "roxl"}
  <2>1. Op(name, z, f, 0, d) = q
    BY <1>9, <1>10, <1>12 DEF Op
  <2> QED BY <1>11, <1>12, <2>1 DEF First
<1> QED BY <1>2, <1>3, <1>4, <1>5, <1>6, <1>7, <1>12 DEF Rotated

\* One bit at a time leads where the handler goes at once.
LEMMA BitsLead ==
  ASSUME NEW name \in Rotated, NEW z \in Sizes, NEW f \in Flags, NEW d \in Range0(z),
         NEW n \in Nat
  PROVE  BitByBit(name, z, f, n, d) = State(Op(name, z, f, n, d))
<1>1. PICK G : G = [k \in Nat |-> State(Op(name, z, f, k, d))]
  OBVIOUS
<1>2. G[0] = First(name, f, d)
  BY <1>1, ZeroSteps
<1>3. ASSUME NEW k \in Nat PROVE G[k + 1] = OneBit(name, z, G[k])
  <2>1. G[k + 1] = State(Op(name, z, f, k + 1, d)) /\ G[k] = State(Op(name, z, f, k, d))
    BY <1>1
  <2> QED BY <2>1, StepMore
<1>4. BitByBit(name, z, f, n, d) = G[n]
  BY <1>2, <1>3, StepsLead
<1> QED BY <1>1, <1>4

\* N and Z are of the value.
Shaped(z, q) == q.f.n = Msb(z, q.v) /\ q.f.z = Bit(q.v = 0)

\* They are in all the results a shift ends in.
LEMMA ShapesOf == ASSUME NEW z, NEW f, NEW v, NEW c, NEW k
  PROVE  /\ Shaped(z, Shifted(z, v, c)) /\ Shaped(z, Unshifted(z, f, v))
         /\ Shaped(z, Overflowed(Shifted(z, v, c), k))
         /\ Shaped(z, Result(v, [Logical(z, f, v).f EXCEPT !.c = c]))
BY DEF Shaped, Shifted, Unshifted, Logical, Result, Overflowed

\* So they are in what every shift leaves.
LEMMA ShiftShaped ==
  ASSUME NEW name \in Rotated, NEW z \in Sizes, NEW f, NEW d \in Range0(z), NEW n \in Nat
  PROVE  Shaped(z, Op(name, z, f, n, d))
<1>0. Bits(z) \in Nat \ {0}
  BY Widths
<1>1. n = 0 \/ n \in 1..(Bits(z) - 1) \/ n >= Bits(z)
  BY <1>0
<1>9. n = 0 \/ n \in 1..Bits(z) \/ n > Bits(z)
  BY <1>0
<1>2. Shaped(z, Asr(z, f, n, d))
  <2>1. \/ Asr(z, f, n, d) = Unshifted(z, f, d)
        \/ \E v, c : Asr(z, f, n, d) = Shifted(z, v, c)
    BY <1>0, <1>1 DEF Asr
  <2> QED BY <2>1, ShapesOf
<1>3. Shaped(z, Lsr(z, f, n, d))
  <2>1. \/ Lsr(z, f, n, d) = Unshifted(z, f, d)
        \/ \E v, c : Lsr(z, f, n, d) = Shifted(z, v, c)
    BY <1>0, <1>9 DEF Lsr
  <2> QED BY <2>1, ShapesOf
<1>4. Shaped(z, Lsl(z, f, n, d))
  <2>1. \/ Lsl(z, f, n, d) = Unshifted(z, f, d)
        \/ \E v, c : Lsl(z, f, n, d) = Shifted(z, v, c)
    BY <1>0, <1>9 DEF Lsl
  <2> QED BY <2>1, ShapesOf
<1>5. Shaped(z, Asl(z, f, n, d))
  <2>1. \/ Asl(z, f, n, d) = Unshifted(z, f, d)
        \/ \E v, c, k : Asl(z, f, n, d) = Overflowed(Shifted(z, v, c), k)
    BY <1>0, <1>1 DEF Asl
  <2> QED BY <2>1, ShapesOf
<1>6. Shaped(z, Ror(z, f, n, d)) /\ Shaped(z, Rol(z, f, n, d))
  BY ShapesOf DEF Ror, Rol
<1>7. Shaped(z, Roxr(z, f, n, d)) /\ Shaped(z, Roxl(z, f, n, d))
  BY ShapesOf DEF Roxr, Roxl, Through
<1>8. \/ name = "asr" \/ name = "asl" \/ name = "lsr" \/ name = "lsl"
      \/ name = "ror" \/ name = "rol" \/ name = "roxr" \/ name = "roxl"
  BY DEF Rotated
<1> QED BY <1>2, <1>3, <1>4, <1>5, <1>6, <1>7, <1>8 DEF Op

-----------------------------------------------------------------------------
(* Every shift and rotation.                                               *)

\* What the flags of a shift are, all of them.
LEMMA FlagsOf ==
  ASSUME NEW z \in Sizes, NEW q, Typed(z, q), Shaped(z, q)
  PROVE  q.f = [x |-> q.f.x, n |-> q.v \div Half[z], z |-> IF q.v = 0 THEN 1 ELSE 0,
                v |-> q.f.v, c |-> q.f.c]
<1>1. PICK f, v : f = q.f /\ v = q.v /\ f \in Flags /\ v \in Range0(z)
  BY DEF Typed
<1>2. PICK w, h, m : Sized(z, w, h, m, v)
  BY <1>1, Sizing
<1>3. h = Half[z] /\ v \div h = Msb(z, v)
  BY <1>1, <1>2, SignOf DEF Sized
<1>4. f.n = v \div Half[z] /\ f.z = IF v = 0 THEN 1 ELSE 0
  BY <1>1, <1>3 DEF Shaped, Bit
<1>5. f = [x |-> f.x, n |-> f.n, z |-> f.z, v |-> f.v, c |-> f.c]
  BY <1>1 DEF Flags
<1> QED BY <1>1, <1>4, <1>5

\* A shift of a data register by a count.
ShiftedBy(i, n) ==
  /\ i.ea.mode = "d" /\ i.name \in Rotated /\ n \in Nat
  /\ n = CASE i.form = "r" -> cpu.d[i.x] % (2 * Bits(4)) [] i.form = "s" -> i.q
  /\ cpu' = Placed(Fetched, i.z, i.ea, Op(i.name, i.z, cpu.f, n, Target(Fetched, i.z, i.ea)))

\* A handler that shifts by a count leaves what the steps lead to.
LEMMA ShiftingSteps ==
  ASSUME cpu \in Machine, NEW i, IsInstruction(i), NEW n, ShiftedBy(i, n)
  PROVE  Stepwise(i)
<1>1. PICK name, z, o :
        /\ name = i.name /\ z = i.z /\ o = i.ea /\ z \in Sizes /\ name \in Rotated
        /\ o.mode = "d" /\ o.r \in Registers /\ n \in Nat
  BY DEF IsInstruction, IsOperand, ShiftedBy
<1>2. PICK b, f : b = Masked(z, cpu.d[o.r]) /\ b \in Range0(z) /\ f = cpu.f /\ f \in Flags
  BY <1>1, RegisterRange
<1>3. PICK l : l = Fetched /\ l \in Machine /\ l.d = cpu.d
  <2>1. Stepped(cpu, Fetched, {}, 1 + 0) /\ Fetched \in Machine
    BY SkippedOn
  <2> QED BY <2>1 DEF Stepped
<1>4. Target(l, z, o) = b
  BY <1>1, <1>2, <1>3 DEF Target
<1>5. PICK q, p : q = Op(name, z, f, n, b) /\ p = cpu' /\ p = Placed(l, z, o, q)
  BY <1>1, <1>2, <1>3, <1>4 DEF ShiftedBy
<1>6. Typed(z, q)
  <2>1. OpBounds(name, z, n)
    BY <1>1 DEF OpBounds
  <2> QED BY <1>1, <1>2, <1>5, <2>1, OpTyped
<1>7. p.f = q.f /\ Masked(z, p.d[o.r]) = q.v
  <2>1. PICK x : x = o.r /\ x \in Registers
    BY <1>1
  <2>2. z \in Sizes /\ Typed(z, q) /\ p = Settled(l, z, x, q)
    BY <1>1, <1>5, <1>6, <2>1 DEF Placed, Settled
  <2>3. p.f = q.f /\ Masked(z, p.d[x]) = q.v
    BY <1>3, <2>1, <2>2, SettledLeaves
  <2> QED BY <2>1, <2>3
<1>8. PICK e : e = BitByBit(name, z, f, n, b) /\ e = State(q)
  BY <1>1, <1>2, <1>5, BitsLead
<1>9. e.v = q.v /\ e.c = q.f.c /\ e.x = q.f.x /\ e.o = q.f.v
  BY <1>8, StateParts, Zenon
<1>10. Shaped(z, q)
  BY <1>1, <1>2, <1>5, ShiftShaped
<1>11. p.f = [x |-> e.x, n |-> e.v \div Half[z], z |-> IF e.v = 0 THEN 1 ELSE 0, v |-> e.o,
          c |-> e.c]
  <2>1. q.f = [x |-> q.f.x, n |-> q.v \div Half[z], z |-> IF q.v = 0 THEN 1 ELSE 0,
               v |-> q.f.v, c |-> q.f.c]
    BY <1>1, <1>6, <1>10, FlagsOf
  <2> QED BY <1>7, <1>9, <2>1
<1>12. Low1(z, p.d[o.r]) = e.v
  BY <1>7, <1>9 DEF Low1, Masked
<1>13. e = BitByBit(i.name, i.z, cpu.f, n, Low1(i.z, cpu.d[i.ea.r]))
  BY <1>1, <1>2, <1>8 DEF Low1, Masked
<1>14. PICK k : /\ k = CASE i.form = "r" -> cpu.d[i.x] % (2 * Bits(4)) [] i.form = "s" -> i.q
                /\ k = n
  BY DEF ShiftedBy
<1>15. e = BitByBit(i.name, i.z, cpu.f, k, Low1(i.z, cpu.d[i.ea.r]))
  BY <1>13, <1>14
<1>16. /\ Low1(i.z, cpu'.d[i.ea.r]) = e.v
       /\ cpu'.f = [x |-> e.x, n |-> e.v \div Half[i.z], z |-> IF e.v = 0 THEN 1 ELSE 0,
                    v |-> e.o, c |-> e.c]
  BY <1>1, <1>5, <1>11, <1>12
<1> QED BY <1>14, <1>15, <1>16, Zenon DEF Stepwise

\* Both kinds of handlers do, with a count in the opcode and in a register.
LEMMA ShiftsStep ==
  ASSUME cpu \in Machine, NEW i, IsInstruction(i), ShiftSHandlers(i) \/ ShiftRHandlers(i)
  PROVE  Stepwise(i)
<1>1. CASE ShiftSHandlers(i)
  <2>1. /\ i.form = "s" /\ i.name \in Rotated /\ i.ea.mode = "d"
        /\ cpu' = Placed(Fetched, i.z, i.ea, Op(i.name, i.z, cpu.f, i.q, Target(Fetched, i.z,
               i.ea)))
    BY <1>1, ShiftSIs
  <2>2. i.q \in Nat
    BY MaskedSame DEF IsInstruction
  <2>3. i.q = CASE i.form = "r" -> cpu.d[i.x] % (2 * Bits(4)) [] i.form = "s" -> i.q
    BY <2>1
  <2>4. ShiftedBy(i, i.q)
    BY <2>1, <2>2, <2>3 DEF ShiftedBy
  <2> QED BY <2>4, ShiftingSteps
<1>2. CASE ShiftRHandlers(i)
  <2>1. PICK k : /\ i.form = "r" /\ i.name \in Rotated /\ i.ea.mode = "d"
                    /\ k = cpu.d[i.x] % (2 * Bits(4))
                 /\ cpu' = Placed(Fetched, i.z, i.ea, Op(i.name, i.z, cpu.f, k,
                        Target(Fetched, i.z, i.ea)))
    BY <1>2, ShiftRIs
  <2>2. k \in Nat
    <3>1. i.z \in Sizes /\ cpu.d[i.x] \in Int
      BY <2>1, MachineIs, MaskedSame DEF IsInstruction, HasX, Rotated
    <3> QED BY <2>1, <3>1, CountIs
  <2>3. k = CASE i.form = "r" -> cpu.d[i.x] % (2 * Bits(4)) [] i.form = "s" -> i.q
    BY <2>1
  <2>4. ShiftedBy(i, k)
    BY <2>1, <2>2, <2>3 DEF ShiftedBy
  <2> QED BY <2>4, ShiftingSteps
<1> QED BY <1>1, <1>2

\* The step of the machine is one of these handlers.
LEMMA StepShift ==
  ASSUME IInv, Next, Running, Instr.form \in {"s", "r"}, Instr.name \in Rotated
  PROVE  Stepwise(Instr)
<1>1. PICK i : i = Instr
  OBVIOUS
<1>2. ~Unready
  <2>1. Unready => i.name = "movep"
    BY <1>1 DEF Unready, Movep, Plain
  <2> QED BY <1>1, <2>1 DEF Rotated
<1>3. Handling
  BY <1>2 DEF Next, Handling, Ended
<1>4. IsInstruction(i) /\ Handlers(i) /\ cpu \in Machine
  BY <1>1, <1>3, InstrIs, HandlersAre DEF IInv, TypeOK
<1>5. ShiftSHandlers(i) \/ ShiftRHandlers(i)
  <2>1. LongHandlers(i) \/ ShiftSHandlers(i) \/ ShiftRHandlers(i) \/ ShiftMHandlers(i)
    BY <1>1, <1>4, AloneOnes DEF Alone
  <2>2. ~LongHandlers(i)
    <3>1. LongHandlers(i) => i.name \in {"mulu", "muls", "divu", "divs"}
      BY DEF LongHandlers, Does, mulu_16, muls_16, divu_16, divs_16
    <3> QED BY <1>1, <3>1 DEF Rotated
  <2>3. ~ShiftMHandlers(i)
    BY <1>1, ShiftMIs
  <2> QED BY <2>1, <2>2, <2>3
<1>6. Stepwise(i)
  BY <1>4, <1>5, ShiftsStep
<1> QED BY <1>1, <1>6

\* Shifts and rotations by n places are n steps by one in every program, for the value and the
\* flags (ShiftsStepwise), whatever the count.
THEOREM Shifts == Spec => ShiftsStepwise
<1>1. IInv /\ [Next]_vars
        => [/\ Running /\ Instr.form \in {"s", "r"}
            /\ Instr.name \in {"asr", "asl", "lsr", "lsl", "ror", "rol", "roxr", "roxl"}
            => Stepwise(Instr)]_cpu
  BY StepShift DEF vars, Rotated
<1> QED BY <1>1, Invariant, PTL DEF Spec, ShiftsStepwise
=============================================================================
