----------------------------- MODULE M68kMoving -----------------------------
(***************************************************************************)
(* The handlers of m68kops.c that move: MOVE, MOVEM, MOVEP, EXG, Scc, TAS, *)
(* and addresses with LEA, PEA, LINK and UNLK.  An action stands for the   *)
(* handlers of one template; those of a MOVE are named after where it goes.*)
(***************************************************************************)
EXTENDS M68kMachine, M68kLogic, FiniteSets

\* The source is read, and its address register moved, before the
\* destination's address is found.
Moves(i, z, to, sources) ==
  /\ Does(i, "move", z, to, sources) /\ i.to.mode = to
  /\ LET s == Operand(Fetched, z, i.ea)
     IN cpu' = Store(WithFlags(s.m, Logical(z, cpu.f, s.v)), z, i.to, s.v)

move_8_d(i)   == Moves(i, 1, "d", Data)
move_8_ai(i)  == Moves(i, 1, "ai", Data)
move_8_pi(i)  == Moves(i, 1, "pi", Data)
move_8_pd(i)  == Moves(i, 1, "pd", Data)
move_8_di(i)  == Moves(i, 1, "di", Data)
move_8_ix(i)  == Moves(i, 1, "ix", Data)
move_8_aw(i)  == Moves(i, 1, "aw", Data)
move_8_al(i)  == Moves(i, 1, "al", Data)
move_16_d(i)  == Moves(i, 2, "d", Modes)
move_16_ai(i) == Moves(i, 2, "ai", Modes)
move_16_pi(i) == Moves(i, 2, "pi", Modes)
move_16_pd(i) == Moves(i, 2, "pd", Modes)
move_16_di(i) == Moves(i, 2, "di", Modes)
move_16_ix(i) == Moves(i, 2, "ix", Modes)
move_16_aw(i) == Moves(i, 2, "aw", Modes)
move_16_al(i) == Moves(i, 2, "al", Modes)
move_32_d(i)  == Moves(i, 4, "d", Modes)
move_32_ai(i) == Moves(i, 4, "ai", Modes)
move_32_pi(i) == Moves(i, 4, "pi", Modes)
move_32_pd(i) == Moves(i, 4, "pd", Modes)
move_32_di(i) == Moves(i, 4, "di", Modes)
move_32_ix(i) == Moves(i, 4, "ix", Modes)
move_32_aw(i) == Moves(i, 4, "aw", Modes)
move_32_al(i) == Moves(i, 4, "al", Modes)

\* To an address register, and the condition codes: no flags but those.
ToAddress(i, z) == LET s == Widened(i, z) IN PutA(s.m, i.x, s.v)
movea_16(i) == Does(i, "movea", 2, "", Modes) /\ cpu' = ToAddress(i, 2)
movea_32(i) == Does(i, "movea", 4, "", Modes) /\ cpu' = ToAddress(i, 4)
move_16_toc(i) ==
  /\ Does(i, "move", 2, "toc", Data)
  /\ LET s == Operand(Fetched, 2, i.ea) IN cpu' = [s.m EXCEPT !.f = SetCcr(s.v)]

\* A byte in the opcode, extended to a long.
moveq_32(i) ==
  /\ Does(i, "moveq", 4, "", {"none"})
  /\ LET v == Extended(1, i.q)
     IN cpu' = PutD(WithFlags(Fetched, Logical(4, cpu.f, v)), 4, i.x, v)

-----------------------------------------------------------------------------
\* Register lists, D0 to A7 as 0 to 15.  The lowest register is at the lowest
\* address, also when the writes go downwards.
Register(m, r) == IF r < 8 THEN m.d[r] ELSE m.a[r - 8]
Rank(regs, r) == Cardinality({q \in regs : q < r})
Length(i, z) == z * Cardinality(i.regs)

\* place(r) is where register r goes.
StoreAt(i, m, z, place(_)) ==
  [m EXCEPT !.mem = [b \in DOMAIN @ |->
     LET k(r) == (b - place(r)) % AddressSpace
     IN IF \E r \in i.regs : k(r) < z
        THEN LET r == CHOOSE r \in i.regs : k(r) < z
             IN ByteOf(z, Masked(z, Register(cpu, r)), k(r))
        ELSE @[b]]]

\* Mutant: the registers are written in the order of their numbers.
StoreAllFirst(i, m, z, at) ==
  LET place(r) == at + Length(i, z) - z - z * Rank(i.regs, r) IN StoreAt(i, m, z, place)

\* The values are those before the first write, the base register's too.
StoreAll(i, m, z, at) ==
  LET place(r) == at + z * Rank(i.regs, r) IN StoreAt(i, m, z, place)

\* Words are extended, in data registers as well.
LoadAll(i, m, z, at) ==
  LET loaded(r, old) ==
        IF r \in i.regs THEN Extended(z, Read(m, z, at + z * Rank(i.regs, r))) ELSE old
  IN [m EXCEPT !.d = [r \in Registers |-> loaded(r, @[r])],
               !.a = [r \in Registers |-> loaded(r + 8, @[r])]]

\* The list is behind the opcode, the address behind the list.
Listed == Skip(Fetched, 1)
SaveDown(i, z) ==
  LET at == Masked(4, cpu.a[i.ea.r] - Length(i, z))
  IN PutA(StoreAll(i, Listed, z, at), i.ea.r, at)
Save(i, z) == LET e == Ea(Listed, z, i.ea) IN StoreAll(i, e.m, z, e.at)
Restore(i, z) == LET e == Ea(Listed, z, i.ea) IN LoadAll(i, e.m, z, e.at)

\* The base register is set last: a value loaded to it is lost.
RestoreUp(i, z) ==
  LET at == cpu.a[i.ea.r] IN PutA(LoadAll(i, Listed, z, at), i.ea.r, at + Length(i, z))

movem_16_re_pd(i) == Does(i, "movem", 2, "re", {"pd"}) /\ cpu' = SaveDown(i, 2)
movem_32_re_pd(i) == Does(i, "movem", 4, "re", {"pd"}) /\ cpu' = SaveDown(i, 4)
movem_16_re(i)    == Does(i, "movem", 2, "re", Memory \cap Control) /\ cpu' = Save(i, 2)
movem_32_re(i)    == Does(i, "movem", 4, "re", Memory \cap Control) /\ cpu' = Save(i, 4)
movem_16_er_pi(i) == Does(i, "movem", 2, "er", {"pi"}) /\ cpu' = RestoreUp(i, 2)
movem_32_er_pi(i) == Does(i, "movem", 4, "er", {"pi"}) /\ cpu' = RestoreUp(i, 4)
movem_16_er(i)    == Does(i, "movem", 2, "er", Control) /\ cpu' = Restore(i, 2)
movem_32_er(i)    == Does(i, "movem", 4, "er", Control) /\ cpu' = Restore(i, 4)

\* Every other byte, for the peripherals on one half of the data bus.
SaveBytes(i, z) ==
  LET e == Ea(Fetched, z, i.ea)
  IN [e.m EXCEPT !.mem = [b \in DOMAIN @ |->
        LET k == (b - e.at) % AddressSpace
        IN IF k < 2 * z /\ k % 2 = 0 THEN ByteOf(z, cpu.d[i.x], k \div 2) ELSE @[b]]]
RestoreBytes(i, z) ==
  LET e == Ea(Fetched, z, i.ea) IN PutD(e.m, z, i.x, ReadEvery(e.m, z, e.at, 2))

movep_16_re(i) == Does(i, "movep", 2, "re", {"di"}) /\ cpu' = SaveBytes(i, 2)
movep_32_re(i) == Does(i, "movep", 4, "re", {"di"}) /\ cpu' = SaveBytes(i, 4)
movep_16_er(i) == Does(i, "movep", 2, "er", {"di"}) /\ cpu' = RestoreBytes(i, 2)
movep_32_er(i) == Does(i, "movep", 4, "er", {"di"}) /\ cpu' = RestoreBytes(i, 4)

Moving ==
  /\ Running
  /\ LET i == Instr
     IN \/ move_8_d(i) \/ move_8_ai(i) \/ move_8_pi(i) \/ move_8_pd(i)
        \/ move_8_di(i) \/ move_8_ix(i) \/ move_8_aw(i) \/ move_8_al(i)
        \/ move_16_d(i) \/ move_16_ai(i) \/ move_16_pi(i) \/ move_16_pd(i)
        \/ move_16_di(i) \/ move_16_ix(i) \/ move_16_aw(i) \/ move_16_al(i)
        \/ move_32_d(i) \/ move_32_ai(i) \/ move_32_pi(i) \/ move_32_pd(i)
        \/ move_32_di(i) \/ move_32_ix(i) \/ move_32_aw(i) \/ move_32_al(i)
        \/ movea_16(i) \/ movea_32(i) \/ move_16_toc(i) \/ moveq_32(i)
        \/ movem_16_re_pd(i) \/ movem_32_re_pd(i) \/ movem_16_re(i) \/ movem_32_re(i)
        \/ movem_16_er_pi(i) \/ movem_32_er_pi(i) \/ movem_16_er(i) \/ movem_32_er(i)
        \/ movep_16_re(i) \/ movep_32_re(i) \/ movep_16_er(i) \/ movep_32_er(i)

-----------------------------------------------------------------------------
\* EXG: two data registers, two address registers, one of each.
exg_32_dd(i) ==
  /\ Does(i, "exg", 4, "dd", {"d"})
  /\ cpu' = [Fetched EXCEPT !.d[i.x] = cpu.d[i.ea.r], !.d[i.ea.r] = cpu.d[i.x]]
exg_32_aa(i) ==
  /\ Does(i, "exg", 4, "aa", {"a"})
  /\ cpu' = [Fetched EXCEPT !.a[i.x] = cpu.a[i.ea.r], !.a[i.ea.r] = cpu.a[i.x]]
exg_32_da(i) ==
  /\ Does(i, "exg", 4, "da", {"a"})
  /\ cpu' = [Fetched EXCEPT !.d[i.x] = cpu.a[i.ea.r], !.a[i.ea.r] = cpu.d[i.x]]

\* A byte of ones when the condition holds, of zeros when not; never read.
Filled(i, condition) == Store(Fetched, 1, i.ea, IF condition THEN Mod(1) - 1 ELSE 0)
st_8(i)  == Does(i, "st", 1, "", Alterable) /\ cpu' = Filled(i, TRUE)
sf_8(i)  == Does(i, "sf", 1, "", Alterable) /\ cpu' = Filled(i, FALSE)
scc_8(i) == Does(i, "scc", 1, "", Alterable) /\ cpu' = Filled(i, Condition(i.cc, cpu.f))

tas_8(i) ==
  /\ Does(i, "tas", 1, "", Alterable)
  /\ LET G(d) == Tas(cpu.f, d) IN cpu' = Modify(Fetched, 1, i.ea, G)

\* Addresses: to a register, to the stack.
lea_32(i) ==
  /\ Does(i, "lea", 4, "", Control)
  /\ LET e == Ea(Fetched, 4, i.ea) IN cpu' = PutA(e.m, i.x, e.at)
pea_32(i) ==
  /\ Does(i, "pea", 4, "", Control)
  /\ LET e == Ea(Fetched, 4, i.ea) IN cpu' = Push(e.m, e.at)

\* LINK keeps the register on the stack, points it there and makes room; UNLK
\* takes all of it back.  With the stack pointer itself, LINK pushes what it
\* has become, and UNLK loads it from where it points.
Room(i, m) == PutA(Skip(m, 1), 7, m.a[7] + MakeInt(2, i.q))
link_16(i) ==
  /\ Does(i, "link", 2, "", {"a"}) /\ i.ea.r # 7
  /\ LET m == Push(Fetched, cpu.a[i.ea.r]) IN cpu' = Room(i, PutA(m, i.ea.r, m.a[7]))
link_16_a7(i) ==
  /\ Does(i, "link", 2, "", {"a"}) /\ i.ea.r = 7
  /\ cpu' = Room(i, Push(Fetched, Masked(4, cpu.a[7] - 4)))
unlk_32(i) ==
  /\ Does(i, "unlk", 4, "", {"a"}) /\ i.ea.r # 7
  /\ LET m == PutA(Fetched, 7, cpu.a[i.ea.r])
     IN cpu' = PutA(Pulled(m, 4), i.ea.r, Read(m, 4, m.a[7]))
unlk_32_a7(i) ==
  /\ Does(i, "unlk", 4, "", {"a"}) /\ i.ea.r = 7
  /\ cpu' = PutA(Fetched, 7, Read(cpu, 4, cpu.a[7]))

Addressing ==
  /\ Running
  /\ LET i == Instr
     IN \/ exg_32_dd(i) \/ exg_32_aa(i) \/ exg_32_da(i)
        \/ st_8(i) \/ sf_8(i) \/ scc_8(i) \/ tas_8(i) \/ lea_32(i) \/ pea_32(i)
        \/ link_16(i) \/ link_16_a7(i) \/ unlk_32(i) \/ unlk_32_a7(i)
=============================================================================
