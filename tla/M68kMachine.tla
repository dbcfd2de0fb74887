---------------------------- MODULE M68kMachine -----------------------------
(***************************************************************************)
(* The CPU between two instructions, and the forms that the handlers of    *)
(* m68k_in.c have in common.  A handler is an action: Does(i, ...) says    *)
(* that the opcode table leads there, and cpu' what it makes of the CPU.   *)
(* The names of the handlers are those of the templates, and i is the      *)
(* instruction: name, z and form as in the template's name,                *)
(*   ea   the operand in the low bits of the opcode (AY, DY),              *)
(*   x    the number of the register in its middle bits (AX, DX),          *)
(*   to   the destination of a MOVE,                                       *)
(*   q    an immediate value, count or displacement,                       *)
(*   cc   a condition, and regs the register list of MOVEM.                *)
(***************************************************************************)
EXTENDS M68kOperands

VARIABLES
  cpu,  \* the machine
  code  \* the program: a function from addresses to instructions

Instr == code[cpu.pc]
Running == cpu.trap = "none" /\ cpu.pc \in DOMAIN code

\* The addressing modes that the opcode table gives to a handler's name.
Data == Modes \ {"a"}
Memory == {"ai", "pi", "pd", "di", "ix", "aw", "al"}
Alterable == Memory \cup {"d"}
Control == {"ai", "di", "ix", "aw", "al", "pcdi", "pcix"}

Does(i, name, z, form, modes) ==
  i.name = name /\ i.z = z /\ i.form = form /\ i.ea.mode \in modes

\* The machine when the opcode is read.
Fetched == Skip(cpu, 1)

\* From an operand to a data register: F(z, flags, source, destination).
Er(i, z, F(_, _, _, _)) ==
  LET s == Operand(Fetched, z, i.ea)
      q == F(z, cpu.f, s.v, Masked(z, cpu.d[i.x]))
  IN PutD([s.m EXCEPT !.f = q.f], z, i.x, q.v)

\* From a data register to an operand.
Re(i, z, F(_, _, _, _)) ==
  LET G(d) == F(z, cpu.f, Masked(z, cpu.d[i.x]), d) IN Modify(Fetched, z, i.ea, G)

\* An immediate value to an operand: the value comes first.
Imm(i, z, F(_, _, _, _)) ==
  LET G(d) == F(z, cpu.f, i.q, d) IN Modify(Skip(Fetched, ImmWords(z)), z, i.ea, G)

\* A value in the opcode to an operand.
Quick(i, z, F(_, _, _, _)) ==
  LET G(d) == F(z, cpu.f, i.q, d) IN Modify(Fetched, z, i.ea, G)

\* One operand.
Unary(i, z, F(_, _, _)) ==
  LET G(d) == F(z, cpu.f, d) IN Modify(Fetched, z, i.ea, G)

\* From data register to data register, and from memory to memory downwards:
\* the source first, which matters when both registers are the same.
Rr(i, z, F(_, _, _, _)) ==
  LET q == F(z, cpu.f, Masked(z, cpu.d[i.ea.r]), Masked(z, cpu.d[i.x]))
  IN PutD([Fetched EXCEPT !.f = q.f], z, i.x, q.v)
Down(r) == [mode |-> "pd", r |-> r]
Up(r)   == [mode |-> "pi", r |-> r]
Mm(i, z, F(_, _, _, _)) ==
  LET s == Operand(Fetched, z, Down(i.ea.r))
      G(d) == F(z, cpu.f, s.v, d)
  IN Modify(s.m, z, Down(i.x), G)

\* Only the flags: an operand against a data register.
WithFlags(m, q) == [m EXCEPT !.f = q.f]
Compared(i, z, F(_, _, _, _)) ==
  LET s == Operand(Fetched, z, i.ea)
  IN WithFlags(s.m, F(z, cpu.f, s.v, Masked(z, cpu.d[i.x])))

\* Mutant: an address is not cut to a long.
PutAWide(m, r, v) == [m EXCEPT !.a[r] = v]

\* Address registers take longs; a word is extended by its sign.  A is
\* the register, F what is done with it and the operand.
PutA(m, r, v) == [m EXCEPT !.a[r] = Masked(4, v)]
Widened(i, z) ==
  LET s == Operand(Fetched, z, i.ea) IN [s EXCEPT !.v = Extended(z, s.v)]
ToA(i, z, F(_, _)) == LET s == Widened(i, z) IN PutA(s.m, i.x, F(s.m.a[i.x], s.v))

\* A word to a long register: products, quotients, and the bit operations.
Long(i, F(_, _, _)) ==
  LET s == Operand(Fetched, 2, i.ea)
      q == F(cpu.f, s.v, cpu.d[i.x])
  IN PutD([s.m EXCEPT !.f = q.f], 4, i.x, q.v)

\* A value to a destination that is not read.
Store(m, z, o, v) ==
  LET e == Ea(m, z, o)
  IN IF o.mode = "d" THEN PutD(m, z, o.r, v) ELSE Write(e.m, z, e.at, v)

\* An exception of the instruction's own (M68kExceptions has the rest of it).
Raise(m, vector) == [m EXCEPT !.trap = vector]
=============================================================================
