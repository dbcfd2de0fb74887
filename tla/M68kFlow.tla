------------------------------ MODULE M68kFlow ------------------------------
(***************************************************************************)
(* The handlers of m68kops.c that go elsewhere: branches, loops,           *)
(* subroutines, and the checks that raise an exception.                    *)
(***************************************************************************)
EXTENDS M68kMachine, M68kLogic

\* m68ki_branch_8 and m68ki_branch_16: from the word behind the opcode, which
\* is where the displacement itself is when it is a word.
Branch(m, z, i) == [m EXCEPT !.pc = Masked(4, Fetched.pc + MakeInt(z, i.q))]
Passed == Skip(Fetched, 1)

bcc_8(i) ==
  /\ Does(i, "bcc", 1, "", {"none"})
  /\ cpu' = IF Condition(i.cc, cpu.f) THEN Branch(Fetched, 1, i) ELSE Fetched
bcc_16(i) ==
  /\ Does(i, "bcc", 2, "", {"none"})
  /\ cpu' = IF Condition(i.cc, cpu.f) THEN Branch(Fetched, 2, i) ELSE Passed
bra_8(i)  == Does(i, "bra", 1, "", {"none"}) /\ cpu' = Branch(Fetched, 1, i)
bra_16(i) == Does(i, "bra", 2, "", {"none"}) /\ cpu' = Branch(Fetched, 2, i)
bsr_8(i) ==
  /\ Does(i, "bsr", 1, "", {"none"}) /\ cpu' = Branch(Push(Fetched, Fetched.pc), 1, i)
bsr_16(i) ==
  /\ Does(i, "bsr", 2, "", {"none"}) /\ cpu' = Branch(Push(Fetched, Passed.pc), 2, i)

\* Mutant: the loop ends when its count comes to 0.
LoopToZero(i) ==
  LET count == Masked(2, cpu.d[i.ea.r] - 1)
  IN PutD(IF count # 0 THEN Branch(Fetched, 2, i) ELSE Passed, 2, i.ea.r, count)

\* DBcc leaves the loop when the condition holds, and when the word it counts
\* down comes to -1: a count of n is n + 1 times around.
Loop(i) ==
  LET count == Masked(2, cpu.d[i.ea.r] - 1)
  IN PutD(IF count # Mod(2) - 1 THEN Branch(Fetched, 2, i) ELSE Passed, 2, i.ea.r, count)
dbt_16(i) == Does(i, "dbt", 2, "", {"d"}) /\ cpu' = Passed
dbf_16(i) == Does(i, "dbf", 2, "", {"d"}) /\ cpu' = Loop(i)
dbcc_16(i) ==
  /\ Does(i, "dbcc", 2, "", {"d"})
  /\ cpu' = IF Condition(i.cc, cpu.f) THEN Passed ELSE Loop(i)

\* Jumps, and subroutines: the counter is behind the extension words when it
\* is pushed.
jmp_32(i) ==
  /\ Does(i, "jmp", 4, "", Control)
  /\ LET e == Ea(Fetched, 4, i.ea) IN cpu' = [e.m EXCEPT !.pc = e.at]
jsr_32(i) ==
  /\ Does(i, "jsr", 4, "", Control)
  /\ LET e == Ea(Fetched, 4, i.ea) IN cpu' = [Push(e.m, e.m.pc) EXCEPT !.pc = e.at]
Return(m) == [Pulled(m, 4) EXCEPT !.pc = Read(m, 4, m.a[7])]
rts_32(i) == Does(i, "rts", 4, "", {"none"}) /\ cpu' = Return(Fetched)
rtr_32(i) ==
  /\ Does(i, "rtr", 4, "", {"none"})
  /\ cpu' = Return([Pulled(Fetched, 2) EXCEPT !.f = SetCcr(Read(cpu, 2, cpu.a[7]))])

nop(i) == Does(i, "nop", 4, "", {"none"}) /\ cpu' = Fetched
trapv(i) ==
  /\ Does(i, "trapv", 4, "", {"none"})
  /\ cpu' = IF cpu.f.v = 1 THEN Raise(Fetched, "trapv") ELSE Fetched

\* A register between 0 and a bound.  Z is of the register, V and C are clear,
\* N only says which bound was left; X stays.
chk_16(i) ==
  /\ Does(i, "chk", 2, "", Data)
  /\ LET s == Operand(Fetched, 2, i.ea)
         checked == MakeInt(2, cpu.d[i.x])
         f == [cpu.f EXCEPT !.z = Bit(checked = 0), !.v = 0, !.c = 0]
     IN cpu' = IF checked \in 0..MakeInt(2, s.v)
               THEN [s.m EXCEPT !.f = f]
               ELSE Raise([s.m EXCEPT !.f = [f EXCEPT !.n = Bit(checked < 0)]], "chk")

Flowing ==
  /\ Running
  /\ LET i == Instr
     IN \/ bcc_8(i) \/ bcc_16(i) \/ bra_8(i) \/ bra_16(i) \/ bsr_8(i) \/ bsr_16(i)
        \/ dbt_16(i) \/ dbf_16(i) \/ dbcc_16(i)
        \/ jmp_32(i) \/ jsr_32(i) \/ rts_32(i) \/ rtr_32(i)
        \/ nop(i) \/ trapv(i) \/ chk_16(i)
=============================================================================
