---------------------------- MODULE M68kRoutines ----------------------------
(***************************************************************************)
(* What several instructions do together: numbers of several bytes, added  *)
(* and subtracted from the memory by a DBF loop; a loop that counts; and a *)
(* subroutine that keeps its caller's registers on the stack.  All of them *)
(* begin at Org and end at the first address behind their code.            *)
(***************************************************************************)
EXTENDS TestProgram

CONSTANT Parts  \* bytes of a number

\* A number does not go around the address space.
ASSUME PartsAssumption == Parts \in 1..AddressSpace

Dbf(here, there, r) ==
  [Plain EXCEPT !.name = "dbf", !.z = 2, !.ea = D(r), !.q = Masked(2, there - here - 2)]

\* A chain: name.b -(a2),-(a3); dbf d2.
Chain(name) ==
  [at \in {Org, Org + 2} |->
     IF at = Org
     THEN [Plain EXCEPT !.name = name, !.z = 1, !.form = "mm", !.ea = Pd(2), !.x = 3]
     ELSE Dbf(2, 0, 2)]
ChainNames == {"addx", "subx", "abcd", "sbcd"}
Chains == {Chain(name) : name \in ChainNames}

\* addq.l #1,d3; dbf d2.
Counting ==
  [at \in {Org, Org + 2} |-> IF at = Org THEN OneMore("addq", 1, D(3)) ELSE Dbf(2, 0, 2)]
AfterLoop == Org + 6

\* bsr; a subroutine with a frame on a2 that overwrites d2, d3 and a3.
Called(k) ==
  CASE k = 0  -> [Plain EXCEPT !.name = "bsr", !.z = 1, !.q = 6]
    [] k = 8  -> [Plain EXCEPT !.name = "link", !.z = 2, !.ea = A(2), !.q = Mod(2) - 4]
    [] k = 12 -> Movem("re", Pd(7), {2, 3, 11})
    [] k = 16 -> [Plain EXCEPT !.name = "moveq", !.x = 2, !.q = Mod(1) - 1]
    [] k = 18 -> [Plain EXCEPT !.name = "exg", !.form = "da", !.x = 3, !.ea = A(3)]
    [] k = 20 -> Move_(4, D(2), Di(Mod(2) - 4, 2))
    [] k = 24 -> Movem("er", Pi(7), {2, 3, 11})
    [] k = 28 -> [Plain EXCEPT !.name = "unlk", !.ea = A(2)]
    [] k = 30 -> [Plain EXCEPT !.name = "rts"]
Calling == [at \in {Org + k : k \in {0, 8, 12, 16, 18, 20, 24, 28, 30}} |-> Called(at - Org)]
AfterCall == Org + 2

-----------------------------------------------------------------------------
\* The numbers in the first n bytes below an address, and what their next
\* digit weighs: a byte is one digit, or two of a decimal.
InDigits == {"abcd", "sbcd"}
Radix(name) == IF name \in InDigits THEN Digits * Digits ELSE Mod(1)
Digit(name, b) == IF name \in InDigits THEN Number(b) ELSE b
Weights(name) ==
  LET weight[n \in 0..Parts] == IF n = 0 THEN 1 ELSE Radix(name) * weight[n - 1] IN weight
Numbers(name, m, at) ==
  LET number[n \in 0..Parts] ==
        IF n = 0 THEN 0
        ELSE number[n - 1] + Weights(name)[n - 1] * Digit(name, ByteAt(m, at - n))
  IN number

\* What may be chained: as many bytes as the counter says, of the source none
\* that is written before it is read, and decimals where they are meant.
Chainable(name) ==
  /\ start.d[2] % Mod(2) = Parts - 1
  /\ \A j, k \in 1..Parts :
       j < k => (start.a[3] - j) % AddressSpace # (start.a[2] - k) % AddressSpace
  /\ name \in InDigits =>
       \A k \in 1..Parts, r \in {2, 3} : IsDecimal(ByteAt(start, start.a[r] - k))

ChainRight(name) ==
  LET range == Weights(name)[Parts]
      s == Numbers(name, start, start.a[2])[Parts]
      d == Numbers(name, start, start.a[3])[Parts]
      r == Numbers(name, cpu, start.a[3])[Parts]
      t == IF name \in Adding THEN d + s + start.f.x ELSE d - s - start.f.x
  IN /\ r = t % range
     /\ (cpu.f.x = 1) <=> t \notin 0..(range - 1)
     /\ (cpu.f.z = 1) <=> (r = 0 /\ start.f.z = 1)

\* ChainsRight: a chain of ADDX, SUBX, ABCD or SBCD, carried on over the DBF
\* between its parts, is the sum or the difference of the whole numbers, with
\* X as its carry and Z for all parts.
ChainsRight ==
  cpu.pc = AfterLoop =>
    \A name \in ChainNames : code = Chain(name) /\ Chainable(name) => ChainRight(name)

\* CountsRight: DBF goes around once more than the word in its register says,
\* and leaves -1 there and the rest of the register alone.
CountsRight ==
  code = Counting /\ cpu.pc = AfterLoop =>
    /\ cpu.d[3] = Masked(4, start.d[3] + (start.d[2] % Mod(2)) + 1)
    /\ cpu.d[2] = start.d[2] - (start.d[2] % Mod(2)) + Mod(2) - 1

\* CallsRight: a subroutine that saves with LINK and MOVEM what it overwrites,
\* and restores with MOVEM and UNLK, gives its caller every register and the
\* stack back, wherever the stack is.
CallsRight == code = Calling /\ cpu.pc = AfterCall => cpu.d = start.d /\ cpu.a = start.a

\* RoutinesRight: all of them come out right.
RoutinesRight == ChainsRight /\ CountsRight /\ CallsRight
=============================================================================
