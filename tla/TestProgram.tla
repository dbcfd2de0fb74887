---------------------------- MODULE TestProgram -----------------------------
(***************************************************************************)
(* src/src/test/test.asm on the CPU: it waits until Xosera answers, then   *)
(* clears the screen with a character and a colour.  Its registers are     *)
(* bytes of the memory here; Xosera itself is outside the source: a write  *)
(* to the low byte of XM_DATA puts a word on the screen, at XM_WR_ADDR.    *)
(***************************************************************************)
EXTENDS M68kProgram, TLC

CONSTANTS
  XOSERA_ADDRESS,      \* $f80060
  Patterns,            \* <<$F5A5, $FA5A>>: written, and awaited
  Character, Color,    \* 42 and 2
  Characters,          \* 2400
  MaxUnready           \* bound: writes ignored by a Xosera that is not ready

XM_XR_ADDR == 0
XM_WR_INCR == 16
XM_WR_ADDR == 20
XM_DATA    == 24

\* The values of test.asm fit where it puts them: a character and its color in
\* a byte, their number in the word that addresses them, and the registers in
\* the memory.
ASSUME TestAssumption ==
  /\ XOSERA_ADDRESS \in 0..(AddressSpace - 32)
  /\ Character \in Range0(1) /\ Color \in Range0(1)
  /\ Characters \in 1..Mod(2)

VARIABLES
  screen,  \* the words put on the screen, by their addresses
  unready  \* how many writes Xosera still ignores

\* What a line of the source assembles to.  Branches take a word here.
None == [mode |-> "none", r |-> 8, more |-> 0]
Plain == [name |-> "none", z |-> 4, form |-> "", ea |-> None, x |-> 8, to |-> None,
          q |-> 0, cc |-> "t", regs |-> {}]
D(r) == [None EXCEPT !.mode = "d", !.r = r]
A(r) == [None EXCEPT !.mode = "a", !.r = r]
Pd(r) == [None EXCEPT !.mode = "pd", !.r = r]
Pi(r) == [None EXCEPT !.mode = "pi", !.r = r]
Value(v) == [e |-> v, mode |-> "i", r |-> 8, more |-> 0]
At(v) == [e |-> v, mode |-> "al", r |-> 8, more |-> 0]
Di(v, r) == [e |-> v, mode |-> "di", r |-> r, more |-> 0]

Move_(z, from, to) ==
  [Plain EXCEPT !.name = "move", !.z = z, !.form = to.mode, !.ea = from, !.to = to]
Movep(form, x, at) ==
  [Plain EXCEPT !.name = "movep", !.z = 2, !.form = form, !.x = x, !.ea = at]
Bne(here, there) ==
  [Plain EXCEPT !.name = "bcc", !.z = 2, !.cc = "ne", !.q = Masked(2, there - here - 2)]
Movem(form, o, regs) ==
  [Plain EXCEPT !.name = "movem", !.form = form, !.ea = o, !.regs = regs]
Lea(at, x) == [Plain EXCEPT !.name = "lea", !.ea = at, !.x = x]
OneMore(name, q, o) ==
  [Plain EXCEPT !.name = name, !.form = IF o.mode = "a" THEN "a" ELSE "", !.q = q, !.ea = o]

\* init and xcls, line by line, at the distance from Org that the lines before
\* take; done is the last line of init, and Xcls + 34 the head of the loop.
Xcls == 76
Done == Org + 70
Lines ==
  {0, 6, 12, 16, 20, 24, 28, 34, 38, 42, 46, 50, 56, 62, 68, 70}
    \cup {Xcls + k : k \in {0, 2, 6, 12, 18, 22, 28, 34, 38, 42, 46, 50, 54, 56, 58, 62, 66}}

Waiting(k, pattern) ==
  CASE k = 0  -> Move_(4, Value(pattern), D(0))
    [] k = 6  -> Movep("re", 0, Di(XM_XR_ADDR, 0))
    [] k = 10 -> Movep("er", 0, Di(XM_XR_ADDR, 0))
    [] k = 14 -> [Plain EXCEPT !.name = "cmp", !.z = 2, !.ea = Value(pattern), !.x = 0]
    [] k = 18 -> Bne(18, 0)
Main(k) ==
  CASE k = 0       -> Lea(At(XOSERA_ADDRESS), 0)
    [] k \in 6..24  -> Waiting(k - 6, Patterns[1])
    [] k \in 28..46 -> Waiting(k - 28, Patterns[2])
    [] k = 50      -> Move_(4, Value(Character), Pd(7))
    [] k = 56      -> Move_(4, Value(Color), Pd(7))
    [] k = 62      -> [Plain EXCEPT !.name = "jsr", !.ea = At(Org + Xcls)]
    [] k = 68      -> OneMore("addq", 8, A(7))
    [] k = 70      -> [Plain EXCEPT !.name = "jmp", !.ea = At(Done)]

\* The parameters are behind the return address.
ClearScreen(k) ==
  CASE k = 0  -> [Plain EXCEPT !.name = "movea", !.ea = A(7), !.x = 0]
    [] k = 2  -> Movem("re", Pd(7), {2, 3, 4})
    [] k = 6  -> Lea(At(XOSERA_ADDRESS), 1)
    [] k = 12 -> Move_(4, Value(0), D(0))
    [] k = 18 -> Movep("re", 0, Di(XM_WR_INCR, 1))
    [] k = 22 -> Move_(4, Value(Characters), D(3))
    [] k = 28 -> Move_(4, Value(0), D(4))
    [] k = 34 -> Movep("re", 4, Di(XM_WR_ADDR, 1))
    [] k = 38 -> Move_(4, Di(4, 0), D(0))
    [] k = 42 -> Move_(1, D(0), Di(XM_DATA, 1))
    [] k = 46 -> Move_(4, Di(8, 0), D(0))
    [] k = 50 -> Move_(1, D(0), Di(XM_DATA + 2, 1))
    [] k = 54 -> OneMore("addq", 1, D(4))
    [] k = 56 -> OneMore("subq", 1, D(3))
    [] k = 58 -> Bne(58, 34)
    [] k = 62 -> Movem("er", Pi(7), {2, 3, 4})
    [] k = 66 -> [Plain EXCEPT !.name = "rts"]

TestCode ==
  [at \in {Org + k : k \in Lines} |->
     LET k == at - Org IN IF k < Xcls THEN Main(k) ELSE ClearScreen(k - Xcls)]

-----------------------------------------------------------------------------
\* Xosera takes a word when its low byte is written; its address does not move
\* while XM_WR_INCR is 0.
Port(m, register, byte) == m.mem[(XOSERA_ADDRESS + register + 2 * byte) % AddressSpace]
Address(m) == Port(m, XM_WR_ADDR, 0) * Mod(1) + Port(m, XM_WR_ADDR, 1)
Shows ==
  LET i == Instr
  IN IF /\ code = TestCode /\ i.name = "move" /\ i.to.mode = "di"
        /\ Masked(4, cpu.a[i.to.r] + MakeInt(2, i.to.e)) = XOSERA_ADDRESS + XM_DATA + 2
     THEN LET at == Address(cpu')
              word == <<Port(cpu', XM_DATA, 0), Port(cpu', XM_DATA, 1)>>
          IN screen' = [b \in DOMAIN screen \cup {at} |-> IF b = at THEN word ELSE screen[b]]
     ELSE UNCHANGED screen

\* Before it is ready, it does not take what the program writes to wait for it.
Unready ==
  /\ Running /\ code = TestCode /\ unready > 0
  /\ Instr = Movep("re", 0, Di(XM_XR_ADDR, 0))
  /\ unready' = unready - 1
  /\ cpu' = Skip(cpu, 2)
  /\ UNCHANGED <<screen, start, code>>

InitTest == Init /\ screen = <<>> /\ unready = MaxUnready
Quiet == UNCHANGED <<start, code, unready>> /\ Shows

\* The program has left its code or raised an exception.
Ended == ~Running /\ UNCHANGED <<cpu, code, start, screen, unready>>

Next ==
  \/ Arithmetic /\ Quiet
  \/ Logic /\ Quiet
  \/ Shifting /\ Quiet
  \/ Multiplying /\ Quiet
  \/ Moving /\ Quiet
  \/ Addressing /\ Quiet
  \/ Flowing /\ Quiet
  \/ Unready
  \/ Ended
vars == <<cpu, code, start, screen, unready>>
Spec == InitTest /\ [][Next]_vars

\* ScreenCleared: when the test program comes to its end, every character of
\* the screen was written with the character and the colour that went over
\* the stack, the stack is where it was, and the registers that xcls saves
\* have their values; and it wrote nothing outside Xosera and below the stack.
\* That is, with the stack in the RAM below Xosera and room for six longs.
ScreenCleared ==
  code = TestCode /\ cpu.pc = Done /\ start.a[7] \in 24..XOSERA_ADDRESS =>
    /\ screen = [at \in 0..(Characters - 1) |-> <<Color, Character>>]
    /\ cpu.a[7] = start.a[7]
    /\ \A r \in {2, 3, 4} : cpu.d[r] = start.d[r]
    /\ \A b \in start.a[7]..(XOSERA_ADDRESS - 1) : cpu.mem[b] = start.mem[b]
=============================================================================
