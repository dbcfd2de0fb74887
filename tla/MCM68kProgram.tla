--------------------------- MODULE MCM68kProgram ----------------------------
(***************************************************************************)
(* Programs for TLC.  A byte has four bits here, a word eight, a long      *)
(* sixteen, and a decimal digit is 0, 1 or 2: the carries, the signs and   *)
(* the extensions are those of eight, and all bytes can be tried.          *)
(*                                                                         *)
(* Every handler is there as a program of one instruction: the operations  *)
(* on registers with many values, the others once for each addressing      *)
(* mode; and behind them routines of several instructions, and the test    *)
(* program.                                                                *)
(***************************************************************************)
EXTENDS M68kRoutines

MCHalf == (1 :> 8) @@ (2 :> 128) @@ (4 :> 32768)
MCPatterns == <<165, 90>>

\* Operands: registers 1 to 3, and addresses inside of the memory.
Ix(r) == [e |-> 2, mode |-> "ix", r |-> r, xn |-> 12, xl |-> TRUE, more |-> 0]
IxW(r) == [e |-> 14, mode |-> "ix", r |-> r, xn |-> 1, xl |-> FALSE, more |-> 0]
Full(r) == [Ix(r) EXCEPT !.more = 1]
Aw(v) == [e |-> v, mode |-> "aw", r |-> 8, more |-> 0]
Pcdi(v) == [e |-> v, mode |-> "pcdi", r |-> 8, more |-> 0]
Pcix == [e |-> 4, mode |-> "pcix", r |-> 8, xn |-> 12, xl |-> FALSE, more |-> 0]
InControl == {[None EXCEPT !.mode = "ai", !.r = 2], Di(250, 2), Ix(2), Full(2), Aw(20), At(10)}
InMemory == InControl \cup {Pi(2), Pd(2), Pi(7), Pd(7)}
ByCounter == {Pcdi(4), Pcix}
Anywhere(z) == InMemory \cup ByCounter \cup {Value(IF z = 1 THEN 9 ELSE 200), D(2)}

I(name, z, form) == [Plain EXCEPT !.name = name, !.z = z, !.form = form]
With(i, o) == [i EXCEPT !.ea = o, !.x = 3]
Over(names, sizes, form, places(_)) ==
  UNION {{With(I(n, z, form), o) : o \in places(z)} : n \in names, z \in sizes}
Numbered(is, qs) == UNION {{[i EXCEPT !.q = q] : q \in qs} : i \in is}

All3 == {1, 2, 4}
Mem(z) == InMemory
Reg(z) == {D(2)}
OnTop(z) == {Pd(2)}
Alter(z) == InMemory \cup {D(2)}
Con(z) == InControl
Jumps(z) == {At(12), Di(12, 2)}
ByA(z) == {A(2), A(7)}
Source(z) == IF z = 1 THEN Anywhere(z) ELSE Anywhere(z) \cup {A(2)}

\* On registers, with many values.
Ranged == {"asr", "asl", "lsr", "lsl", "ror", "rol", "roxr", "roxl"}
Registered ==
  Over({"add", "sub"}, All3, "er", Reg) \cup Over({"cmp"}, All3, "", Reg)
  \cup Over({"addx", "subx"}, All3, "rr", Reg) \cup Over({"neg", "negx"}, All3, "", Reg)
  \cup Over({"abcd", "sbcd"}, {1}, "rr", Reg) \cup Over({"nbcd"}, {1}, "", Reg)
  \cup Over({"mulu", "muls", "divu", "divs"}, {2}, "", Reg)
Shifts == Over(Ranged, All3, "r", Reg)
Tried == Registered \cup Shifts

\* Everything else, once or for each addressing mode.
Computed ==
  Over({"add", "sub", "and", "or"}, All3, "er", Anywhere) \cup Over({"add", "sub"}, {2, 4}, "er", ByA)
  \cup Over({"add", "sub", "and", "or"}, All3, "re", Mem)
  \cup Over({"adda", "suba", "cmpa", "cmp"}, {2, 4}, "", Source) \cup Over({"cmp"}, {1}, "", Anywhere)
  \cup Numbered(Over({"addi", "subi", "cmpi", "andi", "ori", "eori"}, All3, "", Alter), {9})
  \cup Numbered(Over({"addq", "subq"}, All3, "", Alter) \cup Over({"addq", "subq"}, {2, 4}, "a", ByA), {1, 4})
  \cup Over({"addx", "subx"}, All3, "mm", OnTop) \cup Over({"abcd", "sbcd"}, {1}, "mm", OnTop)
  \cup Over({"neg", "negx", "not", "tst", "clr", "eor"}, All3, "", Alter) \cup Over({"nbcd"}, {1}, "", Alter)
  \cup Over({"cmpm"}, All3, "", LAMBDA z : {Pi(2)})
  \cup Numbered(Over({"bchg", "bclr", "bset", "btst"}, {4}, "s", Reg), {0, 9, 15, 17})
  \cup Over({"bchg", "bclr", "bset", "btst"}, {4}, "r", Reg)
  \cup Numbered(Over({"bchg", "bclr", "bset", "btst"}, {1}, "s", Mem), {3})
  \cup Over({"bchg", "bclr", "bset", "btst"}, {1}, "r", Mem)
  \cup Over({"btst"}, {1}, "r", LAMBDA z : ByCounter \cup {Value(9)})
  \cup Numbered(Over({"andi", "ori", "eori"}, {2}, "toc", LAMBDA z : {None}), {0, 21, 31})
  \cup Numbered(Over(Ranged, All3, "s", Reg), {1, 3, 4}) \cup Over(Ranged, {2}, "", Mem)
  \cup Over({"mulu", "muls", "divu", "divs"}, {2}, "", Anywhere)
  \cup Over({"ext"}, {2, 4}, "", Reg) \cup Over({"swap"}, {4}, "", Reg)
Targets == {D(3), [None EXCEPT !.mode = "ai", !.r = 3], Pi(3), Pd(3), Di(4, 3), IxW(3), Aw(4), At(20),
            Pi(7), Pd(7)}
Sources == {D(2), Pi(2), Pd(2), Value(9), Pcix, Full(2)}
Moved ==
  UNION {{[Plain EXCEPT !.name = "move", !.z = z, !.form = t.mode, !.ea = s, !.to = t] :
            s \in Sources, t \in Targets} : z \in All3}
  \cup Over({"movea"}, {2, 4}, "", Source) \cup Over({"move"}, {2}, "toc", Anywhere)
  \cup Numbered({[I("moveq", 4, "") EXCEPT !.x = 3]}, {0, 5, 12})
  \cup Over({"movep"}, {2, 4}, "re", LAMBDA z : {Di(2, 2)})
  \cup Over({"movep"}, {2, 4}, "er", LAMBDA z : {Di(2, 2)})
Lists == {{}, {1, 10}, {0, 3, 9, 10}}
Listing(is) == UNION {{[i EXCEPT !.regs = l, !.x = 8] : l \in Lists} : i \in is}
Addressed ==
  Listing(Over({"movem"}, {2, 4}, "re", LAMBDA z : InControl \cup {Pd(2)}))
  \cup Listing(Over({"movem"}, {2, 4}, "er", LAMBDA z : InControl \cup ByCounter \cup {Pi(2)}))
  \cup Over({"exg"}, {4}, "dd", Reg)
  \cup Over({"exg"}, {4}, "aa", ByA) \cup Over({"exg"}, {4}, "da", ByA)
  \cup Over({"st", "sf", "tas"}, {1}, "", Alter)
  \cup {[i EXCEPT !.cc = c] : i \in Over({"scc"}, {1}, "", Alter), c \in {"hi", "le"}}
  \cup {[i EXCEPT !.cc = c] : i \in Over({"scc"}, {1}, "", Reg), c \in Conditions}
  \cup Over({"lea", "pea"}, {4}, "", LAMBDA z : InControl \cup ByCounter)
  \cup Numbered(Over({"link"}, {2}, "", ByA), {0, 248}) \cup Over({"unlk"}, {4}, "", ByA)
Turned1(i, cs) == {[i EXCEPT !.cc = c] : c \in cs}
Flown ==
  UNION {Turned1([I("bcc", z, "") EXCEPT !.q = 6], Conditions) : z \in {1, 2}}
  \cup {[I(n, z, "") EXCEPT !.q = IF z = 1 THEN 6 ELSE 250] : n \in {"bra", "bsr"}, z \in {1, 2}}
  \cup UNION {Turned1([With(I(n, 2, ""), D(2)) EXCEPT !.q = 100], {"eq", "ge"}) : n \in {"dbt", "dbf", "dbcc"}}
  \cup Over({"jmp", "jsr"}, {4}, "", Jumps) \cup {I(n, 4, "") : n \in {"rts", "rtr", "nop", "trapv"}}
  \cup Over({"chk"}, {2}, "", Anywhere)
Once == (Computed \cup Moved \cup Addressed \cup Flown) \ Tried

\* Each is a program of its own.
MCPrograms == {Org :> i : i \in Tried \cup Once} \cup Chains \cup {Counting, Calling, TestCode}

-----------------------------------------------------------------------------
\* The machines.  A2 and A3 point into the memory, A4 is a small index.
NoFlags == [x |-> 0, n |-> 1, z |-> 1, v |-> 1, c |-> 1]
Contents == [b \in 0..(AddressSpace - 1) |-> (7 * b + 3) % 16]
Base == [d |-> [r \in Registers |-> 4660 + 257 * r], a |-> <<0, 0, 16, 24, 6, 40, 50, 28>>,
         mem |-> Contents, pc |-> 0, f |-> NoFlags, trap |-> "none"]
Machine0 == [Base EXCEPT !.a = [r \in Registers |-> Base.a[r + 1]]]
FlagSets == {[NoFlags EXCEPT !.x = 1], [NoFlags EXCEPT !.x = 1, !.z = 0], NoFlags}
Longs == {0, 1, 9, 127, 128, 255, 256, 32767, 32768, 40968, 65535}
BytesHere == {2560 + b : b \in 0..15}
Counts == {0, 1, 3, 4, 5, 8, 9, 16, 17, 20, 31}
Values(i) == IF i.z = 1 THEN BytesHere ELSE Longs
\* Two bytes each, and decimal.
Summands == <<<<0, 0>>, <<0, 1>>, <<2, 2>>, <<0, 10>>, <<10, 0>>, <<10, 10>>, <<5, 6>>, <<1, 9>>>>
MCImages(program) ==
  LET i == program[Org]
  IN CASE program = TestCode -> {[Machine0 EXCEPT !.mem = [b \in DOMAIN @ |-> 0]]}
       [] program \in Chains ->
            {[Machine0 EXCEPT !.d[2] = Parts - 1, !.f = f, !.mem = [b \in DOMAIN @ |->
                IF b \in 14..15 THEN Summands[s][b - 13]
                ELSE IF b \in 22..23 THEN Summands[t][b - 21] ELSE @[b]]] :
               s \in DOMAIN Summands, t \in DOMAIN Summands, f \in FlagSets}
       [] program = Counting -> {[Machine0 EXCEPT !.d[2] = 256 * h + n] : h \in {0, 18}, n \in 0..4}
       [] i \in Tried ->
            {[Machine0 EXCEPT !.d[2] = u, !.d[3] = v, !.f = f] :
               u \in Values(i), v \in IF i.form = "r" THEN Counts ELSE Values(i), f \in FlagSets}
       [] OTHER ->
            {[Machine0 EXCEPT !.d[2] = u, !.f = f] :
               u \in {1, 43690}, f \in {NoFlags, [x |-> 1, n |-> 0, z |-> 0, v |-> 0, c |-> 0]}}
=============================================================================
