--------------------------- MODULE M68kExceptions ---------------------------
(***************************************************************************)
(* Exception processing of the emulated 68000: the two modes and their     *)
(* stack pointers, the frames an exception leaves on the supervisor stack, *)
(* RTE, the privileged instructions, address errors and double faults      *)
(* (m68kcpu.h, m68k_execute in m68kcpu.c, templates of m68k_in.c).         *)
(*                                                                         *)
(* The handlers are sequential C code that a longjmp may leave anywhere in *)
(* a push, so a step is a composition of operators on a record of the      *)
(* CPU's state, whose field "status" says how far it got: what follows is  *)
(* skipped (Then) once it is not "ok" any more.                            *)
(*                                                                         *)
(* The program is any program: at every address every instruction may be   *)
(* found.  Of the registers only A7 is kept.  The vector table stays as it *)
(* is, and the stacks are in the RAM; M68kMemory has the rest of the map   *)
(* and the prefetch.  Addresses have 24 bits, and what the registers and   *)
(* the stack hold above them is left out.  The interrupt line is that of   *)
(* Xosera, whose acknowledge leaves it up; the other source, the NMI, is   *)
(* never raised (M68kInterrupts, MicroSys).  FLAG_M is clear in every      *)
(* 68000.                                                                  *)
(***************************************************************************)
EXTENDS Integers, Sequences

CONSTANTS
  MaxRam,        \* the last address of g_ram
  WordSize,      \* 2^16
  AddressSpace,  \* 2^24
  Handler,       \* the vector table
  TrapVectors,   \* TRAP #n, TRAPV, division by zero
  LineVectors,   \* opcodes of the lines A and F
  Level,         \* the interrupt level of Xosera
  BootSp, BootPc,
  SrValues,      \* what a program may move to the status register
  SpValues,      \* ... and to A7
  Targets,       \* ... and jump to
  DataWords,     \* ... and store
  Opcode,        \* REG_IR, for the frame of an address error
  Program,       \* the kinds of instructions the program has
  PcBound,       \* bound on the addresses it has them at
  SpBound        \* bound on how far its stack strays

Even(a)  == a % 2 = 0
Word     == 0..(WordSize - 1)
ADDRESS_68K(a) == a % AddressSpace
Address  == 0..(AddressSpace - 1)
RamWords == {a \in 0..MaxRam : Even(a)}

User == 0
Supervisor == 4   \* SFLAG_SET

EXCEPTION_ADDRESS_ERROR == 3
EXCEPTION_ILLEGAL_INSTRUCTION == 4
EXCEPTION_CHK == 6
EXCEPTION_PRIVILEGE_VIOLATION == 8
EXCEPTION_UNINITIALIZED_INTERRUPT == 15
EXCEPTION_INTERRUPT_AUTOVECTOR == 24

Vectors ==
  TrapVectors \union LineVectors \union
    {EXCEPTION_ADDRESS_ERROR, EXCEPTION_ILLEGAL_INSTRUCTION, EXCEPTION_CHK,
     EXCEPTION_PRIVILEGE_VIOLATION, EXCEPTION_UNINITIALIZED_INTERRUPT,
     EXCEPTION_INTERRUPT_AUTOVECTOR + Level}

ASSUME ExceptionAssumption ==
  /\ MaxRam \in Nat /\ MaxRam % 2 = 1 /\ MaxRam < AddressSpace - 1
  /\ Level \in 1..6
  /\ TrapVectors \subseteq Nat /\ LineVectors \subseteq Nat
  /\ BootSp \in Address /\ BootPc \in Address
  /\ SrValues \subseteq Word /\ DataWords \subseteq Word /\ Opcode \in Word
  /\ SpValues \subseteq Address /\ Targets \subseteq Address
ASSUME SizesAssumption == WordSize = 65536 /\ AddressSpace = 256 * WordSize
ASSUME TrapAssumption ==  \* 5, 7, 32 to 47; 10, 11
  /\ EXCEPTION_CHK \notin TrapVectors \union LineVectors
  /\ TrapVectors \intersect (LineVectors \union (3..4) \union {8, 15} \union (25..30)) = {}
ASSUME HandlerAssumption == Handler \in [Vectors -> Address]

VARIABLES
  cpu,        \* the CPU and the RAM behind it
  int_level,  \* CPU_INT_LEVEL
  executing,  \* m68k_execute is in its loop: it has set the trap
  process     \* "runs", "exited", or "lost" in undefined behaviour

vars == <<cpu, int_level, executing, process>>

-----------------------------------------------------------------------------
(* The status register and the two stack pointers.                         *)

GetSr(m) == 32768 * m.t1 + 2048 * m.s + 256 * m.mask + m.ccr

\* Mutant: the flag changes before the old stack pointer is backed up.
SetSLate(m, value) ==
  LET backed == [m.base EXCEPT ![value] = m.sp]
  IN [m EXCEPT !.base = backed, !.s = value, !.sp = backed[value]]

SetS(m, value) ==
  LET backed == [m.base EXCEPT ![m.s] = m.sp]
  IN [m EXCEPT !.base = backed, !.s = value, !.sp = backed[value]]

\* Mutant: two of the three bits of the mask.
SetSrNarrow(m, value) ==
  SetS([m EXCEPT !.t1 = (value \div 32768) % 2,
                 !.mask = (value \div 256) % 4,
                 !.ccr = value % 32],
       4 * ((value \div 8192) % 2))

\* Mutant: bits above the mask are not cut off.
SetSrWide(m, value) ==
  SetS([m EXCEPT !.t1 = (value \div 32768) % 2,
                 !.mask = value \div 256,
                 !.ccr = value % 32],
       4 * ((value \div 8192) % 2))

\* m68ki_set_sr_noint; CPU_SR_MASK leaves T1, S, the mask and the flags.
SetSrNoint(m, value) ==
  SetS([m EXCEPT !.t1 = (value \div 32768) % 2,
                 !.mask = (value \div 256) % 8,
                 !.ccr = value % 32],
       4 * ((value \div 8192) % 2))
-----------------------------------------------------------------------------
(* Memory and the stack.                                                   *)

MODE_READ  == 16
MODE_WRITE == 0
FUNCTION_CODE_USER_DATA    == 1
FUNCTION_CODE_USER_PROGRAM == 2

\* n, unless a longjmp or the end of the process came before it.
Then(m, n) == IF m.status = "ok" THEN n ELSE m

\* An access of a word or long.  A long at the last word of the RAM passes
\* the bound check and runs past it.
Access(m, a, bytes, mode, fc) ==
  [m EXCEPT
     !.status = CASE ~Even(a) -> "aerr"
                  [] Even(a) /\ a \notin 0..MaxRam -> "exit"
                  [] Even(a) /\ a \in 0..MaxRam ->
                       IF a + bytes - 1 > MaxRam THEN "lost" ELSE "ok",
     !.aerr = IF Even(a) THEN @
              ELSE [address |-> a, access |-> mode + m.s + fc]]

\* History: a frame that is written over is a frame no more.
Keep(frames, written) ==
  {f \in frames : {f.at, f.at + 2, f.at + 4} \intersect written = {}}

PushWord(m, v) ==
  LET a == ADDRESS_68K(m.sp - 2)
      w == Access([m EXCEPT !.sp = a], a, 2, MODE_WRITE,
                  FUNCTION_CODE_USER_DATA)
  IN Then(m, Then(w, [w EXCEPT !.ram = [m.ram EXCEPT ![a] = v],
                               !.frames = Keep(m.frames, {a})]))

PushLong(m, v) ==
  LET a == ADDRESS_68K(m.sp - 4)
      w == Access([m EXCEPT !.sp = a], a, 4, MODE_WRITE,
                  FUNCTION_CODE_USER_DATA)
  IN Then(m, Then(w, [w EXCEPT !.ram = [m.ram EXCEPT ![a] = v \div WordSize,
                                                  ![a + 2] = v % WordSize],
                               !.frames = Keep(m.frames, {a, a + 2})]))

\* The stack pointer moves before the read; what is read is WordAt or LongAt
\* the old one.
Pull(m, bytes) ==
  Then(m, Access([m EXCEPT !.sp = ADDRESS_68K(m.sp + bytes)], m.sp, bytes, MODE_READ,
                 FUNCTION_CODE_USER_DATA))

WordAt(m, a) == m.ram[a]
LongAt(m, a) == (m.ram[a] % 256) * WordSize + m.ram[a + 2]
-----------------------------------------------------------------------------
(* Exceptions.                                                             *)

\* Mutant: the exception works on the stack of the user.
InitExceptionSameStack(m) == [m EXCEPT !.t1 = 0, !.s = Supervisor]

\* The caller has kept the status register for the frame.
InitException(m) == SetS([m EXCEPT !.t1 = 0], Supervisor)

\* Mutant: the status register goes first.
StackFrameSwapped(m, pc, sr) ==
  LET p == PushLong(PushWord(m, sr), pc)
  IN Then(p, [p EXCEPT !.frames = @ \union
                {[at |-> p.sp, pc |-> pc, sr |-> sr]}])

\* The 3-word frame of the 68000, which is put down in the history.
StackFrame(m, pc, sr) ==
  LET p == PushWord(PushLong(m, pc), sr)
  IN Then(p, [p EXCEPT !.frames = @ \union
                {[at |-> p.sp, pc |-> pc, sr |-> sr]}])

\* An address error leaves four words more, below a 3-word frame.
StackFrameBuserr(m, sr) ==
  PushWord(PushLong(PushWord(StackFrame(m, m.pc, sr), Opcode),
                    m.aerr.address),
           m.aerr.access + m.instr_mode)

JumpVector(m, v) == Then(m, [m EXCEPT !.pc = Handler[v]])

\* Mutant: the status register is read when S is set already.
ExceptionLateSr(m, v, pc) ==
  LET i == InitException(m)
  IN JumpVector(StackFrame(i, pc, GetSr(i)), v)

\* The exception of an instruction; pc is the counter that is stacked.
Exception(m, v, pc) ==
  JumpVector(StackFrame(InitException(m), pc, GetSr(m)), v)

\* The run mode "wsf" is that of a frame being written.  The double fault
\* reads an address without memory, which is exit_error.
AddressError(m) ==
  LET i == InitException([m EXCEPT !.status = "ok"])
      f == JumpVector(StackFrameBuserr([i EXCEPT !.run_mode = "wsf"],
                                       GetSr(m)),
                      EXCEPTION_ADDRESS_ERROR)
  IN IF m.run_mode = "wsf" THEN [i EXCEPT !.status = "exit"]
     ELSE Then(f, [f EXCEPT !.run_mode = "berr"])

\* The return point in m68k_execute, which a second address error reaches too.
Trapped(m) ==
  LET e == AddressError(m)
  IN IF m.status # "aerr" THEN m
     ELSE IF e.status = "aerr" THEN AddressError(e) ELSE e

INSTRUCTION_YES == 0
INSTRUCTION_NO  == 8

ExceptionInterrupt(m) ==
  LET v == EXCEPTION_INTERRUPT_AUTOVECTOR + Level
      i == InitException([m EXCEPT !.instr_mode = INSTRUCTION_NO,
                                   !.stopped = 0])
  IN JumpVector(StackFrame([i EXCEPT !.mask = Level], m.pc, GetSr(m)),
                IF Handler[v] # 0 THEN v
                ELSE EXCEPTION_UNINITIALIZED_INTERRUPT)

CheckInterrupts(m) ==
  IF int_level > m.mask THEN ExceptionInterrupt(m) ELSE m

SetSr(m, value) == CheckInterrupts(SetSrNoint(m, value))
-----------------------------------------------------------------------------
(* The m68k thread between two instructions.  It calls m68k_execute with   *)
(* one cycle, which is spent by the first instruction or address error.    *)

NoError == [address |-> 1, access |-> 0]

\* aerr is set again before it is read again.  What a process that has ended
\* left in its CPU is of no interest.
Becomes(m) ==
  /\ cpu' = IF m.status = "ok" THEN [m EXCEPT !.aerr = NoError] ELSE cpu
  /\ process' = CASE m.status = "ok"   -> "runs"
                  [] m.status = "exit" -> "exited"
                  [] OTHER             -> "lost"

\* m68k_pulse_reset, with what it reads from the boot table.
Reset ==
  /\ process = "runs" /\ ~executing
  /\ LET z == SetS([cpu EXCEPT !.t1 = 0, !.mask = 7, !.stopped = 0,
                               !.instr_mode = INSTRUCTION_YES], Supervisor)
     IN cpu' = [z EXCEPT !.sp = BootSp, !.pc = BootPc, !.run_mode = "normal"]
  /\ int_level' = 0
  /\ UNCHANGED <<executing, process>>

\* m68k_set_irq, by the interrupt controller.
SetIrq(level) ==
  /\ process = "runs" /\ ~executing
  /\ int_level' = level
  /\ UNCHANGED <<cpu, executing, process>>

\* m68k_execute up to its loop.  It has not set the trap yet when it looks at
\* the line: an address error there jumps into a call that has returned.
ExecuteBegin ==
  /\ process = "runs" /\ ~executing
  /\ LET m == CheckInterrupts(cpu)
     IN Becomes(m) /\ executing' = (m.status = "ok" /\ m.stopped = 0)
  /\ UNCHANGED int_level
-----------------------------------------------------------------------------
(* The instructions that use A7 or the status register, jump, or fail.     *)

InRam(a) == Even(a) /\ a <= MaxRam

\* The handler of an instruction leads to m, and m68k_execute returns.
Executes(m) ==
  /\ Becomes(Trapped(m))
  /\ executing' = FALSE
  /\ UNCHANGED int_level

\* The opcode is at an odd address, or not in the RAM.
FetchFails ==
  /\ executing /\ ~InRam(cpu.pc)
  /\ Executes(Access(cpu, cpu.pc, 2, MODE_READ, FUNCTION_CODE_USER_PROGRAM))

MayFetch == executing /\ InRam(cpu.pc)

\* The CPU behind the words of the instruction.
Fetched(words) == [cpu EXCEPT !.pc = ADDRESS_68K(@ + 2 * words)]

Trap(v) ==
  /\ MayFetch
  /\ Executes(Exception(Fetched(1), v, Fetched(1).pc))

\* CHK out of bounds: X stays, Z and N are of the value, before the trap.
Chk(m, flags) ==
  Then(m, Exception([m EXCEPT !.ccr = 16 * (@ \div 16) + flags], EXCEPTION_CHK, m.pc))

ChkFlags == {0, 4, 8}  \* of a positive value, zero, a negative one

\* The bound is in a register, or popped.
ChkRegister(flags) == MayFetch /\ Executes(Chk(Fetched(1), flags))

ChkPopped(flags) == MayFetch /\ Executes(Chk(Pull(Fetched(1), 2), flags))

LineTrap(v) ==
  /\ MayFetch
  /\ Executes(Exception(Fetched(1), v, cpu.pc))

Illegal ==
  /\ MayFetch
  /\ Executes(Exception([Fetched(1) EXCEPT !.instr_mode = INSTRUCTION_NO],
                        EXCEPTION_ILLEGAL_INSTRUCTION, cpu.pc))

PrivilegeViolation ==
  Exception([Fetched(1) EXCEPT !.instr_mode = INSTRUCTION_NO],
            EXCEPTION_PRIVILEGE_VIOLATION, cpu.pc)

\* Mutant: nobody asks for the mode.
PrivilegedUnchecked(m) == MayFetch /\ Executes(m)

\* A privileged instruction that leads to m.
Privileged(m) ==
  /\ MayFetch
  /\ Executes(IF cpu.s = Supervisor THEN m ELSE PrivilegeViolation)

MoveToSr(value) == Privileged(SetSr(Fetched(1), value))

Stop(value) == Privileged(SetSr([Fetched(2) EXCEPT !.stopped = 1], value))

MoveToUsp(a) == Privileged([Fetched(1) EXCEPT !.base = [@ EXCEPT ![User] = a]])

\* RESET reaches the devices, and Xosera's takes the interrupt line down.
ResetInstruction ==
  /\ MayFetch
  /\ Becomes(Trapped(IF cpu.s = Supervisor THEN Fetched(1) ELSE PrivilegeViolation))
  /\ executing' = FALSE
  /\ int_level' = IF cpu.s = Supervisor THEN 0 ELSE int_level

Rte ==
  LET f == Fetched(1)
      p == Pull(Pull(f, 2), 4)
      r == SetSr([p EXCEPT !.pc = LongAt(f, f.sp + 2)], WordAt(f, f.sp))
  IN Privileged(Then(p, Then(r, [r EXCEPT !.instr_mode = INSTRUCTION_YES,
                                          !.run_mode = "normal"])))

\* m68ki_set_ccr: by MOVE to CCR, or by any instruction that sets the flags.
SetCcr(value) == MayFetch /\ Executes([Fetched(1) EXCEPT !.ccr = value])

Rtr ==
  LET f == Fetched(1)
      c == [Pull(f, 2) EXCEPT !.ccr = WordAt(f, f.sp) % 32]
      p == Pull(c, 4)
  IN /\ MayFetch
     /\ Executes(Then(Pull(f, 2), Then(p, [p EXCEPT !.pc = LongAt(c, c.sp)])))

Rts ==
  LET f == Fetched(1)
      p == Pull(f, 4)
  IN MayFetch /\ Executes(Then(p, [p EXCEPT !.pc = LongAt(f, f.sp)]))

Jsr(target) ==
  LET p == PushLong(Fetched(1), Fetched(1).pc)
  IN MayFetch /\ Executes(Then(p, [p EXCEPT !.pc = target]))

Jump(target) == MayFetch /\ Executes([Fetched(1) EXCEPT !.pc = target])

\* A word is moved to -(A7), or from (A7)+ to anywhere but the stack.
Push(v) == MayFetch /\ Executes(PushWord(Fetched(1), v))

Pop == MayFetch /\ Executes(Pull(Fetched(1), 2))

\* UNLK of another register than A7, which holds a: A7 is it, and then a long
\* is pulled into that register.  An odd a is found out only by the pull.
Unlk(a) == MayFetch /\ Executes(Pull([Fetched(1) EXCEPT !.sp = a], 4))

\* A7 as the destination of MOVEA or LEA, and LEA 8(A7),A7, which a handler
\* of address errors needs before it may return.
SetSp(a) == MayFetch /\ Executes([Fetched(1) EXCEPT !.sp = a])

DropAccessWords ==
  /\ MayFetch
  /\ Executes([Fetched(2) EXCEPT !.sp = ADDRESS_68K(@ + 8)])

\* A word or long at an odd address.
OddAccess(mode) ==
  /\ MayFetch
  /\ Executes(Access(Fetched(1), 1, 2, mode, FUNCTION_CODE_USER_DATA))

Instruction ==
  /\ cpu.pc <= PcBound /\ cpu.sp <= SpBound
  /\ \/ "trap"    \in Program /\ \E v \in TrapVectors : Trap(v)
     \/ "line"    \in Program /\ \E v \in LineVectors : LineTrap(v)
     \/ "illegal" \in Program /\ Illegal
     \/ "sr"      \in Program /\ \E v \in SrValues : MoveToSr(v)
     \/ "stop"    \in Program /\ \E v \in SrValues : Stop(v)
     \/ "usp"     \in Program /\ \E a \in SpValues : MoveToUsp(a)
     \/ "reset"   \in Program /\ ResetInstruction
     \/ "rte"     \in Program /\ Rte
     \/ "ccr"     \in Program /\ \E v \in DataWords : SetCcr(v % 32)
     \/ "rtr"     \in Program /\ Rtr
     \/ "rts"     \in Program /\ Rts
     \/ "jsr"     \in Program /\ \E t \in Targets : Jsr(t)
     \/ "jump"    \in Program /\ \E t \in Targets : Jump(t)
     \/ "push"    \in Program /\ \E v \in DataWords : Push(v)
     \/ "pop"     \in Program /\ (Pop \/ DropAccessWords)
     \/ "sp"      \in Program /\ \E a \in SpValues : SetSp(a)
     \/ "unlk"    \in Program /\ \E a \in SpValues : Unlk(a)
     \/ "chk"     \in Program /\ \E f \in ChkFlags : ChkRegister(f) \/ ChkPopped(f)
     \/ "odd"     \in Program /\ \E o \in {MODE_READ, MODE_WRITE} : OddAccess(o)

\* m68k_init and the zeroed CPU; the thread resets it before it executes.
Init ==
  /\ cpu = [s |-> Supervisor, t1 |-> 0, mask |-> 7, ccr |-> 0,
            sp |-> BootSp, base |-> [b \in {User, Supervisor} |-> 0],
            pc |-> BootPc, run_mode |-> "normal",
            instr_mode |-> INSTRUCTION_YES, stopped |-> 0,
            ram |-> [a \in RamWords |-> 0], frames |-> {},
            status |-> "ok", aerr |-> NoError]
  /\ int_level = 0
  /\ executing = FALSE
  /\ process = "runs"

Next ==
  \/ Reset
  \/ \E level \in {0, Level} : SetIrq(level)
  \/ ExecuteBegin
  \/ FetchFails
  \/ Instruction

Spec == Init /\ [][Next]_vars
-----------------------------------------------------------------------------
(* Properties.                                                             *)

UserSp(m)       == IF m.s = User THEN m.sp ELSE m.base[User]
SupervisorSp(m) == IF m.s = User THEN m.base[Supervisor] ELSE m.sp

Frames == [at : RamWords, pc : Address, sr : Word]

Machines ==
  [s : {User, Supervisor}, t1 : {0, 1}, mask : 0..7, ccr : 0..31,
   sp : Address, base : [{User, Supervisor} -> Address], pc : Address,
   run_mode : {"normal", "berr", "wsf"},
   instr_mode : {INSTRUCTION_YES, INSTRUCTION_NO}, stopped : {0, 1},
   ram : [RamWords -> Word], frames : SUBSET Frames,
   status : {"ok", "aerr", "exit", "lost"},
   aerr : [address : Address, access : 0..22]]

\* The types of the variables.  Between two instructions no frame is half
\* written, and only a running CPU is in the loop.
TypeOK ==
  /\ cpu \in Machines
  /\ cpu.run_mode # "wsf" /\ cpu.status = "ok" /\ cpu.aerr = NoError
  /\ int_level \in {0, Level}
  /\ executing \in BOOLEAN /\ (executing => cpu.stopped = 0 /\ process = "runs")
  /\ process \in {"runs", "exited", "lost"}

\* Every frame that was not written over is found in the RAM as RTE reads it:
\* the status register, and the counter above it.
FrameAt(m, f) ==
  /\ {f.at, f.at + 2, f.at + 4} \subseteq RamWords
  /\ m.ram[f.at] = f.sr
  /\ LongAt(m, f.at + 2) = f.pc
FramesIntact == \A f \in cpu.frames : FrameAt(cpu, f)

\* RTE with A7 at such a frame resumes what was interrupted: the counter, the
\* status register and the pointer behind the frame; or, the line being up
\* above the mask it restored, interrupts it again at that very point.
Resumes(f) ==
  /\ cpu'.pc = f.pc /\ GetSr(cpu') = f.sr
  /\ SupervisorSp(cpu') = f.at + 6
InterruptedAgain(f) ==
  /\ int_level = Level /\ cpu'.mask = Level
  /\ f \in cpu'.frames /\ SupervisorSp(cpu') = f.at
RteReturns ==
  [][\A f \in cpu.frames :
       Rte /\ cpu.s = Supervisor /\ cpu.sp = f.at
         => /\ process' = "runs"
            /\ UserSp(cpu') = UserSp(cpu)
            /\ Resumes(f) \/ InterruptedAgain(f)]_vars

\* A program in user mode gets out of it through a vector only.  The frame has
\* its status register, of which CHK has set the flags but X; and the counter
\* behind the instruction after a trap, of an address error at or behind it, and
\* that of the instruction otherwise.  As long as the program stays in user
\* mode, it changes neither mask, nor the other stack pointer, nor stops the CPU.
StackedSr(v) ==
  IF v = EXCEPTION_CHK THEN {16 * (GetSr(cpu) \div 16) + flags : flags \in ChkFlags}
                       ELSE {GetSr(cpu)}
StackedPc(v) ==
  CASE v \in TrapVectors \union {EXCEPTION_CHK} -> {Fetched(1).pc}
    [] v = EXCEPTION_ADDRESS_ERROR -> {cpu.pc, Fetched(1).pc}
    [] OTHER -> {cpu.pc}
Entered ==
  \E v \in Vectors :
    /\ cpu'.pc = Handler[v]
    /\ \E f \in cpu'.frames : /\ f.sr \in StackedSr(v) /\ f.pc \in StackedPc(v)
                              /\ SupervisorSp(cpu) = f.at + 6
Confined ==
  /\ cpu'.mask = cpu.mask /\ cpu'.t1 = cpu.t1 /\ cpu'.stopped = cpu.stopped
  /\ SupervisorSp(cpu') = SupervisorSp(cpu)
UserConfined ==
  [][cpu.s = User /\ process' = "runs" /\ ~Reset
       => IF cpu'.s = User THEN Confined ELSE Entered]_vars

\* An odd address in user mode, of a counter, a stack or an operand, is an
\* exception and nothing worse, if the supervisor's stack has room for it.  What
\* UNLK loads is a stack too.
Room == /\ Even(SupervisorSp(cpu))
        /\ SupervisorSp(cpu) \in 14..(MaxRam + 1)
OwnAccessesInRam ==
  /\ ~Even(cpu.pc) \/ cpu.pc <= MaxRam
  /\ ~Even(cpu.sp) \/ cpu.sp \in 4..(MaxRam - 5)
  /\ \A a \in SpValues : ~Even(a) \/ a + 3 <= MaxRam
UserErrorsCaught ==
  [][executing /\ cpu.s = User /\ Room /\ OwnAccessesInRam
       => process' = "runs"]_vars

\* The pointers of the two modes are kept apart.
Pointers == INSTANCE StackPointers WITH
  usp <- UserSp(cpu), ssp <- SupervisorSp(cpu), supervisor <- (cpu.s = Supervisor)
PointersApart == Pointers!Spec

\* A double fault halts the CPU (comment in m68kcpu.h).
DoubleFaultHalts ==
  [][Illegal /\ cpu.s = Supervisor /\ ~Even(cpu.sp)
       => process' = "runs" /\ cpu'.stopped # 0]_vars

\* An address error comes back to the m68k_execute that met it (comment in
\* m68kcpu.c).
AddressErrorsReturn ==
  [][ExecuteBegin /\ ~Even(SupervisorSp(cpu)) => process' # "lost"]_vars
=============================================================================
