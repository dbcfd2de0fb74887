# A TLA+ model of microsys

microsys is a small 68000 computer with the Xosera video controller.  The
repository holds the RTL top level (`rtl/`), a simulator that clocks the
Verilated RTL next to a software 68000 (`sim/`), and a test program
(`src/test/test.asm`).  This directory models the simulator, where all of the
system's own control lives: two threads, one lock, a handful of plain flags, a
strobe counter and an interrupt line; the 68000 it runs, with its exceptions and
its instruction set; and the test program.

Every definition is translated from the sources under `src/`.  `PROJECT.json`
maps each one to its lines.

## Inventory

| Part | State | Operations | Interacts through |
|---|---|---|---|
| main thread (`sim_main.cpp`, `main`, `process_sdl_events`) | place in the loop, `quit`, `manual_reset`, `was_loaded`, the time, frame buffer position, `timer_100hz` | pause, load and (re)start the CPU thread, sample the interrupt, drive the reset line, clock the design twice, handle events, capture the pixel, count the strobe down, stop | `top_m`, the flags, the strobe counter, thread start and join, the pins |
| m68k thread (`m68k`) | place in the loop | pause, reset the CPU, serve an interrupt request, execute one instruction | the same flags, the interrupt controller, Musashi |
| Xosera bus driver (`xosera_device_read`, `xosera_device_write`) | the pins, `assert_xosera_strobe_counter` | a synchronous read, a posted write | `top_m` for the pins, nothing for the counter |
| interrupt controller (`int_controller_*`) | `g_int_controller_pending`, `g_int_controller_highest_int` | set, clear | `m68k_set_irq` |
| CPU interrupt path (`m68kcpu.c`, `m68kcpu.h`) | interrupt level and mask, NMI latch, STOP, reset cycles | set the pins, check, take an exception, pulse reset | the acknowledge callback |
| memory map (`cpu_read_*`, `cpu_write_*`) | `g_ram`, `is_booting` | decode, access, fail | the bus driver, `exit_error` |
| exceptions and modes (`m68kcpu.h`, `m68kcpu.c`) | A7 and the bank of the other mode, the status register, run mode, the address error trap | take an exception, RTE, the privileged instructions, recover from an address error | the RAM (frames), the vector table, the interrupt line |
| instruction set (`m68k_in.c`, generated into `m68kops.c`) | D0-D7, A0-A7, the counter, five flags | one handler for each template and addressing mode | the memory, the exceptions |
| Xosera | external (a submodule that is not in the tree) | sample the pins on a clock edge, drive `xosera_intr` | the pins |
| RTL top, PLL | none | wiring | the pins |
| test program | its registers and stack | handshake, clear screen | the registers of Xosera |
| disassembler (`m68kdasm.c`) | none but its place | the size and the text of an instruction | `exit_error`, which lists the instruction that failed |
| opcode table generator, FPU, PMMU, soft float | vendored; build-time, or unreachable for a 68000 | | |

What is hard here is the concurrency.  `is_m68k_reset`, `is_m68k_running`,
`is_m68k_irq` and `g_is_paused` are plain `bool`s that both threads use without
the lock.  The counter is atomic but is tested, decremented and tested again in
three steps.  A read lowers the chip select under the lock and arms the counter
after it has released it.  A reload kills an instruction in the middle of a bus
access.  Main clocks nothing while it joins the CPU thread.  And an interrupt
request is a flag that is lowered before the CPU has looked at the line.

In the CPU it is the unwinding: a handler is sequential C code, and an odd
address leaves it by `longjmp` from anywhere in a push, an exception's own push
included.  And it is arithmetic: flags are bits of whatever value is at hand, C's
ints are wider than a byte and no wider than a long, and shifts by 32 or a
division of the smallest long by -1 are undefined in C.

What makes each part correct:

* bus driver: every access reaches Xosera exactly once and unmixed with another
  one, with a full strobe; a read takes its own answer; every access ends;
* main and the m68k thread: RAM is overwritten only while nothing executes; a
  new program starts with a CPU reset, a requested reset comes promptly; no
  deadlock between the join and the strobe wait; quitting ends the process;
* interrupts: the pins agree with the controller; a request of the old program
  never interrupts the new one; a stopped CPU is woken;
* memory map and prefetch: an access stays in the RAM; what is executed is what
  the RAM holds; a reset takes its vectors from the boot table and the first
  instruction from the program that was loaded;
* video capture: a picture is one whole frame, each pixel in its place, and
  every frame is taken once; after a reset the capture finds the frame again;
* 68000 exceptions: `rte` resumes exactly what was interrupted; user mode is left
  through a vector only; the stack pointers of the two modes are kept apart; an
  odd address in user mode is an exception and nothing worse;
* instruction set: results and flags are those of integer arithmetic, one bit or
  one digit at a time; an instruction changes what it names and nothing else;
  what several instructions do together (chains of `addx`, loops, subroutines)
  comes out right; handlers and disassembler agree on every length;
* test program: the whole screen is cleared, and the stack is where it was.

## Modules

| Module | What it is |
|---|---|
| `M68kInterrupts` | the interrupt controller, the interrupt pins of the CPU and the check that takes an interrupt, as operators on their variables |
| `XoseraBus` | the abstract register bus: present, perform, withdraw, and what a reset and a shutdown may do to an access |
| `MicroSys` | the two threads, the pins and Xosera; extends `M68kInterrupts`; states the properties and the refinement of `XoseraBus` |
| `MicroSysInvariant` | the inductive invariant `Inv`, in seven named parts |
| `MicroSysProofs` | the proofs: the types, one lemma for each step and part of `Inv`, the theorems |
| `MCMicroSys` | the small instances TLC checks |
| `VideoCapture`, `VideoCaptureProofs` | how main turns Xosera's pixels into pictures; its invariant, properties and proofs.  Its instance needs nothing but numbers, so it has no MC module |
| `M68kMemory`, `MCM68kMemory`, `M68kMemoryProofs` | the memory map and the prefetch queue: what the CPU finds at an address, over resets, reloads and stores |
| `StackPointers` | the abstract specification of the two stack pointers: which steps may move which |
| `M68kExceptions`, `MCM68kExceptions`, `M68kExceptionsProofs` | modes, stack frames, exceptions, RTE, address errors; implements `StackPointers` |
| `M68kValues` | sizes, the highest bit, signed values, flags, conditions |
| `M68kArithmetic`, `M68kDecimal`, `M68kLogic`, `M68kShifts` | what the handlers compute, as operators from operands and flags to a result and flags |
| `M68kOperands`, `M68kMachine` | registers, memory and addressing modes; the forms the handlers have in common |
| `M68kComputing`, `M68kBits`, `M68kMoving`, `M68kFlow` | the handlers, one action for each template |
| `M68kDisassembler` | how many words the disassembler reads |
| `M68kProgram` | `m68k_execute` on a program; the properties of the instruction set |
| `M68kHandlersProofs`, `M68kProgramProofs` | that this is integer arithmetic, for every width, and what every handler changes; the types, destinations, lengths and results of every program |
| `TestProgram`, `TestProgramProofs` | `test.asm` on that CPU, with Xosera's registers; that it clears the screen, on every machine |
| `M68kRoutines`, `M68kRoutinesProofs`, `MCM68kProgram` | programs that put the instructions to work (a chain, a loop, a subroutine; they are not in the repository), and the machines TLC runs them on |

The models share no variable.  `MicroSys` abstracts an instruction to its bus
accesses, `M68kMemory` says where an access goes, `VideoCapture` is the other
half of main's iteration, which nothing else reads; `M68kExceptions` keeps what
an exception saves, and `M68kProgram` everything an instruction computes with
between two exceptions.

### MicroSys and the code

One step reads or writes shared data once.  Main's iteration under `top_m` is
split at every access to data the m68k thread uses without the lock; the m68k
thread's own locked sections are short enough to be one step each, so `mpc \in
MainLocked` is the lock.

| `mpc` | `main` in `sim_main.cpp` | | `cpc` | m68k thread |
|---|---|---|---|---|
| `top`, `paused` | 565-570 | | `loop`, `pause` | 403-406 |
| `check`, `join`, `load` | 572-595 | | `testReset`, `reset` | 410-416 |
| `lock` | 597-600 | | `testIrq`, `irq` | 417-424 |
| `reset` | 608-631 | | `execute`, `instruction`, `end` | 425-433 and `m68k_execute` |
| `frame` (events) | 633-701 | | `readWait` ... `readData` | `xosera_device_read` |
| `strobe`, `dec`, `release` | 703-710 | | `writeWait`, `writeDrive` | `xosera_device_write` |
| `eval` | 713-715 | | | |
| `exit`, `final` | 718-732 | | | |

What an instruction does inside the CPU and the RAM is abstracted away: it makes
up to `MaxAccesses` bus accesses, and may load the status register, stop,
execute RESET, or touch an address outside the memory map, which ends the
process.  The stack frames of exceptions are taken to lie in RAM.  The end of
the process is modelled at the call of `exit_error`: what the other thread does
while `exit` runs is not.

Xosera's sources are not in the tree.  `XoseraEdge` is what the simulator relies
on: it samples the pins on a rising edge, starts an access when it sees the chip
select go down, does nothing in reset, and drives its interrupt output.

`torn`, `served`, `width`, `excused`, `late`, `needReset`, `flagFresh` and
`serviceFresh` are history variables.  No guard reads them.  `torn` says that the
access on the pins replaced another one there, and stays until the next access;
`excused`, that it has met a reset of Xosera.

### VideoCapture and the code

A step is one iteration of main (597-715): the pixel on the outputs is captured
(634-656), the reset line set (619-631) and the design clocked.  `pixel_index`
counts pixels, the source bytes.  Xosera is external: out of reset its beam goes
round a frame and `vga_vsync` is low at its end; where it starts is open.  The
pixels carry their place and frame, so that a texture tells where each one was
drawn.  `aligned` and `taken` are history.

### M68kMemory and the code

| Action | Code |
|---|---|
| `BeginReset`, `BootFetch`, `EndReset` | `m68k_pulse_reset` with `is_booting` |
| `BeginInstruction`, `FetchExtension` | `m68k_execute`, `m68ki_read_imm_16`, `m68ki_read_imm_32` |
| `OpcodeAddressError`, `AddressErrorEnds` | the address error trap of `m68kcpu.h` |
| `EndInstruction` | the end of `m68k_execute` |
| `Jump` | branches, jumps, vectors |
| `ReadData`, `WriteRam`, `WriteXosera` | `cpu_read_byte` ... `cpu_write_long` |
| `OpcodeFaults`, `ExtensionFaults`, `AccessFaults`, `LoadFails` | `exit_error` |
| `Load` | main, 572-595 |

The accesses, their addresses, their data and the targets of jumps are inputs,
so any program is covered; `process` tells whether `exit_error` exited or was
lost in the disassembler: the few bytes behind `g_ram` can be read, an address far
outside cannot.  The fifth word of the boot table and the bytes
behind `g_ram` are undefined in the code: a read of them returns anything, and a
write behind `g_ram` is taken to change nothing else (`g_fc`, declared next, is
never read).  `dirty` is history.

### M68kExceptions and the code

A step is one call the thread makes, or one instruction: the interrupt line
(`SetIrq`), a reset (`Reset`), the start of `m68k_execute` with its check of the
interrupts (`ExecuteBegin`), an opcode fetch that fails (`FetchFails`), and
`Instruction`.  Since a `longjmp` may leave a handler anywhere, a step is
composed of operators on a record of the CPU: `PushWord`, `StackFrame`,
`JumpVector`, `SetSr`, each named after its function.  The field `status` says
how far it got; `Then(m, n)` is `n` unless the status is not `"ok"` any more.
`Trapped` is the branch of `setjmp` in `m68k_execute`, which takes an address
error, and ends the process if that meets another one.

The program is any program: at every address each of the kinds of instruction in
`Program` may be found.  Of the registers only A7 is kept.  `frames` is the
history of the frames stacked and not yet written over.  The vector table is a
constant, the stacks lie in the RAM.  Two instructions stand out: CHK sets flags
before it traps, so the frame does not have the status register the instruction
began with, and UNLK loads A7 and then pulls, so an odd value is in A7 when the
address error comes.

### The instruction set and the code

`m68kmake` writes one handler for every addressing mode of a template of
`m68k_in.c`; nearly all of `m68kops.c` is such text.  An action stands for the
handlers of one template and size that the opcode table has for the 68000, and is
named after it: `add_8_er` for `m68k_op_add_8_er_d` to `m68k_op_add_8_er_i`.  Its
map entry names all of its handlers.  `Does(i, names, size, form, modes)` is the
opcode table: which handler this instruction leads to, in which addressing modes.
The shapes handlers share (`Er`: register with operand to register, `Re`,
`Imm`, `Unary`, ...) take the operation as a parameter; the operations are in
`M68kArithmetic` and its neighbours.

An instruction is a record: name, size, form, operands, and an immediate value,
condition or register list.  The program maps addresses to instructions and lies
apart from the data memory; how opcodes are encoded is left out, and how words
are fetched is in `M68kMemory`.  The counter runs over every extension word.

The emulator keeps a flag as a bit of some value: carry in bit 8 of any int, zero
as a value that is not zero.  The models keep the flag as what its macro reads,
and compute it where the handler does and from the same bits: from the ninth bit
of a byte's sum, but from three sign bits for a long, which fills the int.

The width of a byte, word and long is a parameter (`Half`, `ByteBits`), as is
the base of the decimal digits; no handler depends on it otherwise.  `IsOperand`
and `IsInstruction` say what the fields of an opcode and its extension words can
hold; every program satisfies them, at addresses that are longs
(`ProgramAssumption`).

`TestProgram` is `test.asm` line by line.  Branches take a word there (the
assembler's optimisations are left out).  Xosera is external: its registers are
bytes of the memory, a write to the low byte of `XM_DATA` puts a word on the
screen, and at first it may ignore writes, which is what the program's handshake
is for.  `TestAssumption` says that its values fit where the source puts them, and
`ScreenCleared` is about a stack in the RAM below Xosera with room for six longs,
which the stack of the boot table is.  A number of `M68kRoutines` is not longer
than the address space (`PartsAssumption`).

## Runs

| Run | Question | Bounds |
|---|---|---|
| `bus` | is the register bus safe, and does it implement `XoseraBus`? | the strobe of the source (4), two accesses per instruction, a read and a write of different registers, all events |
| `irq` | do interrupts and resets stay in their own run of the program, does a requested reset arrive, does a stopped CPU wake? | masks 0 and 7, both interrupt levels, F1 and quit, strobe of 2, one access |
| `live_bus` | does every access end, a held button load, a quit end the process? | strobe of 2, one access, all events |
| `video` | is every picture whole, is every frame taken, does the capture recover? | frames of 5 pixels, 2 of them in the sync, a buffer of 5, one more reset |
| `memory` | does the CPU execute what the RAM holds, and does a reset get its vectors? | 10 bytes of RAM, a window of two registers between two holes, one store, two programs |
| `exceptions` | do frames stay intact, and does `rte` resume what was interrupted? | 14 bytes of RAM: two frames and a word; every trap and privileged instruction; interrupts and resets at any moment |
| `returns` | is user mode left through a vector only, with what it had in the frame? | 8 bytes of RAM: a frame and a word; traps, CHK, UNLK, returns, pushes and subroutines over the frames, the mask open in user mode |
| `address_errors` | is an odd address in user mode an exception and nothing worse, and are the stack pointers kept apart? | 16 bytes of RAM: the long frame and a word; odd counters, stacks, operands and UNLKs, the mask open and closed |
| `program` | are results and flags those of integers, does nothing else change, do routines and `test.asm` come out right? | bytes of 4 bits, 64 addresses, digits of base 3, one program for each handler, addressing mode and value |
| `quit_before_f1` | violated: quitting before F1 was ever pressed | |
| `dropped_request` | violated: a request that is taken is executed | |
| `error_outside_ram` | violated: `exit_error` exits | as `memory` |

The bounds.  The protocol has one access in flight and one on its way, so two
accesses per instruction show every pair (read or write, after read or write).
A strobe of two ticks is the shortest the assumptions allow and already has a
tick before the last one; the run `bus` uses the length of the source.
`BootTicks` stands for the four iterations (times 2 to 8) the reset line is
high after the start.  `served`, `width` and `late` are counted up to the first
value the properties exclude.

In `video` the buffer has the size of a frame, as in the source for a mode of
800 by 525; the index then wraps at the end of a frame that the sync did not
end.  Three pixels before the sync and two in it are enough for a first, a
middle and a last one of each kind.  In `memory` ten bytes are the least that
holds the address behind the boot table; one store reaches every position
against the queue, and the resets, reloads, fetches and jumps are not bounded.

In the three runs of `M68kExceptions` the RAM holds what the question needs:
two nested frames and a word below them, or the long frame of an address error
and a word.  The program is not bounded, but for the addresses it has
instructions at (`PcBound`) and how far its stack may stray (`SpBound`); each
run has the instructions that its question is about, since all of them together
would multiply without meeting.  Status registers are those of user and
supervisor with the mask open or closed.

In `program` a byte of four bits has carries, signs and half of them extended
like one of eight, and small enough to try all pairs; words and longs are tried
around 0, the sign and the end.  Counts of shifts go past every operand.  Chains
are two bytes long, the screen of the test program three characters (2400 in the
source); both loops are those of the code, and the theorems `ChainsAdd` and
`Cleaning` have chains of any length and screens of any size.

`Inv`, `CaptureInv` and `QueueInv` were checked too, before they were proved.

### Findings

* `quit_before_f1`: `m68k_thread` is null until F1 is pressed.  The join inside
  the loop is guarded, the one after it is not, so closing the window first
  joins through a null pointer.
* `dropped_request`: the interrupt branch lowers the flag, raises the line for
  one call of `m68k_execute` and lowers it again.  If the CPU masks the level,
  or that call only eats the cycles of a reset, the request is lost, though the
  comment says "Execute interrupt".
* `error_outside_ram`: a program that jumps out of the RAM, the most common crash,
  makes `exit_error` disassemble an instruction outside `g_ram`; the second call
  of `exit_error` returns, by its guard, to a read of the array at that address.
  Just behind the array that goes well, far outside it does not.

Five more were met while modelling and have no run of their own.

* A long at the end of the RAM: `cpu_read_long` and `cpu_write_long` compare only
  the first address with `MAX_RAM`.  A long at `0xffffe`, which a 68000 may well
  access, reads or writes two bytes behind `g_ram`.  `StaysInRam` of
  `M68kMemory` excludes it, and does not hold.
* A double fault: the comment in `m68ki_exception_address_error` says "Halt the
  CPU", but before it does so it reads an address outside the memory map, which
  ends the process.  `DoubleFaultHalts` of `M68kExceptions` does not hold.
* A stale trap: `m68k_execute` checks the interrupts before it sets its trap for
  address errors.  With an odd supervisor stack pointer the frame's push jumps
  into a call that has returned.  `AddressErrorsReturn` does not hold.
* `test.asm` says 80 by 25 characters next to 2400, which is 80 by 30.
* The disassembler reads full extension words for every CPU type, which the 68000
  does not have: the size it returns is then not that of the instruction.
  `LengthsAgree` leaves these out.

### Fairness

`WF` on each thread: the operating system schedules both.  `SF` on the locked
steps of the m68k thread: main releases `top_m` and takes it again at once, so
weak fairness would allow the thread to find it taken for ever.  `std::mutex`
promises nothing; the code depends on the scheduler here, and `AccessCompletes`
is false without it: starvation on the lock is assumed away, not excluded.  Events are never fair.  While the window is out of focus
main clocks nothing, and the liveness properties excuse that.

In `VideoCapture`, `WF` on the iteration: main goes round its loop.  Resets are
never fair, and `Recovers` excuses a frame that one interrupts.

## Proofs

`MicroSysProofs` proves for every strobe length from 2, every boot time, and
every set of accesses, masks, levels and events the assumptions of `MicroSys`
allow:

* `TypeCorrect`, `Invariance`: the types and `Inv`, inductive together;
* from `Inv`: `SelectFollowsCounter`, `NoTornSample`, `ExactlyOnce`,
  `FullStrobe`, `ReadAnswered`, `LoadsAlone`, `PromptReset`, `ResetBeforeRun`,
  `ControllerInSync` and the action property `NoStaleInterrupt`;
* `ImplementsBus`: `Spec => Bus!BusSpec`.

The argument.  `SelectFollowsCounter` is not inductive: a decrement below zero,
or a release between the chip select and the arming of a read, would break it.
`StrobeInv` adds that a thread that was not told to stop drives the pins only
with the counter at zero, which excludes both.  A thread that was told to stop
does not wait, and its access lies torn on the pins; `TornInv` says that until it
meets a reset of Xosera (`Mixed`) it has its whole strobe ahead, and `ThreadInv`
that main is between the order to stop and the end of the first iteration after
the load, with F1 still down.  So the reset line is high at the next edge, before
Xosera sampled it once.  But the access stays on the pins, and F1 may be released
in that very iteration: Xosera, just out of reset, then performs it, as an access
of its own.  `NoTornSample` says that this is all that can happen: a sample out
of reset never takes it for the rest of the access it replaced.
`DeviceInv` ties what Xosera has sampled to what is left of the counter: an
access with `k` ticks left was sampled `StrobeLen - k` times, one less around
the decrement.  `LineInv` and `FreshInv` carry the origin of a request from the
flag to the line: an old one can only be served by the call that eats the reset
cycles.  `ResetInv` says an instruction begun after a reset was asked for can
only be the one that was due.

In the refinement, `ReadDrive` and `WriteDrive` present an access, or replace one
when the thread was told to stop; the release of the strobe withdraws it; a
clock edge performs it, resets the device or lets it out of reset; stopping and
starting the thread close and reopen the bus.  The abstract access is torn until it meets a reset
(`Mixed`).  All other steps stutter.

`VideoCaptureProofs` proves `TypeOK`, `CaptureInv`, `PictureWhole`,
`RestFromFrameBefore` and `OnePictureEach` for every frame, sync and buffer size
with a frame that fits the buffer.  `TypeOK` alone says that no pixel is written
outside the buffer, whatever the syncs do.  `CaptureInv` is needed because a
picture is only as good as every write since the frame began: once Xosera has
drawn from the start of a frame, main's index is the place of the beam, its flag
is one iteration behind the sync, and the buffer holds this frame up to the beam
and the one before from there on.

`M68kMemoryProofs` proves `TypeOK`, `QueueInv`, `FetchIsCurrent`, `BootVectors`
and `FirstWordCurrent` for every memory map, boot table, program and sequence of
accesses.  `QueueInv` says that the queue holds the word at its address unless
that was overwritten since, and follows a reset word by word: the queue is
invalid, then one word of the table ahead, and at the end it holds the undefined
fifth word, of address 8.  That it is never executed follows because the table's
entry point is another address (an assumption: it is `0x2000`).

`TypeOK` by itself is the theorem `MemoryTypes`.

`M68kExceptionsProofs` proves `TypeOK`, `FramesIntact` and `RteReturns` for every
size of the RAM, vector table, program, and whatever it moves to A7 and the
status register.  The invariant is `Inv`: the types and `Good`, which says that
every frame in the history is in the RAM as it was stacked, and that its status
register is one that fields can make up.  The latter is why RTE can be exact:
bits that the status register does not have were never stacked, so setting the
fields from the word gives the word back (`SrRange`).  A step is a composition of
operators, so there is a lemma for each operator that it keeps `Good`, whatever
its status, and a step needs no more than the lemmas of its operators.  A push
may write over frames; `Keep` drops those, and the words of the others lie
elsewhere.  `RteReturns` adds what `SetSr` does when the line is up above the
mask restored: a second frame at the very place of the first, with the same
contents.

`M68kExceptionsProofs` goes on from there and proves `UserConfined`, the
refinement `PointersApart` and `UserErrorsCaught`. Nothing is added to `Inv`; a
handler is taken apart by what it may do to the two modes. It is `Ordinary` and
keeps the mode and the bank, or it is the supervisor's (`Supervised`), or it
leaves by an exception (`Left`), and an address error makes an ordinary one
`Left`; `Moded` says what all three do, and both `UserConfined` and the
refinement follow from it. `UserConfined` is exact about the frame: its status
register is the user's, but for the four flags CHK sets before it traps
(`StackedSr`), and its counter is that of the instruction or the one behind it,
as the vector has it (`StackedPc`). An exception out of the middle of an
instruction finds the user's pointer within a long of what it was, with one
exception, for which `StackPointers` has `EnterOdd`: an UNLK of an odd value,
which leaves the user's pointer odd when the address error comes. Two points of
the code are needed. RTR loads the condition codes after its first pull, and what
is odd faults there, so the exception stacks what RTR began with. A frame that
cannot be stacked leaves an odd stack pointer, so the second address error ends
the process and never comes back half done. For `UserErrorsCaught`, `Harmless`
says of what a handler leaves in user mode that it is fine or an address error,
with the bank untouched and no frame half written; `OwnRoom` adds the even
supervisor's pointer with room for 7 words.

`M68kHandlersProofs` begins with the arithmetic, and proves for every width of a
byte, a word and a long what the properties of the instructions rest on:

* `SumExact`, `DifferenceExact`: the result is the integer one cut to the size,
  carry is what was cut off, and overflow says that the signed result does not
  fit, though the handler only looks at three sign bits;
* `ComparisonDecides`: after a comparison the conditions `eq`, `hi`, `cc`, `ge`
  and `gt` say of the operands what their names say;
* `ChainCarries`, `ChainBorrows`: one more `addx` or `subx` keeps a sum or a
  difference of any length exact, with X as its carry and Z telling of all parts.

They rest on `Bits2`: a value between minus one and two times the modulus has the
bits that its quotients by the two powers say (`DivIs`).

It goes on, and with it `M68kProgramProofs`, to prove, for every program, every
machine it starts on, every width of a byte and every size of the memory:

* `MachineTyped`: `TypeOK`; no handler leaves a value wider than its register or
  its byte, or a flag that is none;
* `Destinations`: `OnlyDestination`; an instruction changes the registers and as
  many bytes as it names, of a data register the part of its size only, and the
  flags and X if it is to;
* `Lengths`: `LengthsAgree`; the counter moves over the words that the
  disassembler reads, or goes where the instruction says, and a call pushes the
  address behind itself;
* `Arithmetics`: `ArithmeticExact`; sums, differences, comparisons, chains with X
  and decimals are exact, with their flags;
* `Products`: `ProductsExact`; products fit their long, quotients are towards zero
  with the remainder they leave, and V says that the quotient does not fit, but of
  the smallest long by -1, where DIVS leaves 0 with Z set and V clear;
* `Shifts`: `ShiftsStepwise`; a shift or rotation by any count leaves the value and
  the flags that as many by one place leave.

The invariant, `IInv`, is small: the types, and that the code is a program.  The
work is in the handlers, of which there are two hundred.  `Stepped` says
what finding operands does to a machine: the counter moves by the extension
words, registers of `(An)+` and `-(An)` move, and nothing else; findings compose
(`SteppedOn`).  `Changed` says what a whole instruction does.  The handlers are
sorted by shape (`ErHandlers`, `ReHandlers`, ...): a lemma `...Is` brings those of
one shape into one form, with the operation a parameter (`Op`), and a lemma
`...Right` proves of that form all a step must satisfy (`Right`).  `OpTyped` has
the operations: bits add up to less than a power of two, a shift is masked,
quotients and digits fit.  Two facts are less obvious: a result in the low part
of a register leaves the quotient by the modulus alone (`PartReplaced`), and what
a push writes is read back, byte order and wraparound included (`ReadAgain`),
which is how a call's return address is known.  For `ArithmeticExact`, `Computes`
says that what a handler leaves is `Op` of the operands as the property names
them; then `OpSums` and `AbcdExact`, `SbcdExact` and `NbcdExact` compare `Op` with
the integers and the decimal numbers.  Downwards in memory that takes care: the
property reads the destination at the register's final value, which is moved twice
when both predecrements are of one register (`MmComputes`).

`ProductsExact` rests on `DivisionIs`: the handler divides magnitudes and puts the
signs back, which is the quotient towards zero; a signed product is bounded by the
square of half a word, and what fits a word comes back from it (`SignedBack`).  The
smallest long by -1 has a case of its own in the handler and in the property
(`SmallestIs`).

`ShiftsStepwise` compares two recursions: that of the property, and the
powers of two the handlers shift by.  `BitByBit` is a walk, and any function that
begins there and takes the same steps is that walk (`StepsLead`).  Such a function
is the handler's result by k places: by 0 it is where the walk begins (`ZeroSteps`),
and one place more is one step more (`StepMore`), which is proved of each of the
eight operations from a form without cases: `LsrIs`, `AsrIs`, `LeftStep`, and
`TurnStep` for the rotations, whose circle closes at the size (`TurnWhole`), and one
bit later with X in it (`RoxrStep`, `RoxlStep`).  Of `asl`, V says that
the bits passed by are not all the same, and the step sets it when the sign changes:
`SignsPassed`.

`M68kRoutinesProofs` is about programs of several instructions, and proves
`RoutinesRight` (the theorem `Routines`) in its three parts, for every machine they
start on:

* `Counts`: `CountsRight`; DBF goes round once more than the word in its register
  says, and leaves the rest of the register alone;
* `Subroutines`: `CallsRight`; the subroutine gives its caller all registers and
  the stack back, wherever the stack is;
* `ChainsAdd`: `ChainsRight`; a chain of ADDX, SUBX, ABCD or SBCD with DBF between
  its parts leaves the sum or the difference of the whole numbers, for any number
  of parts.

Here the counter is part of the invariant: `CountInv`, `CallInv` and `ChainInv` say
what the registers, the stack and the numbers hold at each line, and there is one
lemma for a line.
What a line's handler does is brought into the form `Becomes`: the registers, the
memory and the counter afterwards.  The stack is what takes care: addresses go
around the address space, so `StackAt(k)` is the address k bytes below the stack
of the beginning, `OnStack(k)` the long there, and `Clear` says when a write does
not touch it; `StillSaved` is why the frame survives what the subroutine stores
through its frame pointer.  `StoreAllIs` and `LoadAllIs` say of MOVEM, which goes
down in one order and up in the other, that both give a register the same place.

Of a chain, `Standing(name, n)` says what n parts have done: both registers are n
bytes down, around the address space if need be; the bytes to come are untouched;
what the low n digits of the result leave of those of the operands is X, times the
weight of the next digit (`LeftOver`); and Z says that they are all 0 and that Z was
set before.  `ChainPart` makes n one more.  Its arithmetic is `OneDigitMore`, for
which `BinaryPart` and `DecimalPart` bring the digits of `addx.b` and of `abcd` to
one form, `PartDone`.  Its other half is that a byte written is none of those still
to be read: a number fits the address space, so its own bytes stay apart when they
go around it, and no byte of the result lies on one of the source that is yet to
come, though the numbers may overlap otherwise (`Chainable`, `PartsApart`,
`ByteKept`).  A decimal chain needs bytes that are decimal before it starts, and
since the bytes to come are untouched, they still are when their part comes.

`TestProgramProofs` proves `ScreenCleared` as the theorem `Cleaning`: on every
machine whose stack is in the RAM below Xosera with room for six longs, the test
program leaves a full screen, the stack and `d2` to `d4` as they were and the RAM
above the stack alone.  Its invariant, `ClearInv`, has a `Phase` for each line.  On
the lines of the two waits nothing is on the stack or the screen (`Waits`), and the
lines after them push (`Given`).  In the subroutine `Framed` says where the frame
is and what the six longs on it are: `Stacked(24)`.  In the loop (`Round`) there is
a number n of characters on the screen, and `d3`, `d4` and the register that
addresses the screen agree with it; the loop is left when n is all of them.  What
takes care is that Xosera's registers are memory: a write to them must leave the
stack alone (`BeneathXosera`), a push must leave what is above the stack alone
(`AboveStack`), and a `movep` writes every other byte.  Xosera may ignore writes
as long as it is not ready, and the handshake then goes around once more
(`UnreadyBecomes`).

That a block of writes changes no
more bytes than it has is a count of distances modulo the address space
(`RunsBytes`).

The powers of two, the bits of a number and the shifts are recursive functions.
What they give for every argument is proved by induction: `Induction` states it
for a set of numbers, from the least number of a set (`Least`), and each
recursion is shown to have a solution first (`Pow2Below`, `Pow2Unique`, and
`WeightsAre` and `NumbersAre` for the numbers of a chain).

Model-checked only: the liveness properties, since liveness under fairness is out
of the prover's reach, and the findings, which are violations.  So every invariant
and every action property of a run is proved.

## Not modelled

* The 100 Hz timer, the wall clock and the drawing of the window.
* Of the 68000: `move` from the status register; cycle counts; trace
  exceptions, since the emulator is built without tracing (T1 itself is kept); the
  encoding of opcodes.
* Handlers of the 68010 and later: the opcode table does not have them for the
  68000, and finds their opcodes illegal, which is modelled.  They are about half
  of `m68k_in.c` and a third of `m68kops.c`.
* The FPU, the PMMU and soft float cannot be reached: the CPU type is always
  68000.
* `m68kmake`, a build-time tool that expands templates as text.  The order it
  gives the opcode table only matters for opcodes that two masks match.
* The text of the disassembler, and its own decoding.
* The order of the words of an instruction: `LengthsAgree` counts them, and an
  order that exchanges two words of the same number goes unnoticed.
* Xosera itself, the PLL and the build files.
* Torn values of the plain `bool`s: a `bool` is one byte on every platform the
  simulator is built for, so a race on it reads an old or a new value, as the
  interleaving has it.  A compiler that caches a flag in a register across the
  loop is not modelled; every loop calls an opaque function.

## Plan

Done: the core (`MicroSys` and what it extends), `VideoCapture`, `M68kMemory`,
`M68kExceptions`, the instruction set, the test program, the lengths of the
disassembler.

1. The opcode table: that sorting the entries by the bits of their masks makes
   the most special handler win, and `move` from the status register.
2. `m68kdasm.c`'s decoding against the opcode table.
