----------------------------- MODULE M68kMemory -----------------------------
(***************************************************************************)
(* What the 68000 of the simulator finds at an address: the memory map of  *)
(* sim/sim_main.cpp (the functions cpu_read and cpu_write), and the        *)
(* prefetch queue of one word that m68kcpu.h keeps in front of it.         *)
(*                                                                         *)
(* An address has 24 bits, and what the registers hold above them is left  *)
(* out.  A word is the pair of its bytes, the most significant first.      *)
(* Where a jump goes, what an access is for and what it stores are inputs. *)
(* The stack frames of exceptions are accesses like any other.             *)
(*                                                                         *)
(* A step of the CPU is one fetch, one access or one jump; the thread      *)
(* works alone, except that main overwrites the RAM while it is stopped.   *)
(***************************************************************************)
EXTENDS Integers, Sequences

CONSTANTS
  MaxRam,              \* the last address of g_ram
  XoseraStart,
  XoseraEnd,           \* the first address behind the registers of Xosera
  MaxAddress,
  SizeAddress,         \* a long that cpu_read_long makes up: the RAM's size
  TimerAddress,        \* another one: timer_100hz
  BootTable,           \* what is read from 0 during a CPU reset
  NoPrefetch,          \* the address m68k_pulse_reset gives the queue
  ProgramStart,        \* where main loads the program
  Programs,            \* the programs it may find: sequences of bytes
  Data,                \* bytes a program may store, or memory hold by chance
  JumpTargets,
  MaxWrites            \* bound on the stores of a behaviour

Byte      == 0..255
Word      == Byte \X Byte
Addresses == 0..MaxAddress
Ram       == 0..MaxRam
XoseraWindow == XoseraStart..(XoseraEnd - 1)

Even(a) == a % 2 = 0

LongOf(high, low) ==
  ((high[1] * 256 + high[2]) * 256 + low[1]) * 256 + low[2]

\* The stack pointer and the program counter of the table.
InitialSp  == LongOf(BootTable[0], BootTable[1])
EntryPoint == LongOf(BootTable[2], BootTable[3])

ASSUME MapAssumption ==
  /\ MaxRam \in Nat /\ XoseraStart \in Nat /\ XoseraEnd \in Nat
  /\ MaxAddress \in Nat
  /\ MaxRam % 2 = 1 /\ MaxRam >= 9
  /\ XoseraStart % 2 = 0 /\ XoseraEnd % 2 = 0
  /\ MaxRam + 1 < XoseraStart /\ XoseraStart < XoseraEnd
  /\ XoseraEnd <= MaxAddress
ASSUME BootAssumption ==
  /\ BootTable \in [0..3 -> Word]
  /\ EntryPoint \in Ram /\ Even(EntryPoint) /\ EntryPoint # 8
  /\ NoPrefetch \in Addresses \ {0} /\ Even(NoPrefetch)
ASSUME DataAssumption ==
  /\ Data \subseteq Byte /\ 0 \in Data
  /\ JumpTargets \subseteq Addresses
  /\ ProgramStart \in Ram
  /\ \A p \in Programs : p \in Seq(Byte)
  /\ MaxWrites \in Nat

VARIABLES
  ram,
  pc,
  ppc,       \* the previous program counter, for the message of exit_error
  pref_addr,
  pref_data,
  vector,    \* words read from the table: the stack pointer and the counter
  phase,     \* where the m68k thread is
  process,   \* "runs", "exited", or "lost" in the code that should exit
  overrun,   \* an access passed the end of g_ram
  writes,    \* stores so far, up to MaxWrites
  dirty      \* history: the queue's word was overwritten in memory

queueVars == <<pref_addr, pref_data, dirty>>
cpuVars   == <<pc, ppc, vector, phase>>
memVars   == <<ram, overrun, writes>>
vars      == <<queueVars, cpuVars, memVars, process>>

(***************************************************************************)
(* There is no m68k thread; it owes a CPU reset; it is in the reset; it    *)
(* has executed nothing since; it is in an instruction; it is between two, *)
(* perhaps in an interrupt.                                                *)
(***************************************************************************)
Phases == {"off", "due", "boot", "start", "run", "idle"}

is_booting == phase = "boot"

Init ==
  /\ ram = [a \in Ram |-> 0]
  /\ pc = 0 /\ ppc = 0
  /\ pref_addr = 0 /\ pref_data = <<0, 0>>
  /\ vector = <<>>
  /\ phase = "off" /\ process = "runs"
  /\ overrun = FALSE /\ writes = 0 /\ dirty = FALSE

-----------------------------------------------------------------------------
(* The memory map.                                                         *)

WordAt(a) == <<ram[a], ram[a + 1]>>

\* The words that a read at the even address a may return: none if the read
\* ends the process.  Behind the table, and in Xosera, anything.
WordsAt(a) ==
  IF is_booting
  THEN IF a \div 2 <= 3 THEN {BootTable[a \div 2]} ELSE Data \X Data
  ELSE IF a \in XoseraWindow THEN {0} \X Data
  ELSE IF a > MaxRam THEN {}
  ELSE {WordAt(a)}

\* The longs that cpu_read_long makes up.
MadeUp(size, a) == size = 4 /\ a \in {SizeAddress, TimerAddress}

InRam(a)    == a <= MaxRam
InXosera(a) == a \in XoseraWindow

\* An access in the RAM that passes its end.
PastEnd(size, a) == InRam(a) /\ a + size - 1 > MaxRam

\* The addresses of an access.
Span(size, a) == a..(a + size - 1)

\* The RAM with the bytes of v at a; those past its end fall behind g_ram,
\* on g_fc, which nothing reads.
Stored(size, a, v) ==
  [b \in Ram |-> IF b \in Span(size, a) THEN v[b - a + 1] ELSE ram[b]]

-----------------------------------------------------------------------------
(* exit_error.  It disassembles the instruction at ppc before it exits.    *)
(* An address outside the RAM is an error there too, but a second call of  *)
(* exit_error returns at once, and g_ram is read at that address.  The few *)
(* bytes behind g_ram, where the extension words of an instruction at its  *)
(* end lie, can be read; an opcode outside the RAM may be anywhere, and    *)
(* its read ends the process, or does not.                                 *)

Endings(p) == IF InRam(p) THEN {"exited"} ELSE {"exited", "lost"}

Fault ==
  /\ process' \in Endings(ppc)
  /\ UNCHANGED <<queueVars, cpuVars, memVars>>

-----------------------------------------------------------------------------
(* The prefetch queue.                                                     *)

\* Mutant: the queue is not refilled when it is of another address.
QueuedWord == {pref_data}

\* What a fetch at pc may deliver.
Delivered == IF pc = pref_addr THEN {pref_data} ELSE WordsAt(pc)

\* A fetch that delivers word, and refills the queue.
Fetch(word) ==
  /\ Even(pc)
  /\ word \in Delivered
  /\ pref_data' \in WordsAt(pc + 2)
  /\ pc' = pc + 2
  /\ pref_addr' = pc + 2
  /\ dirty' = FALSE

\* A fetch one of whose reads ends the process.
FetchFaults == Even(pc) /\ (Delivered = {} \/ WordsAt(pc + 2) = {})

-----------------------------------------------------------------------------
(* The CPU reset of the m68k thread.                                       *)

\* Mutant: the queue is not invalidated.
ResetQueueKept ==
  /\ phase \in {"due", "start", "idle"}
  /\ phase' = "boot" /\ vector' = <<>> /\ pc' = 0
  /\ UNCHANGED <<ppc, pref_addr, pref_data, dirty>>
  /\ UNCHANGED <<memVars, process>>

BeginReset ==
  /\ phase \in {"due", "start", "idle"}
  /\ phase' = "boot" /\ vector' = <<>> /\ pc' = 0
  /\ pref_addr' = NoPrefetch
  /\ UNCHANGED <<ppc, pref_data, dirty>>
  /\ UNCHANGED <<memVars, process>>

BootFetch ==
  /\ is_booting /\ Len(vector) < 4
  /\ \E word \in Delivered : Fetch(word) /\ vector' = Append(vector, word)
  /\ UNCHANGED <<ppc, phase>> /\ UNCHANGED <<memVars, process>>

\* Mutant: the words of the counter are taken in the wrong order.
EndResetSwapped ==
  /\ is_booting /\ Len(vector) = 4
  /\ pc' = LongOf(vector[4], vector[3])
  /\ phase' = "start"
  /\ UNCHANGED <<ppc, vector>> /\ UNCHANGED <<queueVars, memVars, process>>

\* Mutant: the jump takes the queue along.
EndResetQueued ==
  /\ is_booting /\ Len(vector) = 4
  /\ pc' = LongOf(vector[3], vector[4])
  /\ pref_addr' = pc'
  /\ phase' = "start"
  /\ UNCHANGED <<ppc, vector, pref_data, dirty>>
  /\ UNCHANGED <<memVars, process>>

EndReset ==
  /\ is_booting /\ Len(vector) = 4
  /\ pc' = LongOf(vector[3], vector[4])
  /\ phase' = "start"
  /\ UNCHANGED <<ppc, vector>> /\ UNCHANGED <<queueVars, memVars, process>>

-----------------------------------------------------------------------------
(* Instructions.                                                           *)

Running == phase \in {"run", "idle"}

\* The opcode.  No interrupt comes before the first one after a reset.
BeginInstruction ==
  /\ phase \in {"start", "idle"}
  /\ \E word \in Delivered : Fetch(word)
  /\ ppc' = pc
  /\ phase' = "run"
  /\ UNCHANGED vector /\ UNCHANGED <<memVars, process>>

FetchExtension ==
  /\ phase = "run"
  /\ \E word \in Delivered : Fetch(word)
  /\ UNCHANGED <<ppc, vector, phase>> /\ UNCHANGED <<memVars, process>>

\* The opcode is at an odd address: its fetch is an address error.
OpcodeAddressError ==
  /\ phase = "idle" /\ ~Even(pc)
  /\ ppc' = pc
  /\ phase' = "run"
  /\ UNCHANGED <<pc, vector>> /\ UNCHANGED <<queueVars, memVars, process>>

OpcodeFaults ==
  /\ phase \in {"start", "idle"}
  /\ FetchFaults
  /\ ppc' = pc
  /\ process' \in Endings(pc)
  /\ UNCHANGED <<pc, vector, phase>> /\ UNCHANGED <<queueVars, memVars>>

ExtensionFaults == phase = "run" /\ FetchFaults /\ Fault

EndInstruction ==
  /\ phase = "run"
  /\ phase' = "idle"
  /\ ppc' = pc
  /\ UNCHANGED <<pc, vector>> /\ UNCHANGED <<queueVars, memVars, process>>

\* m68k_execute returns after the exception of an address error.
AddressErrorEnds ==
  /\ phase = "run"
  /\ phase' = "idle"
  /\ UNCHANGED <<pc, ppc, vector>> /\ UNCHANGED <<queueVars, memVars, process>>

\* A branch, a jump or an exception.  The queue stays as it is.
Jump ==
  /\ Running
  /\ pc' \in JumpTargets
  /\ UNCHANGED <<ppc, vector, phase>>
  /\ UNCHANGED <<queueVars, memVars, process>>

\* What the CPU reads is used in its registers only.
ReadData(size, a) ==
  /\ Running
  /\ MadeUp(size, a) \/ InXosera(a) \/ InRam(a)
  /\ overrun' = (overrun \/ (~MadeUp(size, a) /\ PastEnd(size, a)))
  /\ UNCHANGED <<queueVars, cpuVars, ram, writes, process>>

WriteXosera(a) == Running /\ InXosera(a) /\ UNCHANGED vars

WriteRam(size, a) ==
  /\ Running
  /\ InRam(a)
  /\ writes < MaxWrites
  /\ \E v \in [1..size -> Data] : ram' = Stored(size, a, v)
  /\ writes' = writes + 1
  /\ overrun' = (overrun \/ PastEnd(size, a))
  /\ dirty' = (dirty \/ {pref_addr, pref_addr + 1} \cap Span(size, a) # {})
  /\ UNCHANGED <<pref_addr, pref_data, cpuVars, process>>

\* An access that finds neither.
AccessFaults(a) == Running /\ ~InRam(a) /\ ~InXosera(a) /\ Fault

-----------------------------------------------------------------------------
(* main, with the thread stopped.                                          *)

Image(program) ==
  [a \in Ram |-> IF a - ProgramStart + 1 \in DOMAIN program
                 THEN program[a - ProgramStart + 1] ELSE 0]

MayLoad == phase \in {"off", "due", "start", "idle"}

Load ==
  /\ MayLoad
  /\ \E program \in Programs : ram' = Image(program)
  /\ phase' = "due"
  /\ dirty' = TRUE
  /\ UNCHANGED <<pc, ppc, vector, pref_addr, pref_data>>
  /\ UNCHANGED <<overrun, writes, process>>

LoadFails == MayLoad /\ Fault

CpuStep ==
  \/ BeginReset \/ BootFetch \/ EndReset
  \/ BeginInstruction \/ OpcodeAddressError \/ OpcodeFaults
  \/ FetchExtension \/ ExtensionFaults
  \/ EndInstruction \/ AddressErrorEnds \/ Jump
  \/ \E size \in {1, 2, 4}, a \in Addresses :
        /\ size = 1 \/ Even(a)
        /\ \/ ReadData(size, a) \/ WriteRam(size, a)
           \/ WriteXosera(a) \/ AccessFaults(a)

MainStep == Load \/ LoadFails

Next == process = "runs" /\ (CpuStep \/ MainStep)

Spec == Init /\ [][Next]_vars

-----------------------------------------------------------------------------
(* Properties.                                                             *)

\* Every variable has its type.
TypeOK ==
  /\ ram \in [Ram -> Byte]
  /\ pc \in Addresses /\ ppc \in Addresses /\ pref_addr \in Addresses
  /\ pref_data \in Word
  /\ vector \in Seq(Word) /\ Len(vector) <= 4
  /\ phase \in Phases
  /\ process \in {"runs", "exited", "lost"}
  /\ overrun \in BOOLEAN /\ dirty \in BOOLEAN
  /\ writes \in 0..MaxWrites

(***************************************************************************)
(* A fetch from the RAM delivers what the RAM holds.  The one exception is *)
(* a word the program itself wrote after it was prefetched: no more than   *)
(* that one word is stale, and only if the fetches are in sequence.        *)
(***************************************************************************)
FetchIsCurrent ==
  Running /\ Even(pc) /\ InRam(pc) =>
    Delivered = {WordAt(pc)} \/ (pc = pref_addr /\ dirty)

(***************************************************************************)
(* After a CPU reset the stack pointer and the counter are those of the    *)
(* boot table, whatever the queue held of the program before.              *)
(***************************************************************************)
BootVectors ==
  phase = "start" => /\ LongOf(vector[1], vector[2]) = InitialSp
                     /\ pc = EntryPoint

(***************************************************************************)
(* The first instruction after a reset is the one the RAM holds: no word   *)
(* of the program before, and not the word behind the table, which the     *)
(* queue holds then.                                                       *)
(***************************************************************************)
FirstWordCurrent == phase = "start" => Delivered = {WordAt(EntryPoint)}

\* The inductive invariant: what the queue holds, and where a reset is.
QueueInv ==
  /\ Running /\ ~dirty /\ Even(pref_addr) /\ InRam(pref_addr) =>
       pref_data = WordAt(pref_addr)
  /\ Even(pref_addr)
  /\ is_booting =>
       /\ pc = 2 * Len(vector)
       /\ pref_addr = IF vector = <<>> THEN NoPrefetch ELSE pc
       /\ Len(vector) \in 1..3 => pref_data = BootTable[Len(vector)]
  /\ phase \in {"boot", "start"} =>
       \A i \in 1..Len(vector) : vector[i] = BootTable[i - 1]
  /\ phase = "start" => Len(vector) = 4 /\ pc = EntryPoint /\ pref_addr = 8

(***************************************************************************)
(* An access stays in g_ram: cpu_read_long and cpu_write_long call         *)
(* exit_error for an address that is not in the RAM.  It is not so: they   *)
(* look at the first byte of the four only.                                *)
(***************************************************************************)
StaysInRam == ~overrun

(***************************************************************************)
(* exit_error exits, as its comment says.  It does not, if the instruction *)
(* it reports is not in the RAM itself.                                    *)
(***************************************************************************)
ErrorsExit == process # "lost"

=============================================================================
