------------------------------ MODULE MicroSys ------------------------------
(***************************************************************************)
(* The simulator of sim/sim_main.cpp: the main thread, which clocks the    *)
(* Verilated design, plays the reset button and starts and stops the CPU   *)
(* thread; the m68k thread, which executes the program and reaches Xosera  *)
(* through the pins; and Xosera as the code uses it.                       *)
(*                                                                         *)
(* A step reads or writes shared data once.  What a thread does to its own *)
(* data in between is part of the step.  Everything main does while it     *)
(* holds top_m is several steps, because the m68k thread reads and writes  *)
(* the counter and the flags without the lock; the sections of the m68k    *)
(* thread under top_m are one step each, and so only main is ever seen     *)
(* holding the lock.                                                       *)
(***************************************************************************)
EXTENDS M68kInterrupts

CONSTANTS
  StrobeLen,   \* the count a strobe is armed with (4 in the source)
  BootTicks,   \* iterations with reset high at start (4: times 2 to 8)
  Accesses,    \* the bus accesses a program makes: [rd, addr, val]
  MaxAccesses, \* bound on the bus accesses of one instruction
  SrMasks,     \* interrupt masks the program loads in the status register
  IntrLevels,  \* levels Xosera may drive xosera_intr with
  Events       \* the SDL events that occur

SdlEvents == {"quit", "focus_lost", "focus_gained", "f1_down", "f1_up"}

ASSUME StrobeAssumption == StrobeLen \in Nat /\ StrobeLen >= 2
ASSUME BootAssumption == BootTicks \in Nat /\ BootTicks >= 1
ASSUME AccessAssumption ==
  Accesses \subseteq [rd : BOOLEAN, addr : 0..63, val : Nat]
ASSUME MaxAssumption == MaxAccesses \in Nat
ASSUME MaskAssumption == SrMasks \subseteq Levels
ASSUME IntrAssumption == IntrLevels \subseteq {0, 1}
ASSUME EventsAssumption == Events \subseteq SdlEvents

VARIABLES
  \* the main thread
  mpc,              \* where main stands
  quit, manual_reset, was_loaded,
  ticks,            \* iterations since the start, up to BootTicks
  \* flags both threads use without a lock
  is_m68k_running, is_m68k_reset, is_m68k_irq, g_is_paused,
  assert_xosera_strobe_counter,
  \* the pins of top
  reset, xosera_cs_n, xosera_rd_nwr, xosera_reg, xosera_data_in,
  \* Xosera
  dev,              \* what it sampled last: "reset", "high" or "low" (cs_n)
  xosera_intr,
  \* the m68k thread
  cpc,              \* where the thread stands; "none" before the first one
  access,           \* the access being made
  accesses,         \* accesses the current instruction has made
  servicing,        \* in the is_m68k_irq branch of m68k()
  reset_cycles,     \* RESET_CYCLES is not 0
  \* history, read by the properties alone
  torn,             \* the access replaced another one on the pins
  served,           \* times Xosera began the access, up to 2
  width,            \* clock edges that sampled it, up to StrobeLen
  excused,          \* it met a reset of Xosera
  late,             \* instructions begun since a CPU reset was asked, up to 2
  needReset,        \* the program is loaded and the CPU not yet reset
  flagFresh,        \* is_m68k_irq was raised since the last CPU reset
  serviceFresh      \* flagFresh, when the flag was taken

mainVars == <<mpc, quit, manual_reset, was_loaded, ticks>>
flagVars == <<is_m68k_running, is_m68k_reset, is_m68k_irq, g_is_paused>>
pinVars  == <<xosera_cs_n, xosera_rd_nwr, xosera_reg, xosera_data_in>>
devVars  == <<dev, xosera_intr>>
cpuVars  == <<cpc, access, accesses, servicing, reset_cycles>>
busHist  == <<torn, served, width, excused>>
irqHist  == <<late, needReset, flagFresh, serviceFresh>>

strobeVars == <<assert_xosera_strobe_counter, pinVars>>
vars == <<mainVars, flagVars, strobeVars, reset, devVars, cpuVars, intVars,
          busHist, irqHist>>

-----------------------------------------------------------------------------
\* main holds top_m here, between its lock() and its unlock().
MainLocked == {"reset", "frame", "strobe", "dec", "release", "eval"}
Ended      == {"exited", "crashed"}
Dead       == {"none", "done"}

TopMutexFree == mpc \notin MainLocked
HasThread    == cpc # "none"

\* Mutant: the wait ends one tick early.
HastyStrobeWaitOver == assert_xosera_strobe_counter <= 1 \/ ~is_m68k_running

\* Mutant: the wait is not cut short when the thread is told to stop.
DeafStrobeWaitOver == assert_xosera_strobe_counter = 0

\* while (assert_xosera_strobe_counter > 0 && is_m68k_running) sleep
StrobeWaitOver == assert_xosera_strobe_counter = 0 \/ ~is_m68k_running

\* xosera_reg_num and xosera_bytesel for an offset in the device's window.
RegOf(addr) == <<addr \div 4, (addr \div 2) % 2>>

Init ==
  /\ mpc = "top" /\ quit = FALSE /\ manual_reset = FALSE
  /\ was_loaded = FALSE /\ ticks = 0
  /\ is_m68k_running = TRUE /\ is_m68k_reset = FALSE
  /\ is_m68k_irq = FALSE /\ g_is_paused = FALSE
  /\ assert_xosera_strobe_counter = 0
  /\ reset = 1 /\ xosera_cs_n = 1 /\ xosera_rd_nwr = 1
  /\ xosera_reg = <<0, 0>> /\ xosera_data_in = 0
  /\ dev = "reset" /\ xosera_intr = 0
  /\ cpc = "none" /\ access = [rd |-> TRUE, addr |-> 0, val |-> 0]
  /\ accesses = 0 /\ servicing = FALSE /\ reset_cycles = FALSE
  /\ InterruptsInit
  /\ torn = FALSE /\ served = 0 /\ width = 0 /\ excused = TRUE
  /\ late = 0 /\ needReset = FALSE /\ flagFresh = FALSE /\ serviceFresh = FALSE

-----------------------------------------------------------------------------
(* The main thread: outside the lock.                                      *)

\* Main moves on and changes nothing else.
OnlyMpc == UNCHANGED <<quit, manual_reset, was_loaded, ticks, flagVars,
                       strobeVars, reset, devVars, cpuVars, intVars, busHist,
                       irqHist>>

\* The conditions of the main loop and of the pause loop inside it.
MainTop ==
  /\ mpc = "top"
  /\ mpc' = IF quit THEN "exit" ELSE IF g_is_paused THEN "paused" ELSE "check"
  /\ OnlyMpc

\* The queue is empty, main has slept; the pause loop tests its condition.
MainPaused ==
  /\ mpc = "paused"
  /\ mpc' = IF g_is_paused /\ ~quit THEN "paused" ELSE "check"
  /\ OnlyMpc

(***************************************************************************)
(* One event of process_sdl_events, called from the pause loop and, at     *)
(* most once an iteration, from the frame update.  Key repeats are dropped *)
(* by the code, so F1 goes down only when it is up.                        *)
(***************************************************************************)
SdlEvent(e) ==
  /\ mpc \in {"paused", "frame"}
  /\ e = "f1_down" => ~manual_reset
  /\ e = "f1_up" => manual_reset
  /\ quit' = IF e = "quit" THEN TRUE ELSE quit
  /\ g_is_paused' = IF e = "focus_lost" THEN TRUE
                    ELSE IF e = "focus_gained" THEN FALSE ELSE g_is_paused
  /\ manual_reset' = IF e = "f1_down" THEN TRUE
                     ELSE IF e = "f1_up" THEN FALSE ELSE manual_reset
  /\ was_loaded' = IF e = "f1_down" THEN FALSE ELSE was_loaded
  /\ UNCHANGED <<mpc, ticks, is_m68k_running, is_m68k_reset, is_m68k_irq,
                 strobeVars, reset, devVars, cpuVars, intVars, busHist,
                 irqHist>>

\* Mutant: the thread is not told to stop before it is joined.
MainCheckUntold ==
  /\ mpc = "check"
  /\ mpc' = IF manual_reset /\ ~was_loaded
            THEN IF HasThread THEN "join" ELSE "load"
            ELSE "lock"
  /\ OnlyMpc

\* A press of F1 that has not been served: stop the CPU thread, if any.
MainCheck ==
  /\ mpc = "check"
  /\ IF manual_reset /\ ~was_loaded
     THEN /\ mpc' = IF HasThread THEN "join" ELSE "load"
          /\ is_m68k_running' = IF HasThread THEN FALSE ELSE is_m68k_running
     ELSE mpc' = "lock" /\ UNCHANGED is_m68k_running
  /\ UNCHANGED <<quit, manual_reset, was_loaded, ticks, is_m68k_reset,
                 is_m68k_irq, g_is_paused, strobeVars, reset, devVars, cpuVars,
                 intVars, busHist, irqHist>>

\* Mutant: the thread is not joined before the load.
MainNoJoin == mpc = "join" /\ mpc' = "load" /\ OnlyMpc

MainJoin ==
  /\ mpc = "join"
  /\ cpc = "done"
  /\ mpc' = "load"
  /\ OnlyMpc

\* Mutant: the new thread starts without a CPU reset.
MainLoadNoReset ==
  /\ mpc = "load"
  /\ mpc' = "lock"
  /\ is_m68k_running' = TRUE
  /\ was_loaded' = TRUE
  /\ cpc' = "loop"
  /\ needReset' = TRUE
  /\ UNCHANGED <<quit, manual_reset, ticks, is_m68k_reset, is_m68k_irq,
                 g_is_paused, strobeVars, reset, devVars, access, accesses,
                 servicing, reset_cycles, intVars, busHist, late, flagFresh,
                 serviceFresh>>

\* The image is in g_ram; a new thread starts in m68k().
MainLoad ==
  /\ mpc = "load"
  /\ mpc' = "lock"
  /\ is_m68k_reset' = TRUE
  /\ is_m68k_running' = TRUE
  /\ was_loaded' = TRUE
  /\ cpc' = "loop"
  /\ UNCHANGED <<quit, manual_reset, ticks, is_m68k_irq, g_is_paused,
                 strobeVars, reset, devVars, access, accesses, servicing,
                 reset_cycles, intVars, busHist, late, flagFresh,
                 serviceFresh>>
  /\ needReset' = TRUE

\* test.bin cannot be opened or is empty: exit_error ends the process.
MainLoadFails ==
  /\ mpc = "load"
  /\ mpc' = "exited"
  /\ OnlyMpc

\* Past the main loop: stop the thread, then join it through m68k_thread.
MainExit ==
  /\ mpc = "exit"
  /\ is_m68k_running' = FALSE
  /\ mpc' = IF HasThread THEN "final" ELSE "crashed"
  /\ UNCHANGED <<quit, manual_reset, was_loaded, ticks, is_m68k_reset,
                 is_m68k_irq, g_is_paused, strobeVars, reset, devVars, cpuVars,
                 intVars, busHist, irqHist>>

MainFinal ==
  /\ mpc = "final"
  /\ cpc = "done"
  /\ mpc' = "exited"
  /\ OnlyMpc

-----------------------------------------------------------------------------
(* The main thread: one iteration under top_m.                             *)

MainLock ==
  /\ mpc = "lock"
  /\ mpc' = "reset"
  /\ IF HasThread /\ xosera_intr = 1
     THEN is_m68k_irq' = TRUE /\ flagFresh' = TRUE
     ELSE UNCHANGED <<is_m68k_irq, flagFresh>>
  /\ UNCHANGED <<quit, manual_reset, was_loaded, ticks, is_m68k_running,
                 is_m68k_reset, g_is_paused, strobeVars, reset, devVars,
                 cpuVars, intVars, busHist, late, needReset, serviceFresh>>

\* The low clock phase, then the reset line: releasing it resets the CPU too.
MainReset ==
  /\ mpc = "reset"
  /\ mpc' = "frame"
  /\ ticks' = IF ticks < BootTicks THEN ticks + 1 ELSE ticks
  /\ IF manual_reset \/ ticks < BootTicks
     THEN reset' = 1 /\ UNCHANGED is_m68k_reset
     ELSE /\ reset' = 0
          /\ is_m68k_reset' = IF reset = 1 THEN TRUE ELSE is_m68k_reset
  /\ UNCHANGED <<quit, manual_reset, was_loaded, is_m68k_running, is_m68k_irq,
                 g_is_paused, strobeVars, devVars, cpuVars, intVars, busHist,
                 irqHist>>

\* No event is left in this iteration.
MainFrameDone ==
  /\ mpc = "frame"
  /\ mpc' = "strobe"
  /\ OnlyMpc

\* Mutant: the counter is decremented without a test.
MainStrobeUntested == mpc = "strobe" /\ mpc' = "dec" /\ OnlyMpc

\* Mutant: the last tick is not counted.
MainStrobeShort ==
  /\ mpc = "strobe"
  /\ mpc' = IF assert_xosera_strobe_counter > 1 THEN "dec" ELSE "eval"
  /\ OnlyMpc

MainStrobe ==
  /\ mpc = "strobe"
  /\ mpc' = IF assert_xosera_strobe_counter > 0 THEN "dec" ELSE "eval"
  /\ OnlyMpc

MainDecrement ==
  /\ mpc = "dec"
  /\ mpc' = "release"
  /\ assert_xosera_strobe_counter' = assert_xosera_strobe_counter - 1
  /\ UNCHANGED <<quit, manual_reset, was_loaded, ticks, flagVars, pinVars,
                 reset, devVars, cpuVars, intVars, busHist, irqHist>>

\* Mutant: the strobe is released one tick early.
MainReleaseEarly ==
  /\ mpc = "release"
  /\ mpc' = "eval"
  /\ IF assert_xosera_strobe_counter <= 1
     THEN xosera_cs_n' = 1 /\ xosera_rd_nwr' = 1
     ELSE UNCHANGED <<xosera_cs_n, xosera_rd_nwr>>
  /\ UNCHANGED <<quit, manual_reset, was_loaded, ticks, flagVars,
                 assert_xosera_strobe_counter, xosera_reg, xosera_data_in,
                 reset, devVars, cpuVars, intVars, busHist, irqHist>>

MainRelease ==
  /\ mpc = "release"
  /\ mpc' = "eval"
  /\ IF assert_xosera_strobe_counter = 0
     THEN xosera_cs_n' = 1 /\ xosera_rd_nwr' = 1
     ELSE UNCHANGED <<xosera_cs_n, xosera_rd_nwr>>
  /\ UNCHANGED <<quit, manual_reset, was_loaded, ticks, flagVars,
                 assert_xosera_strobe_counter, xosera_reg, xosera_data_in,
                 reset, devVars, cpuVars, intVars, busHist, irqHist>>

(***************************************************************************)
(* The evaluation with clk = 1, and the unlock.  Xosera, of which the      *)
(* sources are not here, samples the pins: a low cs_n after a high one     *)
(* begins an access.  It drives xosera_intr as it likes, low in reset.     *)
(***************************************************************************)
XoseraEdge ==
  /\ dev' = IF reset = 1 THEN "reset" ELSE IF xosera_cs_n = 0 THEN "low" ELSE "high"
  /\ xosera_intr' \in IF reset = 1 THEN {0} ELSE IntrLevels

MainEval ==
  /\ mpc = "eval"
  /\ mpc' = "top"
  /\ XoseraEdge
  /\ excused' = IF reset = 1 THEN TRUE ELSE excused
  /\ served' = IF dev' = "low" /\ dev # "low" /\ served < 2
               THEN served + 1 ELSE served
  /\ width' = IF dev' = "low" /\ width < StrobeLen THEN width + 1 ELSE width
  /\ UNCHANGED <<quit, manual_reset, was_loaded, ticks, flagVars, strobeVars,
                 reset, cpuVars, intVars, torn, irqHist>>

-----------------------------------------------------------------------------
(* The m68k thread: the loop of m68k().                                    *)

\* What a step of the m68k thread that stays clear of the bus leaves alone.
CpuFrame == UNCHANGED <<mainVars, is_m68k_running, g_is_paused, strobeVars,
                        reset, devVars, busHist, needReset, flagFresh>>

\* The thread moves on and changes nothing else.
OnlyCpc ==
  /\ UNCHANGED <<is_m68k_reset, is_m68k_irq, access, accesses, servicing,
                 reset_cycles, intVars, late, serviceFresh>>
  /\ CpuFrame

CpuLoop ==
  /\ cpc = "loop"
  /\ cpc' = IF is_m68k_running THEN "pause" ELSE "done"
  /\ OnlyCpc

CpuPause ==
  /\ cpc = "pause"
  /\ ~(g_is_paused /\ is_m68k_running)
  /\ cpc' = "testReset"
  /\ OnlyCpc

\* Mutant: the interrupt flag is served before the reset flag.
CpuTestResetLast ==
  /\ cpc = "testReset"
  /\ cpc' = IF is_m68k_reset /\ ~is_m68k_irq THEN "reset" ELSE "testIrq"
  /\ OnlyCpc

CpuTestReset ==
  /\ cpc = "testReset"
  /\ cpc' = IF is_m68k_reset THEN "reset" ELSE "testIrq"
  /\ OnlyCpc

\* m68k_pulse_reset, its stack pointer and program counter from the boot table.
CpuResetAs(flag, cycles) ==
  /\ cpc = "reset"
  /\ cpc' = "loop"
  /\ is_m68k_reset' = flag
  /\ PulseReset
  /\ reset_cycles' = cycles
  /\ late' = 0 /\ flagFresh' = FALSE /\ needReset' = FALSE
  /\ UNCHANGED <<is_m68k_irq, access, accesses, servicing, serviceFresh>>
  /\ UNCHANGED <<mainVars, is_m68k_running, g_is_paused, strobeVars, reset,
                 devVars, busHist>>

\* Mutants: the reset takes no cycles; the flag is not lowered.
CpuResetAtOnce == CpuResetAs(FALSE, FALSE)
CpuResetAgain == CpuResetAs(is_m68k_reset, TRUE)

CpuReset == CpuResetAs(FALSE, TRUE)

CpuTestIrq ==
  /\ cpc = "testIrq"
  /\ cpc' = IF is_m68k_irq THEN "irq" ELSE "execute"
  /\ OnlyCpc

CpuIrq ==
  /\ cpc = "irq"
  /\ cpc' = "execute"
  /\ is_m68k_irq' = FALSE
  /\ IntControllerSet(IRQ_XOSERA_DEVICE)
  /\ servicing' = TRUE
  /\ serviceFresh' = flagFresh
  /\ UNCHANGED <<is_m68k_reset, access, accesses, reset_cycles, int_mask,
                 stopped, late>>
  /\ CpuFrame

(***************************************************************************)
(* m68k_execute(1) up to the fetch.  The first call after a reset only     *)
(* eats the reset cycles.  Then the pins are checked, once, and a CPU that *)
(* is still stopped executes nothing.                                      *)
(***************************************************************************)
CpuExecute ==
  /\ cpc = "execute"
  /\ reset_cycles' = FALSE
  /\ IF reset_cycles
     THEN cpc' = "end" /\ UNCHANGED <<intVars, late>>
     ELSE /\ CheckInterrupts(int_mask, stopped)
          /\ cpc' = IF stopped' THEN "end" ELSE "instruction"
          /\ late' = IF is_m68k_reset /\ ~stopped' /\ late < 2
                     THEN late + 1 ELSE late
  /\ UNCHANGED <<is_m68k_reset, is_m68k_irq, access, accesses, servicing,
                 serviceFresh>>
  /\ CpuFrame

\* Mutant: the line stays up when the call returns.
CpuEndRaised ==
  /\ cpc = "end"
  /\ cpc' = "loop"
  /\ servicing' = FALSE
  /\ accesses' = 0
  /\ UNCHANGED <<is_m68k_reset, is_m68k_irq, access, reset_cycles, intVars,
                 late, serviceFresh>>
  /\ CpuFrame

\* The call has returned; the interrupt branch takes its line down again.
CpuEnd ==
  /\ cpc = "end"
  /\ cpc' = "loop"
  /\ servicing' = FALSE
  /\ accesses' = 0
  /\ IF servicing THEN IntControllerClear(IRQ_XOSERA_DEVICE)
                  ELSE UNCHANGED ctrlVars
  /\ UNCHANGED <<is_m68k_reset, is_m68k_irq, access, reset_cycles, int_mask,
                 stopped, late, serviceFresh>>
  /\ CpuFrame

-----------------------------------------------------------------------------
(* The m68k thread: what an instruction may do to the rest of the system.  *)

InstructionFrame ==
  /\ UNCHANGED <<is_m68k_reset, is_m68k_irq, access, accesses, servicing,
                 reset_cycles, late, serviceFresh>>
  /\ CpuFrame

\* The instruction has done all it does outside the CPU and the RAM.
InstructionDone ==
  /\ cpc = "instruction"
  /\ cpc' = "end"
  /\ UNCHANGED intVars
  /\ InstructionFrame

\* move to SR, rte and the like: m68ki_set_sr checks the pins again.
SetSr(m) ==
  /\ cpc = "instruction"
  /\ cpc' = "end"
  /\ CheckInterrupts(m, stopped)
  /\ InstructionFrame

Stop(m) ==
  /\ cpc = "instruction"
  /\ accesses = 0
  /\ cpc' = "end"
  /\ CheckInterrupts(m, TRUE)
  /\ InstructionFrame

\* reset: cpu_pulse_reset resets the NMI device and the Xosera device.
ResetInstruction ==
  /\ cpc = "instruction"
  /\ accesses = 0
  /\ cpc' = "end"
  /\ IntControllerClear(IRQ_XOSERA_DEVICE)
  /\ UNCHANGED <<int_mask, stopped>>
  /\ InstructionFrame

\* An address outside the RAM and the device: exit_error ends the process.
Fault ==
  /\ cpc = "instruction"
  /\ cpc' = "done"
  /\ mpc' = "exited"
  /\ UNCHANGED <<quit, manual_reset, was_loaded, ticks, flagVars, strobeVars,
                 reset, devVars, access, accesses, servicing, reset_cycles,
                 intVars, busHist, irqHist>>

\* xosera_device_read or xosera_device_write is called.
BeginAccess(a) ==
  /\ cpc = "instruction"
  /\ accesses < MaxAccesses
  /\ accesses' = accesses + 1
  /\ access' = a
  /\ cpc' = IF a.rd THEN "readWait" ELSE "writeWait"
  /\ UNCHANGED <<is_m68k_reset, is_m68k_irq, servicing, reset_cycles, intVars,
                 late, serviceFresh>>
  /\ CpuFrame

-----------------------------------------------------------------------------
(* The m68k thread: xosera_device_read and xosera_device_write.            *)

\* What the steps on the bus leave alone, cpc, the strobe and history apart.
BusFrame == UNCHANGED <<mainVars, flagVars, reset, devVars, access, accesses,
                        servicing, reset_cycles, int_mask, stopped, irqHist>>

\* A new access is on the pins.
StartHistory ==
  /\ torn' = (xosera_cs_n = 0)
  /\ served' = 0
  /\ width' = 0
  /\ excused' = FALSE

ReadWait ==
  /\ cpc = "readWait"
  /\ StrobeWaitOver
  /\ cpc' = "readDrive"
  /\ UNCHANGED <<strobeVars, ctrlVars, busHist>>
  /\ BusFrame

ReadDrive ==
  /\ cpc = "readDrive"
  /\ TopMutexFree
  /\ xosera_reg' = RegOf(access.addr)
  /\ xosera_rd_nwr' = 1
  /\ xosera_cs_n' = 0
  /\ cpc' = "readArm"
  /\ StartHistory
  /\ UNCHANGED <<assert_xosera_strobe_counter, xosera_data_in, ctrlVars>>
  /\ BusFrame

\* The counter is armed after the lock is released.
ReadArm ==
  /\ cpc = "readArm"
  /\ assert_xosera_strobe_counter' = StrobeLen
  /\ cpc' = "readStrobe"
  /\ UNCHANGED <<pinVars, ctrlVars, busHist>>
  /\ BusFrame

\* Mutant: the read does not wait for its strobe.
ReadStrobeHasty ==
  /\ cpc = "readStrobe"
  /\ cpc' = "readData"
  /\ UNCHANGED <<strobeVars, ctrlVars, busHist>>
  /\ BusFrame

ReadStrobe ==
  /\ cpc = "readStrobe"
  /\ StrobeWaitOver
  /\ cpc' = "readData"
  /\ UNCHANGED <<strobeVars, ctrlVars, busHist>>
  /\ BusFrame

\* The value is taken from xosera_data_out; the interrupt line goes down.
ReadData ==
  /\ cpc = "readData"
  /\ TopMutexFree
  /\ cpc' = "instruction"
  /\ IntControllerClear(IRQ_XOSERA_DEVICE)
  /\ UNCHANGED <<strobeVars, busHist>>
  /\ BusFrame

\* Mutant: the write does not wait for the strobe before it.
WriteNoWait ==
  /\ cpc = "writeWait"
  /\ cpc' = "writeDrive"
  /\ UNCHANGED <<strobeVars, ctrlVars, busHist>>
  /\ BusFrame

WriteWait ==
  /\ cpc = "writeWait"
  /\ StrobeWaitOver
  /\ cpc' = "writeDrive"
  /\ UNCHANGED <<strobeVars, ctrlVars, busHist>>
  /\ BusFrame

\* The counter is armed under the lock and the call returns at once.
WriteDriveFor(count) ==
  /\ cpc = "writeDrive"
  /\ TopMutexFree
  /\ xosera_reg' = RegOf(access.addr)
  /\ xosera_data_in' = access.val % 256
  /\ xosera_rd_nwr' = 0
  /\ xosera_cs_n' = 0
  /\ assert_xosera_strobe_counter' = count
  /\ cpc' = "instruction"
  /\ StartHistory
  /\ UNCHANGED ctrlVars
  /\ BusFrame

\* Mutants: the strobe is armed for one tick; for one tick too few.
WriteDriveOnce == WriteDriveFor(1)
WriteDriveLess == WriteDriveFor(StrobeLen - 1)

WriteDrive == WriteDriveFor(StrobeLen)

-----------------------------------------------------------------------------
MainStep ==
  \/ MainTop \/ MainPaused \/ MainCheck \/ MainJoin \/ MainLoad
  \/ MainLoadFails \/ MainExit \/ MainFinal
  \/ MainLock \/ MainReset \/ MainFrameDone \/ MainStrobe \/ MainDecrement
  \/ MainRelease \/ MainEval

LoopStep ==
  \/ CpuLoop \/ CpuPause \/ CpuTestReset \/ CpuReset \/ CpuTestIrq \/ CpuIrq
  \/ CpuExecute \/ CpuEnd

InstructionStep ==
  \/ InstructionDone \/ ResetInstruction \/ Fault
  \/ \E m \in SrMasks : SetSr(m) \/ Stop(m)
  \/ \E a \in Accesses : BeginAccess(a)

LockedStep == ReadDrive \/ ReadData \/ WriteDrive

BusStep == LockedStep \/ ReadWait \/ ReadArm \/ ReadStrobe \/ WriteWait

CpuStep == LoopStep \/ InstructionStep \/ BusStep

\* The process has ended.
Finished == mpc \in Ended /\ UNCHANGED vars

Next ==
  \/ MainStep
  \/ \E e \in Events : SdlEvent(e)
  \/ CpuStep
  \/ Finished

Spec == Init /\ [][Next]_vars

(***************************************************************************)
(* The scheduler runs both threads, and a thread that tries for top_m over *)
(* and over while it is released over and over gets it in the end.  The    *)
(* user owes nothing: no event is fair.                                    *)
(***************************************************************************)
Fairness == WF_vars(MainStep) /\ WF_vars(CpuStep) /\ SF_vars(LockedStep)

FairSpec == Spec /\ Fairness

-----------------------------------------------------------------------------
(* Properties.                                                             *)

MainPlaces == {"top", "paused", "check", "join", "load", "lock", "exit", "final"}
                \union MainLocked \union Ended
BusPlaces  == {"readWait", "readDrive", "readArm", "readStrobe", "readData",
               "writeWait", "writeDrive"}
CpuPlaces  == {"loop", "pause", "testReset", "reset", "testIrq", "irq",
               "execute", "instruction", "end"} \union BusPlaces \union Dead

BooleanTypes ==
  /\ quit \in BOOLEAN /\ manual_reset \in BOOLEAN /\ was_loaded \in BOOLEAN
  /\ is_m68k_running \in BOOLEAN /\ is_m68k_reset \in BOOLEAN
  /\ is_m68k_irq \in BOOLEAN /\ g_is_paused \in BOOLEAN
  /\ servicing \in BOOLEAN /\ reset_cycles \in BOOLEAN
  /\ nmi_pending \in BOOLEAN /\ stopped \in BOOLEAN
  /\ torn \in BOOLEAN /\ excused \in BOOLEAN /\ needReset \in BOOLEAN
  /\ flagFresh \in BOOLEAN /\ serviceFresh \in BOOLEAN

MainTypes == mpc \in MainPlaces /\ ticks \in 0..BootTicks

BusTypes ==
  /\ assert_xosera_strobe_counter \in 0..StrobeLen
  /\ reset \in {0, 1} /\ xosera_cs_n \in {0, 1} /\ xosera_rd_nwr \in {0, 1}
  /\ xosera_reg \in (0..15) \X {0, 1}
  /\ xosera_data_in \in 0..255
  /\ dev \in {"reset", "high", "low"} /\ xosera_intr \in {0, 1}

CpuTypes ==
  /\ cpc \in CpuPlaces
  /\ access \in [rd : BOOLEAN, addr : 0..63, val : Nat]
  /\ accesses \in 0..MaxAccesses

HistoryTypes == served \in 0..2 /\ width \in 0..StrobeLen /\ late \in 0..2

\* Every variable holds a value of the type its declaration gives it.
TypeOK ==
  /\ BooleanTypes
  /\ MainTypes /\ BusTypes /\ CpuTypes /\ LineTypes /\ HistoryTypes

(***************************************************************************)
(* The chip select and the counter, which two threads write and only one   *)
(* of them under the lock, agree: Xosera is selected while the counter     *)
(* runs, and a select with the counter at zero has somebody about to arm   *)
(* it (the read) or about to end it (main).  No strobe is stuck.           *)
(***************************************************************************)
SelectFollowsCounter ==
  /\ assert_xosera_strobe_counter > 0 => xosera_cs_n = 0
  /\ xosera_cs_n = 0 => \/ assert_xosera_strobe_counter > 0
                        \/ cpc = "readArm"
                        \/ mpc = "release"
                        \/ mpc \in Ended

(***************************************************************************)
(* The waits cut short by is_m68k_running let an access replace another    *)
(* one on the pins in mid-strobe.  Xosera never takes such a torn access   *)
(* for the rest of the other one: when it first samples the access out of  *)
(* reset, it comes straight out of reset.  It may well perform it then, as *)
(* its first one, if F1 is released before the strobe is over.             *)
(***************************************************************************)
NoTornSample ==
  mpc = "eval" /\ reset = 0 /\ xosera_cs_n = 0 /\ torn /\ width = 0
    => dev = "reset"

(***************************************************************************)
(* Xosera begins every access the m68k thread makes exactly once, unless   *)
(* the access meets a reset of the device: never twice, and at least once  *)
(* before its strobe is over.                                              *)
(***************************************************************************)
ExactlyOnce ==
  ~excused => /\ served <= 1
              /\ xosera_cs_n = 1 => served = 1

(***************************************************************************)
(* A strobe that is over was sampled at StrobeLen - 1 clock edges at the   *)
(* least (the counter is decremented before the edge), though a read arms  *)
(* the counter after it has let main go on.                                *)
(***************************************************************************)
FullStrobe ==
  xosera_cs_n = 1 /\ ~excused => width >= StrobeLen - 1

(***************************************************************************)
(* When xosera_device_read takes the value from xosera_data_out, Xosera    *)
(* has answered this very read, unless the thread was told to stop or the  *)
(* device was reset in between.                                            *)
(***************************************************************************)
ReadAnswered ==
  cpc = "readData" /\ is_m68k_running /\ ~excused => served = 1

(***************************************************************************)
(* Once main has asked for a CPU reset, at most one more instruction of    *)
(* the old run begins: the one whose check of is_m68k_reset came before.   *)
(***************************************************************************)
PromptReset == late <= 1

(***************************************************************************)
(* A newly loaded program does not run on the registers of the old one:    *)
(* the thread executes nothing before m68k_pulse_reset.                    *)
(***************************************************************************)
ResetBeforeRun ==
  needReset => cpc \in {"loop", "pause", "testReset", "reset"} \union Dead

\* main overwrites the RAM only while no thread executes from it.
LoadsAlone == mpc = "load" => cpc \in Dead

(***************************************************************************)
(* The pins of the CPU show the highest pending line of the controller,    *)
(* though m68k_pulse_reset takes the pins down without telling the         *)
(* controller; and a line is up only in the interrupt branch of m68k().    *)
(***************************************************************************)
ControllerInSync ==
  /\ int_level = highest
  /\ highest = HighestOf(pending)
  /\ ~nmi_pending
  /\ pending # {} => servicing

InterruptTaken ==
  \/ CpuExecute /\ ~reset_cycles /\ Accepted(int_mask)
  \/ \E m \in SrMasks : (SetSr(m) \/ Stop(m)) /\ Accepted(m)

(***************************************************************************)
(* The CPU takes an interrupt only in the branch that serves a flag, and   *)
(* the flag was raised after the last CPU reset: a request made to the old *)
(* run never interrupts the new one.                                       *)
(***************************************************************************)
NoStaleInterrupt == [][InterruptTaken => servicing /\ serviceFresh]_vars

(***************************************************************************)
(* What the comment on m68k_execute in the interrupt branch promises: a    *)
(* request that is taken from the flag is executed.                        *)
(***************************************************************************)
RequestsExecuted ==
  [][CpuExecute /\ servicing => ~reset_cycles /\ Accepted(int_mask)]_vars

\* Past the main loop the simulator joins its thread and cleans up the model.
ExitsCleanly == mpc # "crashed"

\* The torn access has not met a reset of Xosera.
Mixed == torn /\ ~excused

\* The register bus is the one XoseraBus specifies.
Pins == <<xosera_rd_nwr, xosera_reg, xosera_data_in>>

Bus == INSTANCE XoseraBus WITH
  Requests  <- {0, 1} \X ((0..15) \X {0, 1}) \X (0..255),
  NoRequest <- <<>>,
  req       <- IF xosera_cs_n = 1 THEN <<>> ELSE Pins,
  seen      <- xosera_cs_n = 0 /\ dev = "low",
  torn      <- Mixed,
  inReset   <- dev = "reset",
  closing   <- ~is_m68k_running

\* Every behaviour of the two threads on the pins is one XoseraBus allows.
BusRefinement == Bus!BusSpec

(* Liveness.  While the window is out of focus main does not clock Xosera. *)

Excuse == g_is_paused \/ mpc \in Ended

(***************************************************************************)
(* Quitting ends the process: main, which clocks nothing any more, does    *)
(* not wait for ever for a thread that waits for a clocked strobe.         *)
(***************************************************************************)
QuitEnds == quit ~> mpc \in Ended

\* While F1 is held a program is loaded and started, whatever ran before.
HeldButtonLoads ==
  (manual_reset /\ ~was_loaded) ~> (was_loaded \/ ~manual_reset \/ Excuse)

\* Every access to Xosera ends, though main is not told that one is waiting.
AccessCompletes == (cpc \in BusPlaces) ~> (cpc \notin BusPlaces \/ Excuse)

\* A requested CPU reset reaches the CPU thread, unless that is told to stop.
ResetReachesCpu ==
  (is_m68k_reset /\ cpc \notin Dead)
    ~> (~is_m68k_reset \/ ~is_m68k_running \/ Excuse)

(***************************************************************************)
(* A CPU stopped with level 2 unmasked wakes up if Xosera holds its        *)
(* interrupt output, unless it is reset instead.                           *)
(***************************************************************************)
StoppedCpuWakes ==
  (stopped /\ int_mask < IRQ_XOSERA_DEVICE)
    ~> (~stopped \/ xosera_intr = 0 \/ cpc \in Dead \/ Excuse)

=============================================================================
