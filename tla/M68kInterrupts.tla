--------------------------- MODULE M68kInterrupts ---------------------------
(***************************************************************************)
(* The interrupt path of microsys: the interrupt controller of             *)
(* sim_main.cpp (int_controller_set, int_controller_clear), the interrupt  *)
(* pins of the emulated 68000 (m68k_set_irq) and the part of the CPU that  *)
(* samples them (m68ki_check_interrupts, m68ki_exception_interrupt).       *)
(*                                                                         *)
(* The bit mask g_int_controller_pending is the set of its one bits.  An   *)
(* interrupt level is kept in 0..7; the source keeps it shifted left by 8, *)
(* to line up with the status register.  No module that uses these         *)
(* operators can reach STOP_LEVEL_HALT, so CPU_STOPPED is the one bit      *)
(* STOP_LEVEL_STOP.                                                        *)
(***************************************************************************)
EXTENDS Integers

VARIABLES
  pending,     \* g_int_controller_pending
  highest,     \* g_int_controller_highest_int
  int_level,   \* CPU_INT_LEVEL, the IPL pins
  nmi_pending, \* m68ki_cpu.nmi_pending
  int_mask,    \* FLAG_INT_MASK, the I2-I0 bits of the status register
  stopped      \* CPU_STOPPED

ctrlVars == <<pending, highest, int_level, nmi_pending>>
intVars  == <<pending, highest, int_level, nmi_pending, int_mask, stopped>>

Levels == 0..7

IRQ_NMI_DEVICE    == 7
IRQ_XOSERA_DEVICE == 2

\* Mutant: the search runs past level 0 when nothing is pending.
HighestOfNone(S) == CHOOSE h \in -1..7 : /\ h = -1 \/ h \in S
                                        /\ \A k \in Levels : k > h => k \notin S

(***************************************************************************)
(* The downward search of int_controller_clear: the first level from 7     *)
(* that is pending, 0 when none is.                                        *)
(***************************************************************************)
HighestOf(S) == CHOOSE h \in Levels : /\ h = 0 \/ h \in S
                                      /\ \A k \in Levels : k > h => k \notin S

\* m68k_set_irq: drive the pins; an edge to level 7 latches an NMI.
M68kSetIrq(level, nmi) ==
  /\ int_level' = level
  /\ nmi_pending' = IF int_level # 7 /\ level = 7 THEN TRUE ELSE nmi

IntControllerSet(v) ==
  /\ pending' = pending \union {v}
  /\ IF v \notin pending /\ v > highest
     THEN highest' = v /\ M68kSetIrq(v, nmi_pending)
     ELSE UNCHANGED <<highest, int_level, nmi_pending>>

(***************************************************************************)
(* nmi is the NMI latch as the caller leaves it before the pins move.      *)
(***************************************************************************)
ClearLine(v, nmi) ==
  /\ pending' = pending \ {v}
  /\ highest' = HighestOf(pending \ {v})
  /\ M68kSetIrq(HighestOf(pending \ {v}), nmi)

IntControllerClear(v) == ClearLine(v, nmi_pending)

(***************************************************************************)
(* m68ki_check_interrupts with status register mask m.  Accepted is its    *)
(* condition.  The acknowledge callback (cpu_irq_ack) of the NMI device    *)
(* clears its line; the one of Xosera leaves the line pending.             *)
(***************************************************************************)
Accepted(m) == nmi_pending \/ int_level > m

AcceptedLevel == IF nmi_pending THEN 7 ELSE int_level

\* Mutant: the exception does not end the stopped state.
ExceptionStaysStopped ==
  /\ stopped' = stopped
  /\ int_mask' = AcceptedLevel
  /\ IF AcceptedLevel = IRQ_NMI_DEVICE
     THEN ClearLine(IRQ_NMI_DEVICE, FALSE)
     ELSE UNCHANGED ctrlVars

ExceptionInterrupt ==
  /\ stopped' = FALSE
  /\ int_mask' = AcceptedLevel
  /\ IF AcceptedLevel = IRQ_NMI_DEVICE
     THEN ClearLine(IRQ_NMI_DEVICE, FALSE)
     ELSE UNCHANGED ctrlVars

\* The check with mask m, the CPU being stopped or not before it.
CheckInterrupts(m, isStopped) ==
  IF Accepted(m)
  THEN ExceptionInterrupt
  ELSE int_mask' = m /\ stopped' = isStopped /\ UNCHANGED ctrlVars

(***************************************************************************)
(* m68k_pulse_reset: the mask goes to 7 and the pins to 0.  Neither the    *)
(* NMI latch nor the controller of sim_main.cpp is touched.                *)
(***************************************************************************)
PulseReset ==
  /\ int_mask' = 7
  /\ int_level' = 0
  /\ stopped' = FALSE
  /\ UNCHANGED <<pending, highest, nmi_pending>>

\* The zero-initialised globals the simulator starts with.
InterruptsInit ==
  /\ pending = {}
  /\ highest = 0
  /\ int_level = 0
  /\ nmi_pending = FALSE
  /\ int_mask = 0
  /\ stopped = FALSE

LineTypes ==
  /\ pending \subseteq 1..7
  /\ highest \in Levels /\ int_level \in Levels /\ int_mask \in Levels

=============================================================================
