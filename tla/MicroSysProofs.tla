--------------------------- MODULE MicroSysProofs ---------------------------
(***************************************************************************)
(* What is proved of MicroSys, for every strobe length, boot time, set of  *)
(* accesses, masks, interrupt levels and events that its assumptions       *)
(* allow: the invariants, the action property and the refinement of        *)
(* XoseraBus.  TypeOK and Inv are inductive together.  Lemmas without an   *)
(* invariant come first (the search of the interrupt controller, what a    *)
(* step leaves alone, the types), then one for each step and part of Inv,  *)
(* then the theorems.                                                      *)
(***************************************************************************)
EXTENDS MicroSysInvariant, TLAPS

USE DEF Levels, IRQ_NMI_DEVICE, IRQ_XOSERA_DEVICE

-----------------------------------------------------------------------------
(* The search of the interrupt controller.                                 *)

\* The search of int_controller_clear always ends somewhere.
LEMMA HighestExists ==
  ASSUME NEW S
  PROVE \E h \in Levels : /\ h = 0 \/ h \in S
                          /\ \A k \in Levels : k > h => k \notin S
<1>1. CASE 7 \in S
  BY <1>1
<1>2. CASE 7 \notin S /\ 6 \in S
  BY <1>2
<1>3. CASE {6, 7} \cap S = {} /\ 5 \in S
  BY <1>3
<1>4. CASE {5, 6, 7} \cap S = {} /\ 4 \in S
  BY <1>4
<1>5. CASE {4, 5, 6, 7} \cap S = {} /\ 3 \in S
  BY <1>5
<1>6. CASE {3, 4, 5, 6, 7} \cap S = {} /\ 2 \in S
  BY <1>6
<1>7. CASE {2, 3, 4, 5, 6, 7} \cap S = {}
  BY <1>7
<1> QED
  BY <1>1, <1>2, <1>3, <1>4, <1>5, <1>6, <1>7

\* It ends at the highest pending line, or at 0 when no line is pending.
LEMMA HighestOfMax ==
  ASSUME NEW S
  PROVE /\ HighestOf(S) \in Levels
        /\ HighestOf(S) = 0 \/ HighestOf(S) \in S
        /\ \A k \in Levels : k > HighestOf(S) => k \notin S
BY HighestExists DEF HighestOf

\* No line pending: the pins go to 0.
LEMMA HighestOfNothing == HighestOf({}) = 0
BY HighestOfMax

\* One line pending: the pins show it.
LEMMA HighestOfOne ==
  ASSUME NEW v \in 1..7
  PROVE HighestOf({v}) = v
BY HighestOfMax

-----------------------------------------------------------------------------
(* What the steps leave alone.                                             *)

USE DEF vars, mainVars, flagVars, strobeVars, pinVars, devVars, cpuVars,
        intVars, ctrlVars, busHist, irqHist
USE DEF OnlyMpc, OnlyCpc, CpuFrame, BusFrame, InstructionFrame
USE DEF MainLocked, Ended, Dead, BusPlaces

\* Main never touches the CPU, its interrupt pins or the controller.
LEMMA MainKeeps ==
  ASSUME MainStep
  PROVE UNCHANGED <<intVars, access, accesses, servicing, reset_cycles, late,
                    serviceFresh>>
BY DEF MainStep, MainTop, MainPaused, MainCheck, MainJoin, MainLoad,
   MainLoadFails, MainExit, MainFinal, MainLock, MainReset, MainFrameDone,
   MainStrobe, MainDecrement, MainRelease, MainEval

\* An event touches what main owns, and the pause flag.
LEMMA EventKeeps ==
  ASSUME NEW e \in Events, SdlEvent(e)
  PROVE UNCHANGED <<mpc, ticks, is_m68k_running, is_m68k_reset, is_m68k_irq,
                    strobeVars, reset, devVars, cpuVars, intVars, busHist,
                    irqHist>>
BY DEF SdlEvent

\* The loop of m68k() touches neither main nor the pins nor Xosera.
LEMMA LoopKeeps ==
  ASSUME LoopStep
  PROVE UNCHANGED <<mainVars, is_m68k_running, g_is_paused, strobeVars, reset,
                    devVars, busHist, access>>
BY DEF LoopStep, CpuResetAs, CpuLoop, CpuPause, CpuTestReset, CpuReset,
   CpuTestIrq, CpuIrq, CpuExecute, CpuEnd

\* Nor does an instruction, up to the call of an access; a fault ends main.
LEMMA InstructionKeeps ==
  ASSUME InstructionStep
  PROVE UNCHANGED <<quit, manual_reset, was_loaded, ticks, flagVars,
                    strobeVars, reset, devVars, servicing, reset_cycles,
                    busHist, irqHist>>
BY DEF InstructionStep, InstructionDone, ResetInstruction, Fault, SetSr, Stop,
   BeginAccess

\* The history a new access starts with.
LEMMA NewHistory ==
  ASSUME StartHistory
  PROVE /\ served' = 0 /\ width' = 0 /\ excused' = FALSE
        /\ xosera_cs_n = 0 => torn' = TRUE
        /\ xosera_cs_n = 1 => torn' = FALSE
<1>1. torn' = (xosera_cs_n = 0) /\ served' = 0 /\ width' = 0 /\ excused' = FALSE
  BY Zenon DEF StartHistory
<1>2. xosera_cs_n = 0 => torn' = TRUE
  BY <1>1, Zenon
<1>3. xosera_cs_n = 1 => ~(xosera_cs_n = 0)
  OBVIOUS
<1>4. ~(xosera_cs_n = 0) => torn' = FALSE
  BY <1>1, Zenon
<1> QED BY <1>1, <1>2, <1>3, <1>4, Zenon

\* An access touches the pins, the counter and the interrupt line.
LEMMA BusKeeps ==
  ASSUME BusStep
  PROVE UNCHANGED <<mainVars, flagVars, reset, devVars, access, accesses,
                    servicing, reset_cycles, int_mask, stopped, irqHist>>
BY DEF BusStep, LockedStep, WriteDriveFor, ReadWait, ReadDrive, ReadArm,
   ReadStrobe, ReadData, WriteWait, WriteDrive

-----------------------------------------------------------------------------
(* Types.                                                                  *)

\* A decrement finds something to take from.
DecrementSafe == mpc = "dec" => assert_xosera_strobe_counter > 0

(***************************************************************************)
(* BooleanTypes, in the form the SMT solver takes.                         *)
(***************************************************************************)
IsTruth(x) == x = TRUE \/ x = FALSE

Truths ==
  /\ IsTruth(quit) /\ IsTruth(manual_reset)
  /\ IsTruth(was_loaded) /\ IsTruth(is_m68k_running)
  /\ IsTruth(is_m68k_reset) /\ IsTruth(is_m68k_irq)
  /\ IsTruth(g_is_paused) /\ IsTruth(servicing)
  /\ IsTruth(reset_cycles) /\ IsTruth(nmi_pending)
  /\ IsTruth(stopped) /\ IsTruth(torn)
  /\ IsTruth(excused) /\ IsTruth(needReset)
  /\ IsTruth(flagFresh) /\ IsTruth(serviceFresh)

\* A truth is a Boolean, said without membership.
LEMMA TruthIsBoolean ==
  ASSUME NEW x
  PROVE IsTruth(x) <=> x \in BOOLEAN
BY Zenon DEF IsTruth

\* The two forms say the same.
LEMMA TruthsAreTypes ==
  /\ Truths <=> BooleanTypes
  /\ Truths' <=> BooleanTypes'
BY TruthIsBoolean, Zenon DEF Truths, BooleanTypes

\* An interrupt taken, or not taken, leaves the pins and the mask in 0..7.
LEMMA CheckKeepsTypes ==
  ASSUME LineTypes, NEW m \in Levels, NEW b, CheckInterrupts(m, b)
  PROVE LineTypes'
<1>1. AcceptedLevel \in Levels
  BY DEF AcceptedLevel, LineTypes
<1>2. CASE ~Accepted(m)
  BY <1>2 DEF CheckInterrupts, LineTypes
<1>3. CASE Accepted(m) /\ AcceptedLevel # 7
  BY <1>1, <1>3 DEF CheckInterrupts, ExceptionInterrupt, LineTypes
<1>4. CASE Accepted(m) /\ AcceptedLevel = 7
  BY <1>1, <1>4, HighestOfMax
  DEF CheckInterrupts, ExceptionInterrupt, ClearLine, M68kSetIrq, LineTypes
<1> QED
  BY <1>2, <1>3, <1>4

\* The Boolean variables under a main step.
LEMMA TruthsMain ==
  ASSUME Truths, MainStep
  PROVE Truths'
BY DEF Truths, IsTruth, MainStep, MainTop, MainPaused, MainCheck, MainJoin,
   MainLoad, MainLoadFails, MainExit, MainFinal, MainLock, MainReset,
   MainFrameDone, MainStrobe, MainDecrement, MainRelease, MainEval

\* The Boolean variables under an event.
LEMMA TruthsEvent ==
  ASSUME Truths, NEW e \in Events, SdlEvent(e)
  PROVE Truths'
BY DEF Truths, IsTruth, SdlEvent

\* The Boolean variables under a step of the loop of m68k().
LEMMA TruthsLoop ==
  ASSUME Truths, LoopStep
  PROVE Truths'
BY DEF Truths, IsTruth, LoopStep, CpuLoop, CpuPause, CpuTestReset, CpuReset,
   CpuTestIrq, CpuIrq, CpuExecute, CpuEnd, CpuResetAs, PulseReset,
   IntControllerSet, CheckInterrupts, ExceptionInterrupt, IntControllerClear,
   ClearLine, M68kSetIrq

\* The Boolean variables under a step of an instruction.
LEMMA TruthsInstruction ==
  ASSUME Truths, InstructionStep
  PROVE Truths'
BY DEF Truths, IsTruth, InstructionStep, InstructionDone, ResetInstruction,
   Fault, SetSr, Stop, BeginAccess, CheckInterrupts, ExceptionInterrupt,
   IntControllerClear, ClearLine, M68kSetIrq

\* The Boolean variables under a step on the bus.
LEMMA TruthsBus ==
  ASSUME Truths, BusStep
  PROVE Truths'
BY DEF Truths, IsTruth, BusStep, ReadWait, ReadDrive, ReadArm, ReadStrobe,
   ReadData, WriteWait, WriteDrive, LockedStep, WriteDriveFor, StartHistory,
   IntControllerClear, ClearLine, M68kSetIrq

\* The place of main and its clock under a step of main.
LEMMA MainTypesMain ==
  ASSUME MainTypes, MainStep
  PROVE MainTypes'
<1>1. CASE MainCheck
  BY <1>1 DEF MainTypes, MainPlaces, MainCheck, HasThread
<1>2. CASE MainExit
  BY <1>2 DEF MainTypes, MainPlaces, MainExit, HasThread
<1>3. CASE MainReset
  BY <1>3, BootAssumption DEF MainTypes, MainPlaces, MainReset
<1>4. CASE MainTop \/ MainPaused \/ MainJoin \/ MainLoad \/ MainLoadFails \/
   MainFinal \/ MainLock \/ MainFrameDone \/ MainStrobe \/ MainDecrement \/
   MainRelease \/ MainEval
  BY <1>4 DEF MainTypes, MainPlaces, MainTop, MainPaused, MainJoin, MainLoad,
     MainLoadFails, MainFinal, MainLock, MainFrameDone, MainStrobe,
     MainDecrement, MainRelease, MainEval, HasThread
<1> QED
  BY <1>1, <1>2, <1>3, <1>4 DEF MainStep

\* The counter, the pins and Xosera under a step of main.
LEMMA BusTypesMain ==
  ASSUME BusTypes, DecrementSafe, MainStep
  PROVE BusTypes'
<1>1. CASE MainDecrement
  BY <1>1, StrobeAssumption DEF BusTypes, MainDecrement, DecrementSafe
<1>2. CASE MainEval
  BY <1>2, IntrAssumption DEF BusTypes, MainEval, XoseraEdge
<1>3. CASE MainTop
  BY <1>3 DEF BusTypes, MainTop
<1>4. CASE MainPaused
  BY <1>4 DEF BusTypes, MainPaused
<1>5. CASE MainCheck
  BY <1>5 DEF BusTypes, MainCheck, HasThread
<1>6. CASE MainJoin
  BY <1>6 DEF BusTypes, MainJoin
<1>7. CASE MainLoad
  BY <1>7 DEF BusTypes, MainLoad
<1>8. CASE MainLoadFails
  BY <1>8 DEF BusTypes, MainLoadFails
<1>9. CASE MainExit
  BY <1>9 DEF BusTypes, MainExit, HasThread
<1>10. CASE MainFinal
  BY <1>10 DEF BusTypes, MainFinal
<1>11. CASE MainLock
  BY <1>11 DEF BusTypes, MainLock, HasThread
<1>12. CASE MainReset
  BY <1>12 DEF BusTypes, MainReset
<1>13. CASE MainFrameDone
  BY <1>13 DEF BusTypes, MainFrameDone
<1>14. CASE MainStrobe
  BY <1>14 DEF BusTypes, MainStrobe
<1>15. CASE MainRelease
  BY <1>15 DEF BusTypes, MainRelease
<1> QED
  BY <1>1, <1>2, <1>3, <1>4, <1>5, <1>6, <1>7, <1>8, <1>9, <1>10, <1>11,
     <1>12, <1>13, <1>14, <1>15 DEF MainStep

\* The counts of the history under a step of main.
LEMMA HistoryTypesMain ==
  ASSUME HistoryTypes, MainStep
  PROVE HistoryTypes'
<1>1. CASE MainEval
  BY <1>1, StrobeAssumption DEF HistoryTypes, MainEval
<1>2. CASE MainTop \/ MainPaused \/ MainCheck \/ MainJoin \/ MainLoad \/
   MainLoadFails \/ MainExit \/ MainFinal \/ MainLock \/ MainReset \/
   MainFrameDone \/ MainStrobe \/ MainDecrement \/ MainRelease
  BY <1>2 DEF HistoryTypes, MainTop, MainPaused, MainCheck, MainJoin,
     MainLoad, MainLoadFails, MainExit, MainFinal, MainLock, MainReset,
     MainFrameDone, MainStrobe, MainDecrement, MainRelease, HasThread
<1> QED
  BY <1>1, <1>2 DEF MainStep

\* The m68k thread under a step of main.
LEMMA CpuTypesMain ==
  ASSUME CpuTypes, MainStep
  PROVE CpuTypes'
BY DEF CpuTypes, CpuPlaces, MainStep, MainTop, MainPaused, MainCheck,
   MainJoin, MainLoad, MainLoadFails, MainExit, MainFinal, MainLock,
   MainReset, MainFrameDone, MainStrobe, MainDecrement, MainRelease, MainEval

\* The m68k thread under its loop.
LEMMA CpuTypesLoop ==
  ASSUME CpuTypes, LoopStep
  PROVE CpuTypes'
<1>1. CASE CpuReset
  BY <1>1 DEF CpuTypes, CpuPlaces, CpuReset, CpuResetAs
<1>2. CASE CpuEnd
  BY <1>2, MaxAssumption DEF CpuTypes, CpuPlaces, CpuEnd
<1>3. CASE CpuLoop \/ CpuPause \/ CpuTestReset \/ CpuTestIrq \/ CpuIrq \/
   CpuExecute
  BY <1>3 DEF CpuTypes, CpuPlaces, CpuLoop, CpuPause, CpuTestReset,
     CpuTestIrq, CpuIrq, CpuExecute, CheckInterrupts
<1> QED
  BY <1>1, <1>2, <1>3 DEF LoopStep

\* The interrupt path under the loop of m68k().
LEMMA LineTypesLoop ==
  ASSUME LineTypes, LoopStep
  PROVE LineTypes'
<1>1. CASE CpuReset
  BY <1>1 DEF LineTypes, CpuReset, CpuResetAs, PulseReset
<1>2. CASE CpuIrq
  BY <1>2 DEF LineTypes, CpuIrq, IntControllerSet, M68kSetIrq
<1>3. CASE CpuExecute
  BY <1>3, CheckKeepsTypes DEF LineTypes, CpuExecute
<1>4. CASE CpuEnd
  BY <1>4, HighestOfMax DEF LineTypes, CpuEnd, IntControllerClear, ClearLine,
     M68kSetIrq
<1>5. CASE CpuLoop \/ CpuPause \/ CpuTestReset \/ CpuTestIrq
  BY <1>5 DEF LineTypes, CpuLoop, CpuPause, CpuTestReset, CpuTestIrq
<1> QED
  BY <1>1, <1>2, <1>3, <1>4, <1>5 DEF LoopStep

\* The counts of the history under the loop of m68k().
LEMMA HistoryTypesLoop ==
  ASSUME HistoryTypes, LoopStep
  PROVE HistoryTypes'
<1>1. CASE CpuReset
  BY <1>1 DEF HistoryTypes, CpuReset, CpuResetAs
<1>2. CASE CpuLoop \/ CpuPause \/ CpuTestReset \/ CpuTestIrq \/ CpuIrq \/
   CpuExecute \/ CpuEnd
  BY <1>2 DEF HistoryTypes, CpuLoop, CpuPause, CpuTestReset, CpuTestIrq,
     CpuIrq, CpuExecute, CpuEnd, CheckInterrupts
<1> QED
  BY <1>1, <1>2 DEF LoopStep

\* The interrupt path under an instruction.
LEMMA LineTypesInstruction ==
  ASSUME LineTypes, InstructionStep
  PROVE LineTypes'
<1>1. CASE ResetInstruction
  BY <1>1, HighestOfMax DEF LineTypes, ResetInstruction, IntControllerClear,
     ClearLine, M68kSetIrq
<1>2. CASE \E m \in SrMasks : SetSr(m)
  BY <1>2, CheckKeepsTypes, MaskAssumption DEF LineTypes, SetSr
<1>3. CASE \E m \in SrMasks : Stop(m)
  BY <1>3, CheckKeepsTypes, MaskAssumption DEF LineTypes, Stop
<1>4. CASE InstructionDone \/ Fault \/ (\E a \in Accesses : BeginAccess(a))
  BY <1>4 DEF LineTypes, InstructionDone, Fault, BeginAccess
<1> QED
  BY <1>1, <1>2, <1>3, <1>4 DEF InstructionStep

\* A faulting instruction ends the process.
LEMMA MainTypesInstruction ==
  ASSUME MainTypes, InstructionStep
  PROVE MainTypes'
BY DEF MainTypes, MainPlaces, InstructionStep, InstructionDone,
   ResetInstruction, Fault, SetSr, Stop, BeginAccess

\* The m68k thread under an instruction.
LEMMA CpuTypesInstruction ==
  ASSUME CpuTypes, InstructionStep
  PROVE CpuTypes'
<1>1. CASE \E a \in Accesses : BeginAccess(a)
  BY <1>1, AccessAssumption, MaxAssumption DEF CpuTypes, CpuPlaces,
     BeginAccess
<1>2. CASE InstructionDone \/ ResetInstruction \/ Fault \/ (\E m \in SrMasks :
   SetSr(m)) \/ (\E m \in SrMasks : Stop(m))
  BY <1>2 DEF CpuTypes, CpuPlaces, InstructionDone, ResetInstruction, Fault,
     SetSr, Stop, CheckInterrupts
<1> QED
  BY <1>1, <1>2 DEF InstructionStep

\* The counter and the pins under a step on the bus.
LEMMA BusTypesBus ==
  ASSUME BusTypes, CpuTypes, BusStep
  PROVE BusTypes'
<1>1. CASE ReadDrive
  BY <1>1 DEF BusTypes, ReadDrive, CpuTypes, RegOf
<1>2. CASE ReadArm
  BY <1>2, StrobeAssumption DEF BusTypes, ReadArm
<1>3. CASE WriteDrive
  BY <1>3, StrobeAssumption DEF BusTypes, WriteDrive, CpuTypes, RegOf,
     WriteDriveFor
<1>4. CASE ReadWait \/ ReadStrobe \/ ReadData \/ WriteWait
  BY <1>4 DEF BusTypes, ReadWait, ReadStrobe, ReadData, WriteWait
<1> QED
  BY <1>1, <1>2, <1>3, <1>4 DEF BusStep, LockedStep

\* The m68k thread under a step on the bus.
LEMMA CpuTypesBus ==
  ASSUME CpuTypes, BusStep
  PROVE CpuTypes'
<1>1. CASE WriteDrive
  BY <1>1 DEF CpuTypes, CpuPlaces, WriteDrive, WriteDriveFor
<1>2. CASE ReadWait \/ ReadDrive \/ ReadArm \/ ReadStrobe \/ ReadData \/
   WriteWait
  BY <1>2 DEF CpuTypes, CpuPlaces, ReadWait, ReadDrive, ReadArm, ReadStrobe,
     ReadData, WriteWait
<1> QED
  BY <1>1, <1>2 DEF BusStep, LockedStep

\* The interrupt path under a step on the bus.
LEMMA LineTypesBus ==
  ASSUME LineTypes, BusStep
  PROVE LineTypes'
<1>1. CASE ReadData
  BY <1>1, HighestOfMax DEF LineTypes, ReadData, IntControllerClear,
     ClearLine, M68kSetIrq
<1>2. CASE WriteDrive
  BY <1>2 DEF LineTypes, WriteDrive, WriteDriveFor
<1>3. CASE ReadWait \/ ReadDrive \/ ReadArm \/ ReadStrobe \/ WriteWait
  BY <1>3 DEF LineTypes, ReadWait, ReadDrive, ReadArm, ReadStrobe, WriteWait
<1> QED
  BY <1>1, <1>2, <1>3 DEF BusStep, LockedStep

\* The counts of the history under a step on the bus.
LEMMA HistoryTypesBus ==
  ASSUME HistoryTypes, BusStep
  PROVE HistoryTypes'
<1>1. CASE ReadDrive
  BY <1>1, StrobeAssumption DEF HistoryTypes, ReadDrive, StartHistory
<1>2. CASE WriteDrive
  BY <1>2, StrobeAssumption DEF HistoryTypes, WriteDrive, WriteDriveFor,
     StartHistory
<1>3. CASE ReadWait \/ ReadArm \/ ReadStrobe \/ ReadData \/ WriteWait
  BY <1>3 DEF HistoryTypes, ReadWait, ReadArm, ReadStrobe, ReadData, WriteWait
<1> QED
  BY <1>1, <1>2, <1>3 DEF BusStep, LockedStep

\* Every step keeps TypeOK.
LEMMA TypeStep ==
  ASSUME TypeOK, DecrementSafe, [Next]_vars
  PROVE TypeOK'
<1> USE DEF TypeOK
<1>1. CASE MainStep
  <2>1. BooleanTypes'
    BY <1>1, TruthsMain, TruthsAreTypes
  <2>2. LineTypes'
    BY <1>1, MainKeeps DEF LineTypes
  <2> QED
    BY <1>1, <2>1, <2>2, MainTypesMain, BusTypesMain, CpuTypesMain,
       HistoryTypesMain
<1>2. CASE \E e \in Events : SdlEvent(e)
  <2>1. BooleanTypes'
    BY <1>2, TruthsEvent, TruthsAreTypes
  <2>2. MainTypes' /\ BusTypes'
    BY <1>2, EventKeeps DEF MainTypes, BusTypes
  <2>3. CpuTypes'
    BY <1>2, EventKeeps DEF CpuTypes
  <2>4. LineTypes' /\ HistoryTypes'
    BY <1>2, EventKeeps DEF LineTypes, HistoryTypes
  <2> QED
    BY <2>1, <2>2, <2>3, <2>4
<1>3. CASE LoopStep
  <2>1. BooleanTypes'
    BY <1>3, TruthsLoop, TruthsAreTypes
  <2>2. MainTypes' /\ BusTypes'
    BY <1>3, LoopKeeps DEF MainTypes, BusTypes
  <2> QED
    BY <1>3, <2>1, <2>2, CpuTypesLoop, LineTypesLoop, HistoryTypesLoop
<1>4. CASE InstructionStep
  <2>1. BooleanTypes'
    BY <1>4, TruthsInstruction, TruthsAreTypes
  <2>2. BusTypes' /\ HistoryTypes'
    BY <1>4, InstructionKeeps DEF BusTypes, HistoryTypes
  <2> QED
    BY <1>4, <2>1, <2>2, MainTypesInstruction, CpuTypesInstruction,
       LineTypesInstruction
<1>5. CASE BusStep
  <2>1. BooleanTypes'
    BY <1>5, TruthsBus, TruthsAreTypes
  <2>2. MainTypes'
    BY <1>5, BusKeeps DEF MainTypes
  <2> QED
    BY <1>5, <2>1, <2>2, BusTypesBus, CpuTypesBus, LineTypesBus,
       HistoryTypesBus
<1>6. CASE UNCHANGED vars
  BY <1>6
  DEF BooleanTypes, MainTypes, BusTypes, CpuTypes, LineTypes, HistoryTypes
<1> QED
  BY <1>1, <1>2, <1>3, <1>4, <1>5, <1>6 DEF Next, CpuStep, Finished

USE DEF vars, mainVars, flagVars, strobeVars, pinVars, devVars, cpuVars,
        intVars, ctrlVars, busHist, irqHist
USE DEF OnlyMpc, OnlyCpc, CpuFrame, BusFrame, InstructionFrame
USE DEF MainLocked, Ended, Dead, BusPlaces

-----------------------------------------------------------------------------
(* Where the threads stand.                                                *)

\* ThreadInv under a step of main.
LEMMA ThreadMain ==
  ASSUME ThreadInv, MainStep
  PROVE ThreadInv'
<1>1. CASE MainCheck
  BY <1>1 DEF ThreadInv, LoadsAlone, MainCheck, HasThread
<1>2. CASE MainExit
  BY <1>2 DEF ThreadInv, LoadsAlone, MainExit, HasThread
<1>3. CASE MainLoad
  BY <1>3 DEF ThreadInv, LoadsAlone, MainLoad
<1>4. CASE MainTop \/ MainPaused \/ MainJoin \/ MainLoadFails \/ MainFinal \/
   MainLock \/ MainReset \/ MainFrameDone \/ MainStrobe \/ MainDecrement \/
   MainRelease \/ MainEval
  BY <1>4 DEF ThreadInv, LoadsAlone, MainTop, MainPaused, MainJoin,
     MainLoadFails, MainFinal, MainLock, MainReset, MainFrameDone, MainStrobe,
     MainDecrement, MainRelease, MainEval, HasThread
<1> QED
  BY <1>1, <1>2, <1>3, <1>4 DEF MainStep

\* ThreadInv under an event.
LEMMA ThreadEvent ==
  ASSUME ThreadInv, NEW e \in Events, SdlEvent(e)
  PROVE ThreadInv'
BY DEF ThreadInv, LoadsAlone, SdlEvent

\* ThreadInv under the loop of m68k().
LEMMA ThreadLoop ==
  ASSUME ThreadInv, LoopStep
  PROVE ThreadInv'
<1>1. CASE CpuReset
  BY <1>1 DEF ThreadInv, LoadsAlone, CpuReset, CpuResetAs
<1>2. CASE CpuLoop \/ CpuPause \/ CpuTestReset \/ CpuTestIrq \/ CpuIrq \/
   CpuExecute \/ CpuEnd
  BY <1>2 DEF ThreadInv, LoadsAlone, CpuLoop, CpuPause, CpuTestReset,
     CpuTestIrq, CpuIrq, CpuExecute, CpuEnd, CheckInterrupts
<1> QED
  BY <1>1, <1>2 DEF LoopStep

\* ThreadInv under an instruction.
LEMMA ThreadInstruction ==
  ASSUME ThreadInv, InstructionStep
  PROVE ThreadInv'
BY DEF ThreadInv, LoadsAlone, InstructionStep, InstructionDone,
   ResetInstruction, Fault, SetSr, Stop, BeginAccess

\* ThreadInv under a step on the bus.
LEMMA ThreadBus ==
  ASSUME ThreadInv, BusStep
  PROVE ThreadInv'
<1>1. CASE WriteDrive
  BY <1>1 DEF ThreadInv, LoadsAlone, WriteDrive, WriteDriveFor
<1>2. CASE ReadWait \/ ReadDrive \/ ReadArm \/ ReadStrobe \/ ReadData \/
   WriteWait
  BY <1>2 DEF ThreadInv, LoadsAlone, ReadWait, ReadDrive, ReadArm, ReadStrobe,
     ReadData, WriteWait
<1> QED
  BY <1>1, <1>2 DEF BusStep, LockedStep

\* Every step keeps ThreadInv.
LEMMA ThreadStep ==
  ASSUME ThreadInv, [Next]_vars
  PROVE ThreadInv'
<1>1. CASE MainStep
  BY <1>1, ThreadMain
<1>2. CASE \E e \in Events : SdlEvent(e)
  BY <1>2, ThreadEvent
<1>3. CASE LoopStep
  BY <1>3, ThreadLoop
<1>4. CASE InstructionStep
  BY <1>4, ThreadInstruction
<1>5. CASE BusStep
  BY <1>5, ThreadBus
<1>6. CASE UNCHANGED vars
  BY <1>6 DEF ThreadInv, LoadsAlone
<1> QED
  BY <1>1, <1>2, <1>3, <1>4, <1>5, <1>6 DEF Next, CpuStep, Finished

-----------------------------------------------------------------------------
(* The strobe.                                                             *)

\* StrobeInv under a step of main.
LEMMA StrobeMain ==
  ASSUME BusTypes, ThreadInv, StrobeInv, MainStep
  PROVE StrobeInv'
<1>1. CASE MainDecrement
  BY <1>1 DEF StrobeInv, SelectFollowsCounter, ThreadInv, MainDecrement,
     BusTypes
<1>2. CASE MainRelease
  BY <1>2 DEF StrobeInv, SelectFollowsCounter, ThreadInv, MainRelease,
     BusTypes
<1>3. CASE MainStrobe
  BY <1>3 DEF StrobeInv, SelectFollowsCounter, ThreadInv, MainStrobe, BusTypes
<1>4. CASE MainEval
  BY <1>4 DEF StrobeInv, SelectFollowsCounter, ThreadInv, MainEval, BusTypes
<1>5. CASE MainReset
  BY <1>5 DEF StrobeInv, SelectFollowsCounter, ThreadInv, MainReset
<1>6. CASE MainLoad
  BY <1>6 DEF StrobeInv, SelectFollowsCounter, ThreadInv, MainLoad, LoadsAlone
<1>7. CASE MainTop
  BY <1>7 DEF StrobeInv, SelectFollowsCounter, ThreadInv, MainTop
<1>8. CASE MainPaused
  BY <1>8 DEF StrobeInv, SelectFollowsCounter, ThreadInv, MainPaused
<1>9. CASE MainCheck
  BY <1>9 DEF StrobeInv, SelectFollowsCounter, ThreadInv, MainCheck, HasThread
<1>10. CASE MainJoin
  BY <1>10 DEF StrobeInv, SelectFollowsCounter, ThreadInv, MainJoin
<1>11. CASE MainLoadFails
  BY <1>11 DEF StrobeInv, SelectFollowsCounter, ThreadInv, MainLoadFails
<1>12. CASE MainExit
  BY <1>12 DEF StrobeInv, SelectFollowsCounter, ThreadInv, MainExit, HasThread
<1>13. CASE MainFinal
  BY <1>13 DEF StrobeInv, SelectFollowsCounter, ThreadInv, MainFinal
<1>14. CASE MainLock
  BY <1>14 DEF StrobeInv, SelectFollowsCounter, ThreadInv, MainLock, HasThread
<1>15. CASE MainFrameDone
  BY <1>15 DEF StrobeInv, SelectFollowsCounter, ThreadInv, MainFrameDone
<1> QED
  BY <1>1, <1>2, <1>3, <1>4, <1>5, <1>6, <1>7, <1>8, <1>9, <1>10, <1>11,
     <1>12, <1>13, <1>14, <1>15 DEF MainStep

\* StrobeInv under an event.
LEMMA StrobeEvent ==
  ASSUME BusTypes, ThreadInv, StrobeInv, NEW e \in Events, SdlEvent(e)
  PROVE StrobeInv'
BY DEF StrobeInv, SelectFollowsCounter, SdlEvent

\* StrobeInv under the loop of m68k().
LEMMA StrobeLoop ==
  ASSUME BusTypes, ThreadInv, StrobeInv, LoopStep
  PROVE StrobeInv'
<1>1. CASE CpuReset
  BY <1>1 DEF StrobeInv, SelectFollowsCounter, CpuReset, CpuResetAs
<1>2. CASE CpuLoop \/ CpuPause \/ CpuTestReset \/ CpuTestIrq \/ CpuIrq \/
   CpuExecute \/ CpuEnd
  BY <1>2 DEF StrobeInv, SelectFollowsCounter, CpuLoop, CpuPause,
     CpuTestReset, CpuTestIrq, CpuIrq, CpuExecute, CpuEnd, CheckInterrupts
<1> QED
  BY <1>1, <1>2 DEF LoopStep

\* StrobeInv under an instruction.
LEMMA StrobeInstruction ==
  ASSUME BusTypes, ThreadInv, StrobeInv, InstructionStep
  PROVE StrobeInv'
BY DEF StrobeInv, SelectFollowsCounter, InstructionStep, InstructionDone,
   ResetInstruction, Fault, SetSr, Stop, BeginAccess

\* StrobeInv under a step on the bus.
LEMMA StrobeBus ==
  ASSUME BusTypes, ThreadInv, StrobeInv, BusStep
  PROVE StrobeInv'
<1>1. CASE ReadWait
  BY <1>1 DEF StrobeInv, SelectFollowsCounter, ThreadInv, BusTypes, ReadWait,
     StrobeWaitOver
<1>2. CASE ReadDrive
  BY <1>2 DEF StrobeInv, SelectFollowsCounter, ThreadInv, BusTypes, ReadDrive,
     TopMutexFree
<1>3. CASE ReadArm
  BY <1>3, StrobeAssumption DEF StrobeInv, SelectFollowsCounter, ThreadInv,
     BusTypes, ReadArm
<1>4. CASE ReadStrobe
  BY <1>4 DEF StrobeInv, SelectFollowsCounter, ThreadInv, BusTypes,
     ReadStrobe, StrobeWaitOver
<1>5. CASE WriteWait
  BY <1>5 DEF StrobeInv, SelectFollowsCounter, ThreadInv, BusTypes, WriteWait,
     StrobeWaitOver
<1>6. CASE WriteDrive
  BY <1>6, StrobeAssumption DEF StrobeInv, SelectFollowsCounter, ThreadInv,
     BusTypes, WriteDrive, WriteDriveFor, TopMutexFree
<1>7. CASE ReadData
  BY <1>7 DEF StrobeInv, SelectFollowsCounter, ThreadInv, BusTypes, ReadData
<1> QED
  BY <1>1, <1>2, <1>3, <1>4, <1>5, <1>6, <1>7 DEF BusStep, LockedStep

\* Every step keeps StrobeInv.
LEMMA StrobeStep ==
  ASSUME BusTypes, ThreadInv, StrobeInv, [Next]_vars
  PROVE StrobeInv'
<1>1. CASE MainStep
  BY <1>1, StrobeMain
<1>2. CASE \E e \in Events : SdlEvent(e)
  BY <1>2, StrobeEvent
<1>3. CASE LoopStep
  BY <1>3, StrobeLoop
<1>4. CASE InstructionStep
  BY <1>4, StrobeInstruction
<1>5. CASE BusStep
  BY <1>5, StrobeBus
<1>6. CASE UNCHANGED vars
  BY <1>6 DEF StrobeInv, SelectFollowsCounter
<1> QED
  BY <1>1, <1>2, <1>3, <1>4, <1>5, <1>6 DEF Next, CpuStep, Finished

-----------------------------------------------------------------------------
(* Torn accesses.                                                          *)

\* TornInv under a step of main.
LEMMA TornMain ==
  ASSUME BusTypes, ThreadInv, StrobeInv, TornInv, MainStep
  PROVE TornInv'
<1>1. CASE MainCheck
  BY <1>1, StrobeAssumption DEF TornInv, Mixed, StrobeInv, ThreadInv, BusTypes,
     MainCheck, HasThread
<1>2. CASE MainLoad
  BY <1>2, StrobeAssumption DEF TornInv, Mixed, StrobeInv, ThreadInv, BusTypes,
     MainLoad, LoadsAlone
<1>3. CASE MainExit
  BY <1>3, StrobeAssumption DEF TornInv, Mixed, StrobeInv, ThreadInv, BusTypes,
     MainExit, HasThread
<1>4. CASE MainDecrement
  BY <1>4, StrobeAssumption DEF TornInv, Mixed, StrobeInv, ThreadInv, BusTypes,
     MainDecrement
<1>5. CASE MainRelease
  BY <1>5, StrobeAssumption DEF TornInv, Mixed, StrobeInv, ThreadInv, BusTypes,
     MainRelease
<1>6. CASE MainStrobe
  BY <1>6, StrobeAssumption DEF TornInv, Mixed, StrobeInv, ThreadInv, BusTypes,
     MainStrobe
<1>7. CASE MainReset
  BY <1>7, StrobeAssumption DEF TornInv, Mixed, StrobeInv, ThreadInv, BusTypes,
     MainReset
<1>8. CASE MainEval
  <2>1. ~Mixed'
    BY <1>8 DEF MainEval, TornInv, Mixed, ThreadInv, BusTypes
  <2> QED
    BY <2>1 DEF TornInv
<1>9. CASE MainLock
  BY <1>9, StrobeAssumption DEF TornInv, Mixed, StrobeInv, ThreadInv, BusTypes,
     MainLock
<1>10. CASE MainTop \/ MainPaused \/ MainJoin \/ MainLoadFails \/ MainFinal \/
   MainFrameDone
  BY <1>10, StrobeAssumption DEF TornInv, Mixed, StrobeInv, ThreadInv, BusTypes,
     MainTop, MainPaused, MainJoin, MainLoadFails, MainFinal, MainFrameDone
<1> QED
  BY <1>1, <1>2, <1>3, <1>4, <1>5, <1>6, <1>7, <1>8, <1>9, <1>10 DEF MainStep

\* TornInv under an event.
LEMMA TornEvent ==
  ASSUME BusTypes, ThreadInv, StrobeInv, TornInv, NEW e \in Events, SdlEvent(e)
  PROVE TornInv'
BY StrobeAssumption DEF TornInv, Mixed, StrobeInv, ThreadInv, BusTypes, SdlEvent

\* TornInv under the loop of m68k().
LEMMA TornLoop ==
  ASSUME BusTypes, ThreadInv, StrobeInv, TornInv, LoopStep
  PROVE TornInv'
<1>1. CASE CpuReset
  BY <1>1, StrobeAssumption DEF TornInv, Mixed, StrobeInv, ThreadInv, BusTypes,
     CpuReset, CpuResetAs
<1>2. CASE CpuLoop \/ CpuPause \/ CpuTestReset \/ CpuTestIrq \/ CpuIrq \/
   CpuExecute \/ CpuEnd
  BY <1>2, StrobeAssumption DEF TornInv, Mixed, StrobeInv, ThreadInv, BusTypes,
     CpuLoop, CpuPause, CpuTestReset, CpuTestIrq, CpuIrq, CpuExecute, CpuEnd,
     CheckInterrupts
<1> QED
  BY <1>1, <1>2 DEF LoopStep

\* TornInv under an instruction.
LEMMA TornInstruction ==
  ASSUME BusTypes, ThreadInv, StrobeInv, TornInv, InstructionStep
  PROVE TornInv'
BY StrobeAssumption DEF TornInv, Mixed, StrobeInv, ThreadInv, BusTypes,
   InstructionStep, InstructionDone, ResetInstruction, Fault, SetSr, Stop,
   BeginAccess

\* TornInv under a step on the bus.
LEMMA TornBus ==
  ASSUME BusTypes, ThreadInv, StrobeInv, TornInv, BusStep
  PROVE TornInv'
<1>1. CASE ReadWait
  BY <1>1, StrobeAssumption DEF TornInv, Mixed, StrobeInv, ThreadInv, BusTypes,
     ReadWait, StrobeWaitOver
<1>2. CASE ReadDrive
  <2>1. CASE is_m68k_running
    <3>1. xosera_cs_n = 1
      BY <1>2, <2>1
      DEF ReadDrive, TopMutexFree, StrobeInv, SelectFollowsCounter,
          ThreadInv, BusTypes
    <3> QED
      BY <1>2, <3>1, NewHistory DEF ReadDrive, TornInv, Mixed
  <2>2. CASE ~is_m68k_running
    BY <1>2, <2>2, StrobeAssumption, NewHistory DEF ReadDrive, TornInv, Mixed
  <2> QED
    BY <2>1, <2>2
<1>3. CASE ReadArm
  BY <1>3, StrobeAssumption DEF TornInv, Mixed, StrobeInv, ThreadInv, BusTypes,
     ReadArm
<1>4. CASE ReadStrobe
  BY <1>4, StrobeAssumption DEF TornInv, Mixed, StrobeInv, ThreadInv, BusTypes,
     ReadStrobe, StrobeWaitOver
<1>5. CASE WriteWait
  BY <1>5, StrobeAssumption DEF TornInv, Mixed, StrobeInv, ThreadInv, BusTypes,
     WriteWait, StrobeWaitOver
<1>6. CASE WriteDrive
  <2>1. CASE is_m68k_running
    <3>1. xosera_cs_n = 1
      BY <1>6, <2>1
      DEF WriteDrive, WriteDriveFor, TopMutexFree, StrobeInv, SelectFollowsCounter,
          ThreadInv, BusTypes
    <3> QED
      BY <1>6, <3>1, NewHistory DEF WriteDrive, WriteDriveFor, TornInv, Mixed
  <2>2. CASE ~is_m68k_running
    BY <1>6, <2>2, StrobeAssumption, NewHistory
    DEF WriteDrive, WriteDriveFor, TornInv, Mixed
  <2> QED
    BY <2>1, <2>2
<1>7. CASE ReadData
  BY <1>7, StrobeAssumption DEF TornInv, Mixed, StrobeInv, ThreadInv, BusTypes,
     ReadData
<1> QED
  BY <1>1, <1>2, <1>3, <1>4, <1>5, <1>6, <1>7 DEF BusStep, LockedStep

\* Every step keeps TornInv.
LEMMA TornStep ==
  ASSUME BusTypes, ThreadInv, StrobeInv, TornInv, [Next]_vars
  PROVE TornInv'
<1>1. CASE MainStep
  BY <1>1, TornMain
<1>2. CASE \E e \in Events : SdlEvent(e)
  BY <1>2, TornEvent
<1>3. CASE LoopStep
  BY <1>3, TornLoop
<1>4. CASE InstructionStep
  BY <1>4, TornInstruction
<1>5. CASE BusStep
  BY <1>5, TornBus
<1>6. CASE UNCHANGED vars
  BY <1>6 DEF TornInv, Mixed, StrobeInv, ThreadInv, BusTypes
<1> QED
  BY <1>1, <1>2, <1>3, <1>4, <1>5, <1>6 DEF Next, CpuStep, Finished

-----------------------------------------------------------------------------
(* What Xosera has sampled.                                               *)

\* DeviceInv under a step of main.
LEMMA DeviceMain ==
  ASSUME BusTypes, HistoryTypes, ThreadInv, StrobeInv, TornInv, DeviceInv, MainStep
  PROVE DeviceInv'
<1>1. CASE MainCheck
  BY <1>1, StrobeAssumption DEF DeviceInv, Sampled, StrobeInv,
     SelectFollowsCounter, ThreadInv, TornInv, Mixed, BusTypes, HistoryTypes,
     MainCheck, HasThread
<1>2. CASE MainLoad
  BY <1>2, StrobeAssumption DEF DeviceInv, Sampled, StrobeInv,
     SelectFollowsCounter, ThreadInv, TornInv, Mixed, BusTypes, HistoryTypes,
     MainLoad, LoadsAlone
<1>3. CASE MainExit
  BY <1>3, StrobeAssumption DEF DeviceInv, Sampled, StrobeInv,
     SelectFollowsCounter, ThreadInv, TornInv, Mixed, BusTypes, HistoryTypes,
     MainExit, HasThread
<1>4. CASE MainDecrement
  BY <1>4, StrobeAssumption DEF DeviceInv, Sampled, StrobeInv,
     SelectFollowsCounter, ThreadInv, TornInv, Mixed, BusTypes, HistoryTypes,
     MainDecrement
<1>5. CASE MainRelease
  BY <1>5, StrobeAssumption DEF DeviceInv, Sampled, StrobeInv,
     SelectFollowsCounter, ThreadInv, TornInv, Mixed, BusTypes, HistoryTypes,
     MainRelease
<1>6. CASE MainStrobe
  BY <1>6, StrobeAssumption DEF DeviceInv, Sampled, StrobeInv,
     SelectFollowsCounter, ThreadInv, TornInv, Mixed, BusTypes, HistoryTypes,
     MainStrobe
<1>7. CASE MainReset
  BY <1>7, StrobeAssumption DEF DeviceInv, Sampled, StrobeInv,
     SelectFollowsCounter, ThreadInv, TornInv, Mixed, BusTypes, HistoryTypes,
     MainReset
<1>8. CASE MainEval
  BY <1>8, StrobeAssumption DEF DeviceInv, Sampled, StrobeInv,
     SelectFollowsCounter, ThreadInv, TornInv, Mixed, BusTypes, HistoryTypes,
     MainEval, XoseraEdge
<1>9. CASE MainLock
  BY <1>9, StrobeAssumption DEF DeviceInv, Sampled, StrobeInv,
     SelectFollowsCounter, ThreadInv, TornInv, Mixed, BusTypes, HistoryTypes,
     MainLock
<1>10. CASE MainTop \/ MainPaused \/ MainJoin \/ MainLoadFails \/ MainFinal \/
   MainFrameDone
  BY <1>10, StrobeAssumption DEF DeviceInv, Sampled, StrobeInv,
     SelectFollowsCounter, ThreadInv, TornInv, Mixed, BusTypes, HistoryTypes,
     MainTop, MainPaused, MainJoin, MainLoadFails, MainFinal, MainFrameDone
<1> QED
  BY <1>1, <1>2, <1>3, <1>4, <1>5, <1>6, <1>7, <1>8, <1>9, <1>10 DEF MainStep

\* DeviceInv under an event.
LEMMA DeviceEvent ==
  ASSUME BusTypes, HistoryTypes, ThreadInv, StrobeInv, TornInv, DeviceInv, NEW e \in Events,
         SdlEvent(e)
  PROVE DeviceInv'
BY EventKeeps DEF DeviceInv, Sampled

\* DeviceInv under the loop of m68k().
LEMMA DeviceLoop ==
  ASSUME BusTypes, HistoryTypes, ThreadInv, StrobeInv, TornInv, DeviceInv, LoopStep
  PROVE DeviceInv'
<1>1. CASE CpuReset
  BY <1>1, StrobeAssumption DEF DeviceInv, Sampled, StrobeInv,
     SelectFollowsCounter, ThreadInv, TornInv, Mixed, BusTypes, HistoryTypes,
     CpuReset, CpuResetAs
<1>2. CASE CpuLoop \/ CpuPause \/ CpuTestReset \/ CpuTestIrq \/ CpuIrq \/
   CpuExecute \/ CpuEnd
  BY <1>2, StrobeAssumption DEF DeviceInv, Sampled, StrobeInv,
     SelectFollowsCounter, ThreadInv, TornInv, Mixed, BusTypes, HistoryTypes,
     CpuLoop, CpuPause, CpuTestReset, CpuTestIrq, CpuIrq, CpuExecute, CpuEnd,
     CheckInterrupts
<1> QED
  BY <1>1, <1>2 DEF LoopStep

\* DeviceInv under an instruction.
LEMMA DeviceInstruction ==
  ASSUME BusTypes, HistoryTypes, ThreadInv, StrobeInv, TornInv, DeviceInv, InstructionStep
  PROVE DeviceInv'
<1>1. CASE InstructionDone
  BY <1>1, StrobeAssumption DEF DeviceInv, Sampled, BusTypes, HistoryTypes,
     InstructionDone
<1>2. CASE ResetInstruction
  BY <1>2, StrobeAssumption DEF DeviceInv, Sampled, BusTypes, HistoryTypes,
     ResetInstruction
<1>3. CASE Fault
  BY <1>3, StrobeAssumption DEF DeviceInv, Sampled, BusTypes, HistoryTypes,
     Fault
<1>4. CASE (\E m \in SrMasks : SetSr(m))
  BY <1>4, StrobeAssumption DEF DeviceInv, Sampled, BusTypes, HistoryTypes,
     SetSr, CheckInterrupts
<1>5. CASE (\E m \in SrMasks : Stop(m))
  BY <1>5, StrobeAssumption DEF DeviceInv, Sampled, BusTypes, HistoryTypes,
     Stop, CheckInterrupts
<1>6. CASE (\E a \in Accesses : BeginAccess(a))
  BY <1>6, StrobeAssumption DEF DeviceInv, Sampled, BusTypes, HistoryTypes,
     BeginAccess
<1> QED
  BY <1>1, <1>2, <1>3, <1>4, <1>5, <1>6 DEF InstructionStep

\* DeviceInv under a step on the bus.
LEMMA DeviceBus ==
  ASSUME BusTypes, HistoryTypes, ThreadInv, StrobeInv, TornInv, DeviceInv, BusStep
  PROVE DeviceInv'
<1>1. CASE ReadWait
  BY <1>1, StrobeAssumption DEF DeviceInv, Sampled, StrobeInv,
     SelectFollowsCounter, ThreadInv, TornInv, Mixed, BusTypes, HistoryTypes,
     ReadWait, StrobeWaitOver
<1>2. CASE ReadDrive
  BY <1>2, StrobeAssumption, NewHistory DEF DeviceInv, Sampled, StrobeInv,
     SelectFollowsCounter, ThreadInv, TornInv, Mixed, BusTypes, HistoryTypes,
     ReadDrive, TopMutexFree
<1>3. CASE ReadArm
  BY <1>3, StrobeAssumption DEF DeviceInv, Sampled, StrobeInv,
     SelectFollowsCounter, ThreadInv, TornInv, Mixed, BusTypes, HistoryTypes, ReadArm
<1>4. CASE ReadStrobe
  BY <1>4, StrobeAssumption DEF DeviceInv, Sampled, StrobeInv,
     SelectFollowsCounter, ThreadInv, TornInv, Mixed, BusTypes, HistoryTypes,
     ReadStrobe, StrobeWaitOver
<1>5. CASE WriteWait
  BY <1>5, StrobeAssumption DEF DeviceInv, Sampled, StrobeInv,
     SelectFollowsCounter, ThreadInv, TornInv, Mixed, BusTypes, HistoryTypes,
     WriteWait, StrobeWaitOver
<1>6. CASE WriteDrive
  <2>1. StartHistory /\ mpc \notin MainLocked /\ xosera_cs_n' = 0 /\ cpc = "writeDrive"
        /\ cpc' = "instruction" /\ assert_xosera_strobe_counter' = StrobeLen
        /\ mpc' = mpc /\ dev' = dev
    BY <1>6 DEF WriteDrive, WriteDriveFor, TopMutexFree
  <2>2. /\ served' = 0 /\ width' = 0 /\ excused' = FALSE
        /\ xosera_cs_n = 0 => torn' = TRUE
    BY <2>1, NewHistory
  <2>3. CASE xosera_cs_n = 0
    BY <2>1, <2>2, <2>3 DEF DeviceInv
  <2>4. CASE xosera_cs_n = 1
    <3>1. dev' # "low"
      BY <2>1, <2>4 DEF DeviceInv, ThreadInv
    <3>2. Sampled'
      BY <2>2, <3>1 DEF Sampled
    <3> QED
      BY <2>1, <2>2, <3>2, StrobeAssumption DEF DeviceInv
  <2> QED
    BY <2>3, <2>4 DEF BusTypes
<1>7. CASE ReadData
  BY <1>7, StrobeAssumption DEF DeviceInv, Sampled, StrobeInv,
     SelectFollowsCounter, ThreadInv, TornInv, Mixed, BusTypes, HistoryTypes,
     ReadData
<1> QED
  BY <1>1, <1>2, <1>3, <1>4, <1>5, <1>6, <1>7 DEF BusStep, LockedStep

\* Every step keeps DeviceInv.
LEMMA DeviceStep ==
  ASSUME BusTypes, HistoryTypes, ThreadInv, StrobeInv, TornInv, DeviceInv, [Next]_vars
  PROVE DeviceInv'
<1>1. CASE MainStep
  BY <1>1, DeviceMain
<1>2. CASE \E e \in Events : SdlEvent(e)
  BY <1>2, DeviceEvent
<1>3. CASE LoopStep
  BY <1>3, DeviceLoop
<1>4. CASE InstructionStep
  BY <1>4, DeviceInstruction
<1>5. CASE BusStep
  BY <1>5, DeviceBus
<1>6. CASE UNCHANGED vars
  BY <1>6 DEF DeviceInv, Sampled, StrobeInv, SelectFollowsCounter, ThreadInv,
     TornInv, Mixed, BusTypes, HistoryTypes
<1> QED
  BY <1>1, <1>2, <1>3, <1>4, <1>5, <1>6 DEF Next, CpuStep, Finished
-----------------------------------------------------------------------------
(* Interrupts.                                                             *)

(***************************************************************************)
(* LineInv, spelled out: no line is up, or Xosera's is, while it is served. *)
(***************************************************************************)
Lines ==
  /\ ~nmi_pending /\ int_level = highest
  /\ \/ pending = {} /\ highest = 0
     \/ pending = {2} /\ highest = 2 /\ servicing

\* The two forms say the same, now and after a step.
LEMMA LinesAreLineInv ==
  /\ LineInv <=> Lines
  /\ LineInv' <=> Lines'
<1>1. HighestOf({}) = 0 /\ HighestOf({2}) = 2
  BY HighestOfNothing, HighestOfOne
<1>2. LineInv <=> Lines
  <2>1. CASE pending = {}
    BY <1>1, <2>1 DEF LineInv, ControllerInSync, Lines
  <2>2. CASE pending = {2}
    BY <1>1, <2>2 DEF LineInv, ControllerInSync, Lines
  <2>3. CASE pending # {} /\ pending # {2}
    BY <2>3 DEF LineInv, Lines
  <2> QED
    BY <2>1, <2>2, <2>3
<1>3. LineInv' <=> Lines'
  <2>1. CASE pending' = {}
    BY <1>1, <2>1 DEF LineInv, ControllerInSync, Lines
  <2>2. CASE pending' = {2}
    BY <1>1, <2>2 DEF LineInv, ControllerInSync, Lines
  <2>3. CASE pending' # {} /\ pending' # {2}
    BY <2>3 DEF LineInv, Lines
  <2> QED
    BY <2>1, <2>2, <2>3
<1> QED
  BY <1>2, <1>3

\* A check of the pins clears no line: the NMI, which would, is never up.
LEMMA CheckKeepsLines ==
  ASSUME Lines, NEW m, NEW b, CheckInterrupts(m, b)
  PROVE UNCHANGED <<pending, highest, int_level, nmi_pending>>
<1>1. AcceptedLevel # 7
  BY DEF AcceptedLevel, Lines
<1> QED
  BY <1>1 DEF CheckInterrupts, ExceptionInterrupt

\* Clearing the line of Xosera clears them all.
LEMMA ClearKeepsLines ==
  ASSUME Lines, IntControllerClear(IRQ_XOSERA_DEVICE)
  PROVE pending' = {} /\ highest' = 0 /\ int_level' = 0 /\ ~nmi_pending'
<1>1. pending \ {2} = {}
  BY DEF Lines
<1>2. HighestOf(pending \ {2}) = 0
  BY <1>1, HighestOfNothing
<1> QED
  BY <1>1, <1>2 DEF Lines, IntControllerClear, ClearLine, M68kSetIrq

\* Main stays clear of the interrupt path.
LEMMA LinesMain ==
  ASSUME Lines, ThreadInv, FreshInv, MainStep
  PROVE Lines'
BY MainKeeps DEF Lines

\* The lines under the loop of m68k().
LEMMA LinesLoop ==
  ASSUME Lines, ThreadInv, FreshInv, LoopStep
  PROVE Lines'
<1>1. CASE CpuReset
  <2>1. ~servicing
    BY <1>1 DEF CpuReset, CpuResetAs, FreshInv, InInstruction, ThreadInv
  <2> QED
    BY <1>1, <2>1 DEF CpuReset, CpuResetAs, PulseReset, Lines
<1>2. CASE CpuIrq
  <2>1. pending' = {2} /\ servicing'
    BY <1>2 DEF CpuIrq, IntControllerSet, Lines
  <2>2. highest' = 2 /\ int_level' = 2 /\ ~nmi_pending'
    BY <1>2 DEF CpuIrq, IntControllerSet, M68kSetIrq, Lines
  <2> QED
    BY <2>1, <2>2 DEF Lines
<1>3. CASE CpuExecute
  <2>1. UNCHANGED <<pending, highest, int_level, nmi_pending, servicing>>
    BY <1>3, CheckKeepsLines DEF CpuExecute
  <2> QED
    BY <2>1 DEF Lines
<1>4. CASE CpuEnd
  <2>1. CASE servicing
    BY <1>4, <2>1, ClearKeepsLines DEF CpuEnd, Lines
  <2>2. CASE ~servicing
    BY <1>4, <2>2 DEF CpuEnd, Lines
  <2> QED
    BY <2>1, <2>2
<1>5. CASE CpuLoop \/ CpuPause \/ CpuTestReset \/ CpuTestIrq
  BY <1>5 DEF Lines, CpuLoop, CpuPause, CpuTestReset, CpuTestIrq
<1> QED
  BY <1>1, <1>2, <1>3, <1>4, <1>5 DEF LoopStep

\* The lines under an instruction.
LEMMA LinesInstruction ==
  ASSUME Lines, ThreadInv, FreshInv, InstructionStep
  PROVE Lines'
<1>1. CASE ResetInstruction
  <2>1. IntControllerClear(IRQ_XOSERA_DEVICE)
    BY <1>1 DEF ResetInstruction
  <2> QED
    BY <2>1, ClearKeepsLines DEF Lines
<1>2. CASE \E m \in SrMasks : SetSr(m)
  <2>1. PICK m \in SrMasks : SetSr(m)
    BY <1>2
  <2>2. UNCHANGED <<pending, highest, int_level, nmi_pending, servicing>>
    BY <2>1, CheckKeepsLines DEF SetSr
  <2> QED
    BY <2>2 DEF Lines
<1>3. CASE \E m \in SrMasks : Stop(m)
  <2>1. PICK m \in SrMasks : Stop(m)
    BY <1>3
  <2>2. UNCHANGED <<pending, highest, int_level, nmi_pending, servicing>>
    BY <2>1, CheckKeepsLines DEF Stop
  <2> QED
    BY <2>2 DEF Lines
<1>4. CASE InstructionDone \/ Fault \/ (\E a \in Accesses : BeginAccess(a))
  BY <1>4 DEF Lines, InstructionDone, Fault, BeginAccess
<1> QED
  BY <1>1, <1>2, <1>3, <1>4 DEF InstructionStep

\* The lines under a step on the bus.
LEMMA LinesBus ==
  ASSUME Lines, ThreadInv, FreshInv, BusStep
  PROVE Lines'
<1>1. CASE ReadData
  <2>1. IntControllerClear(IRQ_XOSERA_DEVICE)
    BY <1>1 DEF ReadData
  <2> QED
    BY <2>1, ClearKeepsLines DEF Lines
<1>2. CASE WriteDrive
  BY <1>2 DEF Lines, WriteDrive, WriteDriveFor
<1>3. CASE ReadWait \/ ReadDrive \/ ReadArm \/ ReadStrobe \/ WriteWait
  BY <1>3 DEF Lines, ReadWait, ReadDrive, ReadArm, ReadStrobe, WriteWait
<1> QED
  BY <1>1, <1>2, <1>3 DEF BusStep, LockedStep

\* The lines under an event.
LEMMA LinesEvent ==
  ASSUME Lines, ThreadInv, FreshInv, NEW e \in Events, SdlEvent(e)
  PROVE Lines'
BY EventKeeps DEF Lines

\* Every step keeps LineInv.
LEMMA LineStep ==
  ASSUME LineInv, ThreadInv, FreshInv, [Next]_vars
  PROVE LineInv'
<1>1. CASE MainStep
  BY <1>1, LinesMain, LinesAreLineInv
<1>2. CASE \E e \in Events : SdlEvent(e)
  BY <1>2, LinesEvent, LinesAreLineInv
<1>3. CASE LoopStep
  BY <1>3, LinesLoop, LinesAreLineInv
<1>4. CASE InstructionStep
  BY <1>4, LinesInstruction, LinesAreLineInv
<1>5. CASE BusStep
  BY <1>5, LinesBus, LinesAreLineInv
<1>6. CASE UNCHANGED vars
  BY <1>6 DEF LineInv, ControllerInSync
<1> QED
  BY <1>1, <1>2, <1>3, <1>4, <1>5, <1>6 DEF Next, CpuStep, Finished

\* FreshInv under a step of main.
LEMMA FreshMain ==
  ASSUME ThreadInv, FreshInv, MainStep
  PROVE FreshInv'
<1>1. CASE MainLock
  BY <1>1 DEF FreshInv, InInstruction, ThreadInv, LoadsAlone, MainLock,
     HasThread
<1>2. CASE MainExit
  BY <1>2 DEF FreshInv, InInstruction, ThreadInv, LoadsAlone, MainExit,
     HasThread
<1>3. CASE MainLoad
  BY <1>3 DEF FreshInv, InInstruction, ThreadInv, LoadsAlone, MainLoad,
     LoadsAlone
<1>4. CASE MainCheck
  BY <1>4 DEF FreshInv, InInstruction, ThreadInv, LoadsAlone, MainCheck,
     HasThread
<1>5. CASE MainTop
  BY <1>5 DEF FreshInv, InInstruction, ThreadInv, LoadsAlone, MainTop
<1>6. CASE MainPaused
  BY <1>6 DEF FreshInv, InInstruction, ThreadInv, LoadsAlone, MainPaused
<1>7. CASE MainJoin
  BY <1>7 DEF FreshInv, InInstruction, ThreadInv, LoadsAlone, MainJoin
<1>8. CASE MainLoadFails
  BY <1>8 DEF FreshInv, InInstruction, ThreadInv, LoadsAlone, MainLoadFails
<1>9. CASE MainFinal
  BY <1>9 DEF FreshInv, InInstruction, ThreadInv, LoadsAlone, MainFinal
<1>10. CASE MainReset
  BY <1>10 DEF FreshInv, InInstruction, ThreadInv, LoadsAlone, MainReset
<1>11. CASE MainFrameDone
  BY <1>11 DEF FreshInv, InInstruction, ThreadInv, LoadsAlone, MainFrameDone
<1>12. CASE MainStrobe
  BY <1>12 DEF FreshInv, InInstruction, ThreadInv, LoadsAlone, MainStrobe
<1>13. CASE MainDecrement
  BY <1>13 DEF FreshInv, InInstruction, ThreadInv, LoadsAlone, MainDecrement
<1>14. CASE MainRelease
  BY <1>14 DEF FreshInv, InInstruction, ThreadInv, LoadsAlone, MainRelease
<1>15. CASE MainEval
  BY <1>15 DEF FreshInv, InInstruction, ThreadInv, LoadsAlone, MainEval
<1> QED
  BY <1>1, <1>2, <1>3, <1>4, <1>5, <1>6, <1>7, <1>8, <1>9, <1>10, <1>11,
     <1>12, <1>13, <1>14, <1>15 DEF MainStep

\* FreshInv under an event.
LEMMA FreshEvent ==
  ASSUME ThreadInv, FreshInv, NEW e \in Events, SdlEvent(e)
  PROVE FreshInv'
BY EventKeeps DEF FreshInv, InInstruction

\* FreshInv under the loop of m68k().
LEMMA FreshLoop ==
  ASSUME ThreadInv, FreshInv, LoopStep
  PROVE FreshInv'
<1>1. CASE CpuReset
  BY <1>1 DEF FreshInv, InInstruction, ThreadInv, LoadsAlone, CpuReset,
     CpuResetAs
<1>2. CASE CpuIrq
  BY <1>2 DEF FreshInv, InInstruction, ThreadInv, LoadsAlone, CpuIrq
<1>3. CASE CpuExecute
  BY <1>3 DEF FreshInv, InInstruction, ThreadInv, LoadsAlone, CpuExecute
<1>4. CASE CpuEnd
  BY <1>4 DEF FreshInv, InInstruction, ThreadInv, LoadsAlone, CpuEnd
<1>5. CASE CpuLoop
  BY <1>5 DEF FreshInv, InInstruction, ThreadInv, LoadsAlone, CpuLoop
<1>6. CASE CpuPause \/ CpuTestReset \/ CpuTestIrq
  BY <1>6 DEF FreshInv, InInstruction, ThreadInv, LoadsAlone, CpuPause,
     CpuTestReset, CpuTestIrq
<1> QED
  BY <1>1, <1>2, <1>3, <1>4, <1>5, <1>6 DEF LoopStep

\* FreshInv under an instruction.
LEMMA FreshInstruction ==
  ASSUME ThreadInv, FreshInv, InstructionStep
  PROVE FreshInv'
<1>1. CASE Fault
  BY <1>1 DEF FreshInv, InInstruction, ThreadInv, LoadsAlone, Fault
<1>2. CASE InstructionDone \/ ResetInstruction
  BY <1>2 DEF FreshInv, InInstruction, ThreadInv, LoadsAlone, InstructionDone,
     ResetInstruction
<1>3. CASE (\E m \in SrMasks : SetSr(m)) \/ (\E m \in SrMasks : Stop(m))
  BY <1>3 DEF FreshInv, InInstruction, ThreadInv, LoadsAlone, SetSr, Stop,
     CheckInterrupts
<1>4. CASE (\E a \in Accesses : BeginAccess(a))
  BY <1>4 DEF FreshInv, InInstruction, ThreadInv, LoadsAlone, BeginAccess
<1> QED
  BY <1>1, <1>2, <1>3, <1>4 DEF InstructionStep

\* FreshInv under a step on the bus.
LEMMA FreshBus ==
  ASSUME ThreadInv, FreshInv, BusStep
  PROVE FreshInv'
<1>1. CASE WriteDrive
  BY <1>1 DEF FreshInv, InInstruction, ThreadInv, LoadsAlone, WriteDrive,
     WriteDriveFor
<1>2. CASE ReadWait \/ ReadDrive \/ ReadArm \/ ReadStrobe \/ ReadData \/
   WriteWait
  BY <1>2 DEF FreshInv, InInstruction, ThreadInv, LoadsAlone, ReadWait,
     ReadDrive, ReadArm, ReadStrobe, ReadData, WriteWait
<1> QED
  BY <1>1, <1>2 DEF BusStep, LockedStep

\* Every step keeps FreshInv.
LEMMA FreshStep ==
  ASSUME ThreadInv, FreshInv, [Next]_vars
  PROVE FreshInv'
<1>1. CASE MainStep
  BY <1>1, FreshMain
<1>2. CASE \E e \in Events : SdlEvent(e)
  BY <1>2, FreshEvent
<1>3. CASE LoopStep
  BY <1>3, FreshLoop
<1>4. CASE InstructionStep
  BY <1>4, FreshInstruction
<1>5. CASE BusStep
  BY <1>5, FreshBus
<1>6. CASE UNCHANGED vars
  BY <1>6 DEF FreshInv, InInstruction, ThreadInv, LoadsAlone
<1> QED
  BY <1>1, <1>2, <1>3, <1>4, <1>5, <1>6 DEF Next, CpuStep, Finished

-----------------------------------------------------------------------------
(* Resets of the CPU.                                                      *)

\* ResetInv under a step of main.
LEMMA RestartMain ==
  ASSUME HistoryTypes, ThreadInv, ResetInv, MainStep
  PROVE ResetInv'
<1>1. CASE MainLoad
  BY <1>1 DEF ResetInv, PromptReset, ResetBeforeRun, HistoryTypes, ThreadInv,
     LoadsAlone, MainLoad
<1>2. CASE MainReset
  BY <1>2 DEF ResetInv, PromptReset, ResetBeforeRun, HistoryTypes, ThreadInv,
     LoadsAlone, MainReset
<1>3. CASE MainEval
  BY <1>3 DEF ResetInv, PromptReset, ResetBeforeRun, HistoryTypes, ThreadInv,
     LoadsAlone, MainEval
<1>4. CASE MainTop
  BY <1>4 DEF ResetInv, PromptReset, ResetBeforeRun, HistoryTypes, ThreadInv,
     LoadsAlone, MainTop
<1>5. CASE MainPaused
  BY <1>5 DEF ResetInv, PromptReset, ResetBeforeRun, HistoryTypes, ThreadInv,
     LoadsAlone, MainPaused
<1>6. CASE MainCheck
  BY <1>6 DEF ResetInv, PromptReset, ResetBeforeRun, HistoryTypes, ThreadInv,
     LoadsAlone, MainCheck, HasThread
<1>7. CASE MainJoin
  BY <1>7 DEF ResetInv, PromptReset, ResetBeforeRun, HistoryTypes, ThreadInv,
     LoadsAlone, MainJoin
<1>8. CASE MainLoadFails
  BY <1>8 DEF ResetInv, PromptReset, ResetBeforeRun, HistoryTypes, ThreadInv,
     LoadsAlone, MainLoadFails
<1>9. CASE MainExit
  BY <1>9 DEF ResetInv, PromptReset, ResetBeforeRun, HistoryTypes, ThreadInv,
     LoadsAlone, MainExit, HasThread
<1>10. CASE MainFinal
  BY <1>10 DEF ResetInv, PromptReset, ResetBeforeRun, HistoryTypes, ThreadInv,
     LoadsAlone, MainFinal
<1>11. CASE MainLock
  BY <1>11 DEF ResetInv, PromptReset, ResetBeforeRun, HistoryTypes, ThreadInv,
     LoadsAlone, MainLock, HasThread
<1>12. CASE MainFrameDone
  BY <1>12 DEF ResetInv, PromptReset, ResetBeforeRun, HistoryTypes, ThreadInv,
     LoadsAlone, MainFrameDone
<1>13. CASE MainStrobe
  BY <1>13 DEF ResetInv, PromptReset, ResetBeforeRun, HistoryTypes, ThreadInv,
     LoadsAlone, MainStrobe
<1>14. CASE MainDecrement
  BY <1>14 DEF ResetInv, PromptReset, ResetBeforeRun, HistoryTypes, ThreadInv,
     LoadsAlone, MainDecrement
<1>15. CASE MainRelease
  BY <1>15 DEF ResetInv, PromptReset, ResetBeforeRun, HistoryTypes, ThreadInv,
     LoadsAlone, MainRelease
<1> QED
  BY <1>1, <1>2, <1>3, <1>4, <1>5, <1>6, <1>7, <1>8, <1>9, <1>10, <1>11,
     <1>12, <1>13, <1>14, <1>15 DEF MainStep

\* ResetInv under an event.
LEMMA RestartEvent ==
  ASSUME HistoryTypes, ThreadInv, ResetInv, NEW e \in Events, SdlEvent(e)
  PROVE ResetInv'
BY EventKeeps DEF ResetInv, PromptReset, ResetBeforeRun

\* ResetInv under the loop of m68k().
LEMMA RestartLoop ==
  ASSUME HistoryTypes, ThreadInv, ResetInv, LoopStep
  PROVE ResetInv'
<1>1. CASE CpuReset
  BY <1>1 DEF ResetInv, PromptReset, ResetBeforeRun, HistoryTypes, ThreadInv,
     LoadsAlone, CpuReset, CpuResetAs
<1>2. CASE CpuExecute
  BY <1>2 DEF ResetInv, PromptReset, ResetBeforeRun, HistoryTypes, ThreadInv,
     LoadsAlone, CpuExecute
<1>3. CASE CpuTestReset
  BY <1>3 DEF ResetInv, PromptReset, ResetBeforeRun, HistoryTypes, ThreadInv,
     LoadsAlone, CpuTestReset
<1>4. CASE CpuLoop
  BY <1>4 DEF ResetInv, PromptReset, ResetBeforeRun, HistoryTypes, ThreadInv,
     LoadsAlone, CpuLoop
<1>5. CASE CpuPause \/ CpuTestIrq \/ CpuIrq \/ CpuEnd
  BY <1>5 DEF ResetInv, PromptReset, ResetBeforeRun, HistoryTypes, ThreadInv,
     LoadsAlone, CpuPause, CpuTestIrq, CpuIrq, CpuEnd
<1> QED
  BY <1>1, <1>2, <1>3, <1>4, <1>5 DEF LoopStep

\* ResetInv under an instruction.
LEMMA RestartInstruction ==
  ASSUME HistoryTypes, ThreadInv, ResetInv, InstructionStep
  PROVE ResetInv'
<1>1. CASE Fault
  BY <1>1 DEF ResetInv, PromptReset, ResetBeforeRun, HistoryTypes, ThreadInv,
     LoadsAlone, Fault
<1>2. CASE InstructionDone \/ ResetInstruction
  BY <1>2 DEF ResetInv, PromptReset, ResetBeforeRun, HistoryTypes, ThreadInv,
     LoadsAlone, InstructionDone, ResetInstruction
<1>3. CASE (\E m \in SrMasks : SetSr(m)) \/ (\E m \in SrMasks : Stop(m))
  BY <1>3 DEF ResetInv, PromptReset, ResetBeforeRun, HistoryTypes, ThreadInv,
     LoadsAlone, SetSr, Stop, CheckInterrupts
<1>4. CASE (\E a \in Accesses : BeginAccess(a))
  BY <1>4 DEF ResetInv, PromptReset, ResetBeforeRun, HistoryTypes, ThreadInv,
     LoadsAlone, BeginAccess
<1> QED
  BY <1>1, <1>2, <1>3, <1>4 DEF InstructionStep

\* ResetInv under a step on the bus.
LEMMA RestartBus ==
  ASSUME HistoryTypes, ThreadInv, ResetInv, BusStep
  PROVE ResetInv'
<1>1. CASE WriteDrive
  BY <1>1 DEF ResetInv, PromptReset, ResetBeforeRun, HistoryTypes, ThreadInv,
     LoadsAlone, WriteDrive, WriteDriveFor
<1>2. CASE ReadWait \/ ReadDrive \/ ReadArm \/ ReadStrobe \/ ReadData \/
   WriteWait
  BY <1>2 DEF ResetInv, PromptReset, ResetBeforeRun, HistoryTypes, ThreadInv,
     LoadsAlone, ReadWait, ReadDrive, ReadArm, ReadStrobe, ReadData, WriteWait
<1> QED
  BY <1>1, <1>2 DEF BusStep, LockedStep

\* Every step keeps ResetInv.
LEMMA RestartStep ==
  ASSUME HistoryTypes, ThreadInv, ResetInv, [Next]_vars
  PROVE ResetInv'
<1>1. CASE MainStep
  BY <1>1, RestartMain
<1>2. CASE \E e \in Events : SdlEvent(e)
  BY <1>2, RestartEvent
<1>3. CASE LoopStep
  BY <1>3, RestartLoop
<1>4. CASE InstructionStep
  BY <1>4, RestartInstruction
<1>5. CASE BusStep
  BY <1>5, RestartBus
<1>6. CASE UNCHANGED vars
  BY <1>6 DEF ResetInv, PromptReset, ResetBeforeRun, HistoryTypes, ThreadInv,
     LoadsAlone
<1> QED
  BY <1>1, <1>2, <1>3, <1>4, <1>5, <1>6 DEF Next, CpuStep, Finished

-----------------------------------------------------------------------------
(* The invariants hold.                                                    *)

\* The initial state satisfies every part.
LEMMA InitInvariant ==
  ASSUME Init
  PROVE TypeOK /\ Inv
<1> USE DEF Init, InterruptsInit
<1>1. BooleanTypes
  <2>1. Truths
    BY DEF Truths, IsTruth
  <2> QED
    BY <2>1, TruthsAreTypes
<1>2. MainTypes
  BY BootAssumption DEF MainTypes, MainPlaces
<1>3. BusTypes
  BY StrobeAssumption DEF BusTypes
<1>4. CpuTypes
  BY MaxAssumption DEF CpuTypes, CpuPlaces
<1>5. LineTypes
  BY DEF LineTypes
<1>6. HistoryTypes
  BY StrobeAssumption DEF HistoryTypes
<1>7. ThreadInv /\ StrobeInv
  BY DEF ThreadInv, LoadsAlone, StrobeInv, SelectFollowsCounter
<1>8. TornInv /\ DeviceInv
  BY DEF TornInv, Mixed, DeviceInv, Sampled
<1>9. LineInv
  BY LinesAreLineInv DEF Lines
<1>10. FreshInv
  BY DEF FreshInv
<1>11. ResetInv
  BY DEF ResetInv, PromptReset, ResetBeforeRun
<1> QED
  BY <1>1, <1>2, <1>3, <1>4, <1>5, <1>6, <1>7, <1>8, <1>9, <1>10, <1>11
  DEF TypeOK, Inv

\* Every step keeps the types and the invariant together.
LEMMA StepInvariant ==
  ASSUME TypeOK, Inv, [Next]_vars
  PROVE TypeOK' /\ Inv'
<1> USE DEF TypeOK, Inv
<1>1. TypeOK'
  BY TypeStep DEF DecrementSafe, StrobeInv
<1>2. ThreadInv' /\ StrobeInv' /\ TornInv'
  BY ThreadStep, StrobeStep, TornStep
<1>3. DeviceInv'
  BY DeviceStep
<1>4. LineInv' /\ FreshInv' /\ ResetInv'
  BY LineStep, FreshStep, RestartStep
<1> QED
  BY <1>1, <1>2, <1>3, <1>4

(***************************************************************************)
(* Every variable keeps its type, the counter of sim_main.cpp included:    *)
(* main decrements it outside the test that found it positive, while the   *)
(* m68k thread may arm it, and it never goes below 0 or above StrobeLen.   *)
(***************************************************************************)
THEOREM TypeCorrect == Spec => []TypeOK
<1>1. Init => TypeOK /\ Inv
  BY InitInvariant
<1>2. (TypeOK /\ Inv) /\ [Next]_vars => (TypeOK /\ Inv)'
  BY StepInvariant
<1> QED
  BY <1>1, <1>2, PTL DEF Spec

\* The strengthened invariant holds in every reachable state.
THEOREM Invariance == Spec => []Inv
<1>1. Init => TypeOK /\ Inv
  BY InitInvariant
<1>2. (TypeOK /\ Inv) /\ [Next]_vars => (TypeOK /\ Inv)'
  BY StepInvariant
<1> QED
  BY <1>1, <1>2, PTL DEF Spec

\* No strobe of Xosera is stuck and none is cut off: cs_n follows the counter.
THEOREM SelectAndCounterAgree == Spec => []SelectFollowsCounter
<1>1. Inv => SelectFollowsCounter
  BY DEF Inv, StrobeInv
<1> QED
  BY <1>1, Invariance, PTL

(***************************************************************************)
(* An access that replaced another one in mid-strobe, as the shutdown of   *)
(* the m68k thread lets it, is first sampled by a Xosera that comes        *)
(* straight out of reset: it never goes on where the other one was.        *)
(***************************************************************************)
THEOREM TornNeverSampled == Spec => []NoTornSample
<1>1. Inv => NoTornSample
  <2> SUFFICES ASSUME Inv, mpc = "eval", reset = 0, xosera_cs_n = 0, torn,
                      width = 0
               PROVE dev = "reset"
    BY DEF NoTornSample
  <2> USE DEF Inv
  <2>1. is_m68k_running
    BY DEF ThreadInv
  <2>2. excused
    BY <2>1 DEF TornInv, Mixed
  <2> QED
    BY <2>2 DEF DeviceInv
<1> QED
  BY <1>1, Invariance, PTL

(***************************************************************************)
(* Every access is performed exactly once: xosera_device_read and          *)
(* xosera_device_write need no more than the counter to hand it over.      *)
(***************************************************************************)
THEOREM PerformedExactlyOnce == Spec => []ExactlyOnce
<1>1. TypeOK /\ Inv => ExactlyOnce
  <2> SUFFICES ASSUME TypeOK, Inv, ~excused
               PROVE served <= 1 /\ (xosera_cs_n = 1 => served = 1)
    BY DEF ExactlyOnce
  <2>1. CASE xosera_cs_n = 1
    BY <2>1 DEF Inv, DeviceInv
  <2>2. CASE xosera_cs_n = 0 /\ torn
    BY <2>2 DEF Inv, TornInv, Mixed
  <2>3. CASE xosera_cs_n = 0 /\ ~torn
    BY <2>3 DEF Inv, DeviceInv, Sampled
  <2> QED
    BY <2>1, <2>2, <2>3 DEF TypeOK, BusTypes
<1> QED
  BY <1>1, Invariance, TypeCorrect, PTL

\* A strobe that is over was sampled at StrobeLen - 1 clock edges at the least.
THEOREM StrobeIsFull == Spec => []FullStrobe
<1>1. Inv => FullStrobe
  BY DEF Inv, DeviceInv, FullStrobe
<1> QED
  BY <1>1, Invariance, PTL

(***************************************************************************)
(* xosera_device_read takes the answer to its own request: main has let    *)
(* the strobe reach Xosera before the wait of the thread ends.             *)
(***************************************************************************)
THEOREM ReadIsAnswered == Spec => []ReadAnswered
<1>1. TypeOK /\ Inv => ReadAnswered
  <2> SUFFICES ASSUME TypeOK, Inv, cpc = "readData", is_m68k_running, ~excused
               PROVE served = 1
    BY DEF ReadAnswered
  <2> USE DEF TypeOK, Inv
  <2>1. assert_xosera_strobe_counter = 0
    BY DEF StrobeInv
  <2>2. ~torn
    BY <2>1, StrobeAssumption DEF TornInv, Mixed
  <2>3. CASE xosera_cs_n = 1
    BY <2>3 DEF DeviceInv
  <2>4. CASE xosera_cs_n = 0
    <3>1. mpc = "release"
      BY <2>1, <2>4 DEF StrobeInv, SelectFollowsCounter, ThreadInv
    <3>2. Sampled /\ width >= StrobeLen - 1
      BY <2>1, <2>2, <2>4, <3>1, StrobeAssumption
      DEF DeviceInv, HistoryTypes
    <3> QED
      BY <3>2, StrobeAssumption DEF Sampled
  <2> QED
    BY <2>3, <2>4 DEF BusTypes
<1> QED
  BY <1>1, Invariance, TypeCorrect, PTL

\* main overwrites the RAM only while no thread executes from it.
THEOREM LoadIsAlone == Spec => []LoadsAlone
<1>1. Inv => LoadsAlone
  BY DEF Inv, ThreadInv
<1> QED
  BY <1>1, Invariance, PTL

\* At most one instruction of the old run begins after a CPU reset is asked for.
THEOREM ResetIsPrompt == Spec => []PromptReset
<1>1. Inv => PromptReset
  BY DEF Inv, ResetInv
<1> QED
  BY <1>1, Invariance, PTL

\* A newly loaded program executes nothing before m68k_pulse_reset.
THEOREM NoRunBeforeReset == Spec => []ResetBeforeRun
<1>1. Inv => ResetBeforeRun
  BY DEF Inv, ResetInv
<1> QED
  BY <1>1, Invariance, PTL

\* The pins of the CPU show the highest pending line, which is being served.
THEOREM LinesInSync == Spec => []ControllerInSync
<1>1. Inv => ControllerInSync
  BY DEF Inv, LineInv
<1> QED
  BY <1>1, Invariance, PTL

(***************************************************************************)
(* A request made to the old run never interrupts the new one: the call of *)
(* m68k_execute that serves it only eats the reset cycles.                 *)
(***************************************************************************)
THEOREM StaleNeverTaken == Spec => NoStaleInterrupt
<1>1. TypeOK /\ Inv /\ InterruptTaken => servicing /\ serviceFresh
  <2> SUFFICES ASSUME TypeOK, Inv, InterruptTaken
               PROVE servicing /\ serviceFresh
    OBVIOUS
  <2> USE DEF TypeOK, Inv
  <2>1. Lines
    BY LinesAreLineInv
  <2>2. PICK m \in Levels : Accepted(m)
    BY MaskAssumption DEF InterruptTaken, LineTypes
  <2>3. servicing
    BY <2>1, <2>2 DEF Lines, Accepted
  <2>4. (cpc = "execute" /\ ~reset_cycles) \/ cpc = "instruction"
    BY DEF InterruptTaken, CpuExecute, SetSr, Stop
  <2>5. mpc \notin Ended
    BY <2>4 DEF ThreadInv
  <2> QED
    BY <2>3, <2>4, <2>5 DEF FreshInv
<1>2. TypeOK /\ Inv => [InterruptTaken => servicing /\ serviceFresh]_vars
  BY <1>1
<1> QED
  BY <1>2, Invariance, TypeCorrect, PTL DEF NoStaleInterrupt

-----------------------------------------------------------------------------
(* The refinement of XoseraBus.                                            *)

\* An empty bus is not an access.
LEMMA NothingIsNoAccess ==
  ASSUME NEW a, NEW b, NEW c
  PROVE <<a, b, c>> # <<>>
OBVIOUS

(***************************************************************************)
(* The variables of XoseraBus, written out: what a step leaves alone       *)
(* there.  A step that keeps these is a stutter of XoseraBus.              *)
(***************************************************************************)
LEMMA BusStutter ==
  ASSUME UNCHANGED <<xosera_cs_n, xosera_rd_nwr, xosera_reg, xosera_data_in,
                     dev, torn, excused, is_m68k_running>>
  PROVE UNCHANGED Bus!busVars
BY DEF Bus!busVars, Pins, Mixed

\* The initial states map to initial states.
LEMMA BusInitially ==
  ASSUME Init
  PROVE Bus!BusInit
BY DEF Init, Bus!BusInit, Mixed

\* The other steps of main show nothing on the bus.
LEMMA QuietMain ==
  ASSUME \/ MainTop \/ MainPaused \/ MainJoin \/ MainLoadFails \/ MainFinal
         \/ MainLock \/ MainReset \/ MainFrameDone \/ MainStrobe
         \/ MainDecrement
  PROVE UNCHANGED Bus!busVars
<1>1. UNCHANGED <<xosera_cs_n, xosera_rd_nwr, xosera_reg, xosera_data_in, dev,
                  torn, excused, is_m68k_running>>
  BY DEF MainTop, MainPaused, MainJoin, MainLoadFails, MainFinal, MainLock,
     MainReset, MainFrameDone, MainStrobe, MainDecrement
<1> QED
  BY <1>1, BusStutter

\* Stopping the thread and starting one close and reopen the bus.
LEMMA ClosingMain ==
  ASSUME BooleanTypes, MainCheck \/ MainExit \/ MainLoad
  PROVE [Bus!BusNext]_(Bus!busVars)
<1>1. UNCHANGED <<xosera_cs_n, xosera_rd_nwr, xosera_reg, xosera_data_in, dev,
                  torn, excused>>
  BY DEF MainCheck, MainExit, MainLoad
<1>2. IsTruth(is_m68k_running) /\ IsTruth(is_m68k_running')
  BY DEF BooleanTypes, IsTruth, MainCheck, MainExit, MainLoad
<1>3. CASE is_m68k_running' = is_m68k_running
  BY <1>1, <1>3, BusStutter
<1>4. CASE is_m68k_running' # is_m68k_running
  <2>1. (~is_m68k_running)' = ~~is_m68k_running
    BY <1>2, <1>4 DEF IsTruth
  <2> QED
    BY <1>1, <2>1 DEF Bus!BusNext, Bus!CloseOrReopen, Pins, Mixed
<1> QED
  BY <1>3, <1>4

\* The release of the strobe withdraws an access that Xosera has performed.
LEMMA ReleaseWithdraws ==
  ASSUME TypeOK, Inv, MainRelease
  PROVE [Bus!BusNext]_(Bus!busVars)
<1> USE DEF TypeOK, Inv
<1>1. UNCHANGED <<xosera_reg, xosera_data_in, dev, torn, excused, is_m68k_running>>
  BY DEF MainRelease
<1>2. CASE assert_xosera_strobe_counter # 0
  BY <1>1, <1>2, BusStutter DEF MainRelease
<1>3. CASE assert_xosera_strobe_counter = 0 /\ xosera_cs_n = 1
  BY <1>1, <1>3 DEF MainRelease, Bus!busVars, Pins, Mixed
<1>4. CASE assert_xosera_strobe_counter = 0 /\ xosera_cs_n = 0
  <2>1. xosera_cs_n' = 1 /\ mpc = "release"
    BY <1>4 DEF MainRelease
  <2>2. ~Mixed
    BY <1>4, <2>1, StrobeAssumption DEF TornInv, StrobeInv
  <2>3. dev # "high"
    BY <1>4, <2>1, <2>2, StrobeAssumption
    DEF DeviceInv, Sampled, HistoryTypes, Mixed
  <2>4. dev = "low" \/ dev = "reset"
    BY <2>3 DEF BusTypes
  <2>5. Bus!Withdraw
    BY <1>1, <1>4, <2>1, <2>2, <2>4, NothingIsNoAccess
    DEF Bus!Withdraw, Pins, Mixed
  <2> QED
    BY <2>5 DEF Bus!BusNext
<1> QED
  BY <1>2, <1>3, <1>4 DEF BusTypes

\* A clock edge resets the device, or lets it look at the pins.
LEMMA EdgePerforms ==
  ASSUME TypeOK, Inv, MainEval
  PROVE [Bus!BusNext]_(Bus!busVars)
<1> USE DEF TypeOK, Inv
<1>1. UNCHANGED <<xosera_cs_n, xosera_rd_nwr, xosera_reg, xosera_data_in,
                  is_m68k_running>>
  BY DEF MainEval
<1>2. CASE reset = 1
  <2>1. dev' = "reset" /\ Mixed' = FALSE
    BY <1>2 DEF MainEval, XoseraEdge, Mixed
  <2> QED
    BY <1>1, <2>1 DEF Bus!BusNext, Bus!DeviceReset, Pins
<1>3. CASE reset = 0 /\ xosera_cs_n = 0
  <2>1. dev' = "low" /\ torn' = torn /\ excused' = excused
    BY <1>3 DEF MainEval, XoseraEdge
  <2>2. ~Mixed
    BY <1>3, StrobeAssumption DEF TornInv, ThreadInv, MainEval
  <2>3. CASE dev = "low"
    BY <1>1, <2>1, <2>3, BusStutter
  <2>4. CASE dev # "low"
    BY <1>1, <1>3, <2>1, <2>2, <2>4, NothingIsNoAccess
    DEF Bus!BusNext, Bus!Perform, Pins, Mixed
  <2> QED
    BY <2>3, <2>4
<1>4. CASE reset = 0 /\ xosera_cs_n = 1
  <2>1. dev' = "high" /\ torn' = torn /\ excused' = excused
    BY <1>4 DEF MainEval, XoseraEdge
  <2>2. CASE dev = "reset"
    BY <1>1, <1>4, <2>1, <2>2 DEF Bus!BusNext, Bus!LeaveReset, Mixed
  <2>3. CASE dev # "reset"
    BY <1>1, <1>4, <2>1, <2>3 DEF Bus!busVars, Mixed
  <2> QED
    BY <2>2, <2>3
<1> QED
  BY <1>2, <1>3, <1>4 DEF BusTypes

\* The m68k thread presents an access, or replaces one once it is closing.
LEMMA DrivePresents ==
  ASSUME TypeOK, Inv, BusTypes', ReadDrive \/ WriteDrive
  PROVE [Bus!BusNext]_(Bus!busVars)
<1> USE DEF TypeOK, Inv
<1>1. UNCHANGED <<dev, is_m68k_running>> /\ xosera_cs_n' = 0
  BY DEF ReadDrive, WriteDrive, WriteDriveFor
<1>2. Pins' \in {0, 1} \X ((0..15) \X {0, 1}) \X (0..255)
  BY DEF Pins, BusTypes
<1>3. CASE xosera_cs_n = 1
  <2>1. Mixed' = FALSE
    BY <1>3, NewHistory DEF ReadDrive, WriteDrive, WriteDriveFor, Mixed
  <2>2. dev # "low"
    BY <1>3 DEF DeviceInv, ThreadInv, TopMutexFree, ReadDrive, WriteDrive,
       WriteDriveFor
  <2>3. Mixed = FALSE
    BY <1>3 DEF TornInv, Mixed
  <2>4. Mixed' = Mixed
    BY <2>1, <2>3, Zenon
  <2> QED
    BY <1>1, <1>2, <1>3, <2>2, <2>4 DEF Bus!BusNext, Bus!Present
<1>4. CASE xosera_cs_n = 0
  <2>1. Mixed' = TRUE
    BY <1>4, NewHistory DEF ReadDrive, WriteDrive, WriteDriveFor, Mixed
  <2>2. ~is_m68k_running
    BY <1>4 DEF StrobeInv, SelectFollowsCounter, ThreadInv, TopMutexFree,
       ReadDrive, WriteDrive, WriteDriveFor
  <2> QED
    BY <1>1, <1>2, <1>4, <2>1, <2>2, NothingIsNoAccess
    DEF Bus!BusNext, Bus!Replace, Pins
<1> QED
  BY <1>3, <1>4 DEF BusTypes

\* The other steps of the m68k thread show nothing on the bus.
LEMMA QuietThread ==
  ASSUME \/ LoopStep \/ InstructionStep \/ ReadWait \/ ReadArm \/ ReadStrobe
         \/ ReadData \/ WriteWait
  PROVE UNCHANGED Bus!busVars
<1>1. CASE LoopStep
  BY <1>1, LoopKeeps, BusStutter
<1>2. CASE InstructionStep
  BY <1>2, InstructionKeeps, BusStutter
<1>3. CASE ReadWait \/ ReadArm \/ ReadStrobe \/ ReadData \/ WriteWait
  <2>1. UNCHANGED <<xosera_cs_n, xosera_rd_nwr, xosera_reg, xosera_data_in,
                    dev, torn, excused, is_m68k_running>>
    BY <1>3 DEF ReadWait, ReadArm, ReadStrobe, ReadData, WriteWait
  <2> QED
    BY <2>1, BusStutter
<1> QED
  BY <1>1, <1>2, <1>3

(***************************************************************************)
(* The two threads, the counter and the lock implement the register bus:   *)
(* an access that is presented is performed once, as presented, before it  *)
(* is withdrawn.                                                           *)
(***************************************************************************)
THEOREM ImplementsBus == Spec => BusRefinement
<1>1. Init => Bus!BusInit
  BY BusInitially
<1>2. TypeOK /\ Inv /\ TypeOK' /\ [Next]_vars => [Bus!BusNext]_(Bus!busVars)
  <2> SUFFICES ASSUME TypeOK, Inv, TypeOK', [Next]_vars
               PROVE [Bus!BusNext]_(Bus!busVars)
    OBVIOUS
  <2>1. CASE MainStep
    BY <2>1, QuietMain, ClosingMain, ReleaseWithdraws, EdgePerforms
    DEF MainStep, TypeOK
  <2>2. CASE \E e \in Events : SdlEvent(e)
    BY <2>2, EventKeeps, BusStutter
  <2>3. CASE LoopStep \/ InstructionStep
    BY <2>3, QuietThread
  <2>4. CASE BusStep
    BY <2>4, QuietThread, DrivePresents DEF BusStep, LockedStep, TypeOK
  <2>5. CASE UNCHANGED vars
    BY <2>5, BusStutter
  <2> QED
    BY <2>1, <2>2, <2>3, <2>4, <2>5 DEF Next, CpuStep, Finished
<1> QED
  BY <1>1, <1>2, Invariance, TypeCorrect, PTL
  DEF Spec, BusRefinement, Bus!BusSpec
=============================================================================
