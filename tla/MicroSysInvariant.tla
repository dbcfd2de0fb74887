-------------------------- MODULE MicroSysInvariant --------------------------
(***************************************************************************)
(* The inductive invariant of MicroSys, in named parts.  It strengthens    *)
(* the invariants MicroSys states: it says where the two threads can stand *)
(* at the same time, and how far a strobe has come from what is left of    *)
(* the counter.  MicroSysProofs shows that every step keeps it.            *)
(***************************************************************************)
EXTENDS MicroSys

InInstruction == {"execute", "instruction", "end"} \union BusPlaces

(***************************************************************************)
(* Main goes round its loop only while is_m68k_running is up, so the CPU   *)
(* thread is never told to stop in the middle of an iteration.  And while  *)
(* main loads or has ended, there is no thread.                            *)
(***************************************************************************)
ThreadInv ==
  /\ ~is_m68k_running => mpc \in {"join", "load", "final"} \union Ended
  /\ mpc \in {"join", "load"} => manual_reset
  /\ LoadsAlone
  /\ mpc \in Ended => cpc \in Dead

(***************************************************************************)
(* A thread that was not told to stop drives the pins only with the        *)
(* counter at zero, and main is not about to release a strobe that the     *)
(* thread has yet to arm.                                                  *)
(***************************************************************************)
StrobeInv ==
  /\ SelectFollowsCounter
  /\ mpc = "dec" => assert_xosera_strobe_counter > 0
  /\ is_m68k_running /\ cpc \in {"readDrive", "writeDrive", "readArm", "readData"}
       => assert_xosera_strobe_counter = 0
  /\ cpc = "readArm" => xosera_cs_n = 0 /\ mpc # "release"

(***************************************************************************)
(* Until it meets a reset of Xosera, a torn access has the whole strobe    *)
(* before it, has not been sampled, and main is on its way to a clock edge *)
(* with the reset line high.                                               *)
(***************************************************************************)
TornInv ==
  Mixed => /\ \/ ~is_m68k_running
              \/ mpc \in {"lock", "reset"} /\ manual_reset
              \/ mpc \in {"frame", "strobe", "dec", "release", "eval"} /\ reset = 1
              \/ mpc \in Ended
           /\ xosera_cs_n = 0
           /\ served = 0
           /\ \/ cpc = "readArm"
              \/ assert_xosera_strobe_counter = StrobeLen
              \/ /\ assert_xosera_strobe_counter = StrobeLen - 1
                 /\ mpc \in {"release", "eval"} \union Ended

(***************************************************************************)
(* What Xosera has sampled of an access that met no reset.  The history    *)
(* variables follow it: width counts the edges, and served turns to 1 with *)
(* the first of them.  Before the counter runs out, the access has been    *)
(* sampled as often as the counter was decremented.                        *)
(***************************************************************************)
Sampled ==
  IF width = 0 THEN served = 0 /\ dev # "low" ELSE served = 1 /\ dev = "low"

DeviceInv ==
  /\ xosera_cs_n = 1 /\ dev = "low" => mpc \in {"eval"} \union Ended
  /\ xosera_cs_n = 0 /\ dev = "high" => ~excused
  /\ xosera_cs_n = 0 /\ excused /\ width = 0 => dev = "reset"
  /\ ~excused /\ ~torn /\ xosera_cs_n = 0 =>
       /\ Sampled
       /\ (assert_xosera_strobe_counter > 0 \/ mpc = "release") =>
            width + assert_xosera_strobe_counter
              >= StrobeLen - (IF mpc \in {"release", "eval"} \union Ended THEN 1 ELSE 0)
  /\ ~excused /\ xosera_cs_n = 1 => served = 1 /\ width >= StrobeLen - 1

(***************************************************************************)
(* The one line that ever goes up is Xosera's, and the pins follow it.     *)
(***************************************************************************)
LineInv == ControllerInSync /\ pending \subseteq {IRQ_XOSERA_DEVICE}

(***************************************************************************)
(* A line is served within one call of m68k_execute, and a request from    *)
(* before the last reset is served only by the call that eats the reset    *)
(* cycles.                                                                 *)
(***************************************************************************)
FreshInv ==
  /\ servicing => cpc \in InInstruction \/ mpc \in Ended
  /\ cpc = "irq" => is_m68k_irq
  /\ is_m68k_irq /\ ~flagFresh => reset_cycles /\ cpc \notin InInstruction
  /\ servicing /\ ~serviceFresh =>
       (cpc = "execute" /\ reset_cycles) \/ cpc = "end" \/ mpc \in Ended

\* Once a reset was asked for, only an instruction that was due is begun.
ResetInv ==
  /\ PromptReset
  /\ late = 1 => is_m68k_reset /\ cpc \notin {"testIrq", "irq", "execute"}
  /\ ResetBeforeRun
  /\ needReset => is_m68k_reset

(***************************************************************************)
(* All of it.                                                              *)
(***************************************************************************)
Inv == ThreadInv /\ StrobeInv /\ TornInv /\ DeviceInv /\ LineInv /\ FreshInv
       /\ ResetInv

=============================================================================
