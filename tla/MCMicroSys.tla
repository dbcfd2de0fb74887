----------------------------- MODULE MCMicroSys -----------------------------
(***************************************************************************)
(* Small instances of MicroSys for TLC.                                    *)
(***************************************************************************)
EXTENDS MicroSysInvariant

Rd(a) == [rd |-> TRUE, addr |-> a, val |-> 0]
Wr(a, v) == [rd |-> FALSE, addr |-> a, val |-> v]

\* A read and a write of different registers and byte lanes.
MCAccesses == {Rd(0), Wr(6, 257)}
MCRead == {Rd(0)}
MCMasks == {0, 7}
MCMask0 == {0}
MCLevels == {0, 1}
MCNoLevels == {0}
MCNone == {}

Pause == {"focus_lost", "focus_gained"}
Key   == {"f1_down", "f1_up"}
MCKey == Key
MCKeyQuit == Key \union {"quit"}
MCPauseKey == Key \union Pause
MCAll == SdlEvents
=============================================================================
