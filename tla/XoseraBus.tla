------------------------------ MODULE XoseraBus ------------------------------
(***************************************************************************)
(* What the register bus between the emulated CPU and Xosera promises, and *)
(* nothing about threads, locks or counters.                               *)
(*                                                                         *)
(* The CPU presents one access at a time.  Xosera performs it once, as it  *)
(* was presented, and only then is it withdrawn.  There are two            *)
(* exceptions.  A device held in reset performs nothing, and an access     *)
(* that meets the reset may be withdrawn without having been performed.    *)
(* And once the CPU thread is being shut down (closing) it replaces the    *)
(* access on the pins without waiting: the access is torn, and then the    *)
(* device is reset before it looks at the pins again.                      *)
(***************************************************************************)
CONSTANTS Requests,  \* the accesses the pins can present
          NoRequest  \* none of them

VARIABLES req,      \* the access on the pins, or NoRequest
          seen,     \* the device has performed req
          torn,     \* req replaced another access on the pins
          inReset,  \* the device is held in reset
          closing   \* the CPU thread has been told to stop

busVars == <<req, seen, torn, inReset, closing>>

BusInit ==
  /\ req = NoRequest
  /\ seen = FALSE
  /\ torn = FALSE
  /\ inReset \in BOOLEAN
  /\ closing \in BOOLEAN

Present ==
  /\ req = NoRequest
  /\ req' \in Requests
  /\ UNCHANGED <<seen, torn, inReset, closing>>

\* The device performs the access; this is also how it is seen out of reset.
Perform ==
  /\ req # NoRequest
  /\ ~seen
  /\ ~torn
  /\ seen' = TRUE
  /\ inReset' = FALSE
  /\ UNCHANGED <<req, torn, closing>>

Withdraw ==
  /\ req # NoRequest
  /\ seen \/ inReset
  /\ ~torn
  /\ req' = NoRequest
  /\ seen' = FALSE
  /\ UNCHANGED <<torn, inReset, closing>>

Replace ==
  /\ req # NoRequest
  /\ closing
  /\ req' \in Requests
  /\ torn' = TRUE
  /\ UNCHANGED <<seen, inReset, closing>>

\* A clock edge with the reset line high.
DeviceReset ==
  /\ inReset' = TRUE
  /\ seen' = FALSE
  /\ torn' = FALSE
  /\ UNCHANGED <<req, closing>>

\* A clock edge with the reset line low and no access on the pins.
LeaveReset ==
  /\ inReset
  /\ req = NoRequest
  /\ inReset' = FALSE
  /\ UNCHANGED <<req, seen, torn, closing>>

CloseOrReopen ==
  /\ closing' = ~closing
  /\ UNCHANGED <<req, seen, torn, inReset>>

BusNext ==
  \/ Present
  \/ Perform
  \/ Withdraw
  \/ Replace
  \/ DeviceReset
  \/ LeaveReset
  \/ CloseOrReopen

BusSpec == BusInit /\ [][BusNext]_busVars

=============================================================================
