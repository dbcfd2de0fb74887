---------------------------- MODULE StackPointers ----------------------------
(***************************************************************************)
(* What the 68000 promises about its two stack pointers, one of each mode: *)
(* a program that works in one mode leaves the pointer of the other mode   *)
(* alone, except that a supervisor may set the user's.  An exception puts  *)
(* a frame of 3 or 7 words on the supervisor's stack.  M68kExceptions,     *)
(* which keeps the pointer of the current mode in A7 and the other one in  *)
(* a bank, implements it.                                                  *)
(***************************************************************************)
EXTENDS Integers

CONSTANTS
  BootSp,        \* the supervisor's pointer after a reset
  AddressSpace   \* 2^24

VARIABLES usp, ssp, supervisor

pointers == <<usp, ssp, supervisor>>

Init == usp = 0 /\ ssp = BootSp /\ supervisor = TRUE

UserWorks ==
  /\ ~supervisor /\ ~supervisor'
  /\ usp' \in 0..(AddressSpace - 1)
  /\ ssp' = ssp

SupervisorWorks ==
  /\ supervisor /\ supervisor'
  /\ ssp' \in 0..(AddressSpace - 1)
  /\ usp' = usp

SetUsp ==
  /\ supervisor /\ supervisor'
  /\ usp' \in 0..(AddressSpace - 1)
  /\ ssp' = ssp

\* An operand, popped or pushed or not, may have moved the user's pointer by
\* its size.
Enter ==
  /\ ~supervisor /\ supervisor'
  /\ \E d \in {-4, -2, 0, 2, 4} : usp' = (usp + d) % AddressSpace
  /\ ssp - ssp' \in {6, 14}

\* UNLK, which gives the user's pointer any value before it uses it, has found
\* that value odd: an address error, the one way to enter with it.
EnterOdd ==
  /\ ~supervisor /\ supervisor'
  /\ usp' \in 0..(AddressSpace - 1) /\ usp' % 2 = 1
  /\ ssp - ssp' = 14

\* With a frame that is taken back, or by writing the status register.
Leave ==
  /\ supervisor /\ ~supervisor'
  /\ usp' = usp
  /\ ssp' - ssp \in {0, 6}

Reset ==
  /\ supervisor'
  /\ usp' = usp
  /\ ssp' = BootSp

Next == UserWorks \/ SupervisorWorks \/ SetUsp \/ Enter \/ EnterOdd \/ Leave \/ Reset

Spec == Init /\ [][Next]_pointers
=============================================================================
