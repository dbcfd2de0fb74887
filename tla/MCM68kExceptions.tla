-------------------------- MODULE MCM68kExceptions --------------------------
(***************************************************************************)
(* A small instance of M68kExceptions for TLC: a RAM of a few words, with  *)
(* room for two frames and a few words of the user.                        *)
(***************************************************************************)
EXTENDS M68kExceptions

\* The uninitialised interrupt has a handler of its own; Xosera has none.
MCHandler ==
  [v \in Vectors |-> CASE v = EXCEPTION_ADDRESS_ERROR -> 2
                       [] v = EXCEPTION_UNINITIALIZED_INTERRUPT -> 4
                       [] v = EXCEPTION_INTERRUPT_AUTOVECTOR + Level -> 0
                       [] OTHER -> 2]
=============================================================================
