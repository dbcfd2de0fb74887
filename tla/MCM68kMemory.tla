---------------------------- MODULE MCM68kMemory ----------------------------
(***************************************************************************)
(* A small instance of M68kMemory for TLC: ten bytes of RAM, a register    *)
(* window of two words, and a hole on either side of it.                   *)
(***************************************************************************)
EXTENDS M68kMemory

\* A table like that of cpu_read_word, with the entry point at 2.
MCBootTable == [i \in 0..3 |-> IF i = 0 THEN <<0, 16>>
                               ELSE IF i = 3 THEN <<0, 2>> ELSE <<0, 0>>]

\* A short program, and one that fills the RAM.
MCPrograms == {<<1>>, <<1, 0, 0, 1, 1, 0, 1, 1>>}

MCData == {0, 1}

\* The entry point, the word behind the table, an odd address, the hole, and
\* the last word of the window.
MCJumpTargets == {2, 8, 5, 10, 14}
=============================================================================
