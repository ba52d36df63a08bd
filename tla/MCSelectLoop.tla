---------------------------- MODULE MCSelectLoop ----------------------------
(***************************************************************************)
(* SelectLoop with two clients and descriptors just enough for them.       *)
(***************************************************************************)
EXTENDS SelectLoop

CONSTANTS c1, c2

OneClient  == {c1}
TwoClients == {c1, c2}
TwoSockets == 1..2
=============================================================================
