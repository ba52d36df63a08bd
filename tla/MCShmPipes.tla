---------------------------- MODULE MCShmPipes ------------------------------
(* ShmPipes with processes that nothing tells apart, and the lines of users *)
(* 1 and 2 and of one that leaves a FIFO behind.                           *)
EXTENDS ShmPipes, TLC

Plain == {[last |-> s, sym |-> None] : s \in Symbols \ {None}}
Both  == {[last |-> To(1), sym |-> From(2)], [last |-> From(2), sym |-> To(1)]}
Wrong == {[last |-> None, sym |-> To(2)]}

MCLines == Plain \union Both \union Wrong

(* Users who wait for announcements, and users who do not.                 *)
MCKinds == {Manners, Manners \ {"patient"}}

Symmetry == Permutations(Procs)
=============================================================================
