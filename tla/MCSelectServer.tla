--------------------------- MODULE MCSelectServer ---------------------------
(***************************************************************************)
(* SelectServer with two slots.  Names, variables and pipes have nothing   *)
(* to do with one another in the code, so a behaviour has lines about one  *)
(* of them, and logging out.                                               *)
(***************************************************************************)
EXTENDS SelectServer

CONSTANTS n1, n2, v1, v2

MCSlots == 1..2
MCNames == {n1, n2}
MCVars  == {v1, v2}

NameLines == {"exit", "name", "talk"}
EnvLines  == {"exit", "setenv", "printenv"}
PipeLines == {"exit", "pipe"}

MCMixes == {NameLines, EnvLines, PipeLines}
=============================================================================
