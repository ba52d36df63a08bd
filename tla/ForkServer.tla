---------------------------- MODULE ForkServer -----------------------------
(***************************************************************************)
(* The concurrent server that the remote shell, the chat shell with shared *)
(* memory and the HTTP server have in common (start_server, startServer):  *)
(* for each connection the server forks a first child, which forks a       *)
(* second and exits; the server waits for the first, and the second, an    *)
(* orphan by then, serves the connection.                                  *)
(*                                                                         *)
(* The table of processes of the system is bounded, so that fork fails at  *)
(* times.  What the second child does for its connection is left to the    *)
(* modules that extend this one.                                           *)
(***************************************************************************)
EXTENDS Naturals, FiniteSets

CONSTANTS
    Conns,      \* connections
    NoConn,     \* none
    MaxProcs    \* the processes there can be, zombies included

ASSUME ForkServerAssumption == NoConn \notin Conns /\ MaxProcs \in Nat \ {0}

Server    == <<NoConn, "server">>
First(c)  == <<c, "first">>
Second(c) == <<c, "second">>
Third(c)  == <<c, "third">>     \* a program the second child runs
Procs     == {Server} \union (Conns \X {"first", "second", "third"})

Listen == NoConn                \* the socket that listens

VARIABLES
    pc,         \* pc[p]: where the process p is
    fds,        \* fds[p]: the sockets p holds
    clifd,      \* the connection the server has accepted last
    conn        \* conn[c]: how far the connection c has come

serverVars == <<pc, fds, clifd, conn>>

ServerInit ==
    /\ pc = [p \in Procs |-> IF p = Server THEN "accept" ELSE "none"]
    /\ fds = [p \in Procs |-> IF p = Server THEN {Listen} ELSE {}]
    /\ clifd = NoConn
    /\ conn = [c \in Conns |-> "away"]

(* A client connects; listen keeps it until it is accepted.                *)
Connect(c) ==
    /\ conn[c] = "away" /\ pc[Server] # "dead"
    /\ conn' = [conn EXCEPT ![c] = "queued"]
    /\ UNCHANGED <<pc, fds, clifd>>

-----------------------------------------------------------------------------
(* Processes.                                                              *)

Ended == {"none", "orphan", "reaped", "dead"}
Room  == Cardinality({p \in Procs : pc[p] \notin Ended}) < MaxProcs

Parent(p) ==
    CASE p[2] = "first"  -> Server
      [] p[2] = "second" -> First(p[1])
      [] p[2] = "third"  -> Second(p[1])

(* What is left of a process that exits: a zombie if its parent is there,  *)
(* nothing if init is its parent.                                          *)
Remains(p) ==
    IF p = Server THEN "dead"
    ELSE IF pc[Parent(p)] \in Ended \union {"zombie"} THEN "orphan" ELSE "zombie"

(* The process p exits: its sockets are closed, and init inherits, and     *)
(* waits for, its zombies.                                                 *)
Exit(p) ==
    /\ pc' = [q \in Procs |-> IF q = p THEN Remains(p)
                              ELSE IF pc[q] = "zombie" /\ Parent(q) = p THEN "orphan" ELSE pc[q]]
    /\ fds' = [fds EXCEPT ![p] = {}]

(* The process p makes a child that has all its sockets, and goes on.      *)
Fork(p, child, at, on) ==
    /\ Room
    /\ pc' = [pc EXCEPT ![p] = on, ![child] = at]
    /\ fds' = [fds EXCEPT ![child] = fds[p]]

-----------------------------------------------------------------------------
(* The server.                                                             *)

Accept(c) ==
    /\ pc[Server] = "accept" /\ conn[c] = "queued"
    /\ conn' = [conn EXCEPT ![c] = "accepted"]
    /\ clifd' = c
    /\ pc' = [pc EXCEPT ![Server] = "fork"]
    /\ fds' = [fds EXCEPT ![Server] = @ \union {c}]

ForkFirst ==
    /\ pc[Server] = "fork"
    /\ \/ Fork(Server, First(clifd), "fork", "close")
       \/ ~Room /\ Exit(Server)
    /\ UNCHANGED <<clifd, conn>>

(* (Changed by a mutation: the server keeps the connection.)               *)
CloseConn_not ==
    /\ pc[Server] = "close"
    /\ pc' = [pc EXCEPT ![Server] = "wait"]
    /\ UNCHANGED <<fds, clifd, conn>>

CloseConn ==
    /\ pc[Server] = "close"
    /\ fds' = [fds EXCEPT ![Server] = @ \ {clifd}]
    /\ pc' = [pc EXCEPT ![Server] = "wait"]
    /\ UNCHANGED <<clifd, conn>>

(* (Changed by a mutation: the server goes on at once.)                    *)
WaitFirst_not ==
    /\ pc[Server] = "wait"
    /\ pc' = [pc EXCEPT ![Server] = "accept"]
    /\ UNCHANGED <<fds, clifd, conn>>

WaitFirst ==
    /\ pc[Server] = "wait" /\ pc[First(clifd)] = "zombie"
    /\ pc' = [pc EXCEPT ![Server] = "accept", ![First(clifd)] = "reaped"]
    /\ UNCHANGED <<fds, clifd, conn>>

-----------------------------------------------------------------------------
(* The first child, and the second until it serves its connection.         *)

ForkSecond(c) ==
    /\ pc[First(c)] = "fork"
    /\ \/ Fork(First(c), Second(c), "close", "exit")
       \/ ~Room /\ Exit(First(c))
    /\ UNCHANGED <<clifd, conn>>

(* (Changed by a mutation: the first child waits for the second.)          *)
ExitFirst_late(c) ==
    /\ pc[First(c)] = "exit" /\ pc[Second(c)] = "zombie"
    /\ Exit(First(c))
    /\ UNCHANGED <<clifd, conn>>

ExitFirst(c) ==
    /\ pc[First(c)] = "exit"
    /\ Exit(First(c))
    /\ UNCHANGED <<clifd, conn>>

CloseListen(c) ==
    /\ pc[Second(c)] = "close"
    /\ fds' = [fds EXCEPT ![Second(c)] = @ \ {Listen}]
    /\ pc' = [pc EXCEPT ![Second(c)] = "serve"]
    /\ UNCHANGED <<clifd, conn>>

start_server == ForkFirst \/ CloseConn \/ WaitFirst \/ \E c \in Conns : Accept(c)
Children(c)  == ForkSecond(c) \/ ExitFirst(c) \/ CloseListen(c)
=============================================================================
