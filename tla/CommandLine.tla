---------------------------- MODULE CommandLine ----------------------------
(***************************************************************************)
(* One command line on the descriptors of the shell (execute_cmdline and   *)
(* creat_proc of netshell.c).  The shell starts the commands one after     *)
(* another, each when the one before has ended.  A process is its table of *)
(* descriptors; numbers are reused as the kernel reuses them, because the  *)
(* code closes numbers it has closed before.                               *)
(*                                                                         *)
(* A table maps numbers to what they are open on: [kind, pipe].  Pipe C is *)
(* the one between the commands C and C + 1; InPipe is the numbered pipe   *)
(* or FIFO this line reads, OutPipe the numbered pipe to a later line, and *)
(* LostPipe the numbered pipe to a line that reads a FIFO instead.         *)
(***************************************************************************)
EXTENDS Naturals, FiniteSets

CONSTANTS
    Shells,     \* which of the three shells: "ras", "select", "shm"
    MaxCmd,     \* bound: commands in a line
    MaxFd,      \* the highest descriptor
    Capacity,   \* what a pipe holds
    MaxOut      \* bound: what a command writes

ASSUME CommandLineAssumption ==
    /\ Shells \subseteq {"ras", "select", "shm"}
    /\ MaxCmd \in Nat \ {0}
    /\ MaxFd \in Nat /\ MaxFd >= 2 * MaxCmd + 13
    /\ Capacity \in Nat \ {0}
    /\ MaxOut \in Nat

VARIABLES
    line,       \* the line: its shell and commands, where it reads and writes
    C,          \* the command the loop is at
    stage,      \* "start", "close", "wait" or "done"
    fds,        \* the table of the shell
    pipes_fd,   \* pipes_fd[C]: the numbers of pipe C, as the array keeps them
    fd_in,      \* the descriptors of the command started last
    fd_out,
    fd_tofile,  \* curnode->fd_tofile
    kid,        \* the command that runs
    level       \* level[p]: what is in pipe p

command_vars ==
    <<line, C, stage, fds, pipes_fd, fd_in, fd_out, fd_tofile, kid, level>>

GivesUpAtFailure == line.shell # "ras"
ReleasesReadout  == line.shell = "shm"

-----------------------------------------------------------------------------
(* Descriptor tables.                                                      *)

Nums == 0..MaxFd
NoFd == MaxFd + 1               \* -1 in the code

InPipe   == MaxCmd
OutPipe  == MaxCmd + 1
LostPipe == MaxCmd + 2
Pipes    == 0..LostPipe

Open(kind, p) == [kind |-> kind, pipe |-> p]
Closed == Open("closed", 0)

Kinds == {"closed", "std", "listen", "client", "file", "read", "write"}
Tables == [Nums -> [kind : Kinds, pipe : Pipes]]

Free(t)   == {n \in Nums : t[n] = Closed}
Lowest(S) == CHOOSE n \in S : \A m \in S : n <= m

Shut(t, S)   == [n \in Nums |-> IF n \in S THEN Closed ELSE t[n]]
Dup(t, a, b) == [t EXCEPT ![b] = t[a]]

(* pipe(): the read end gets the lowest free number, the write end the next. *)
MakePipe(t, p) ==
    LET r == Lowest(Free(t))
        w == Lowest(Free(t) \ {r})
    IN  [table |-> [t EXCEPT ![r] = Open("read", p), ![w] = Open("write", p)],
         r |-> r, w |-> w]

HeldBy(t, kind, p) == \E n \in Nums : t[n] = Open(kind, p)

-----------------------------------------------------------------------------
(* Where a line may start: with or without a numbered pipe or a FIFO to    *)
(* it, and with its target's pipe made already by an earlier line, or not. *)
(* With both ("over") the FIFO has taken the place of the pipe's read end  *)
(* in curnode->fd_readout, and no variable names that end any more.        *)

Lines ==
    {l \in [shell : Shells,
            n     : 1..MaxCmd,
            in    : {"stdin", "pipe", "fifo", "over"},
            out   : {"client", "file", "new", "held"},
            both  : BOOLEAN] :      \* pipe_err: stderr goes where stdout goes
        l.shell = "ras" => l.in \notin {"fifo", "over"}}

(* The numbers of curnode and of the target; the client's is 4, and 3 is   *)
(* the listening socket, which only the first shell has closed.            *)
clifd      == 4
fd_readout == IF line.in = "stdin" THEN NoFd ELSE 5
fd_writein == IF line.in \in {"pipe", "over"} THEN 6 ELSE NoFd
target_in  == 8

Before(l) ==
    [n \in Nums |->
        CASE n \in 0..2                       -> Open("std", n)
          [] n = 3 /\ l.shell # "ras"         -> Open("listen", 0)
          [] n = clifd                        -> Open("client", 0)
          [] n = 5 /\ l.in # "stdin"          -> Open("read", InPipe)
          [] n = 6 /\ l.in = "pipe"           -> Open("write", InPipe)
          [] n = 6 /\ l.in = "over"           -> Open("write", LostPipe)
          [] n = 7 /\ l.out = "held"          -> Open("read", OutPipe)
          [] n = target_in /\ l.out = "held"  -> Open("write", OutPipe)
          [] n = 9 /\ l.in = "over"           -> Open("read", LostPipe)
          [] OTHER                            -> Closed]

NoKid == [state |-> "none", fds |-> [n \in Nums |-> Closed],
          reads |-> FALSE, out |-> 0, ok |-> TRUE]

CommandInit ==
    /\ line \in Lines
    /\ C = 0
    /\ stage = "start"
    /\ fds = Before(line)
    /\ pipes_fd = [i \in 0..MaxCmd |-> [r |-> NoFd, w |-> NoFd]]
    /\ fd_in = NoFd
    /\ fd_out = NoFd
    /\ fd_tofile = NoFd
    /\ kid = NoKid
    /\ level \in {l \in [Pipes -> 0..Capacity] :
                     /\ \A p \in Pipes : l[p] \in {0, 1}
                     /\ \A p \in Pipes \ {InPipe, OutPipe} : l[p] = 0
                     /\ line.in = "stdin" => l[InPipe] = 0
                     /\ line.out # "held" => l[OutPipe] = 0}

-----------------------------------------------------------------------------
(* The shell.                                                              *)

LastCommand == C = line.n - 1

(* What is opened for the output of the command C.                         *)
Opened ==
    CASE ~LastCommand                        -> MakePipe(fds, C)
      [] LastCommand /\ line.out = "new"     -> MakePipe(fds, OutPipe)
      [] LastCommand /\ line.out = "file"    ->
            LET w == Lowest(Free(fds))
            IN  [table |-> [fds EXCEPT ![w] = Open("file", 0)], r |-> NoFd, w |-> w]
      [] LastCommand /\ line.out = "held"    ->
            [table |-> fds, r |-> NoFd, w |-> target_in]
      [] LastCommand /\ line.out = "client"  ->
            [table |-> fds, r |-> NoFd, w |-> clifd]

Input == IF C > 0 THEN pipes_fd[C - 1].r
         ELSE IF fd_readout = NoFd THEN 0 ELSE fd_readout

(* (Changed by a mutation: the numbers are closed before the dup2.)        *)
ChildTable_closes_first(t, in, out, tofile) ==
    LET err == IF LastCommand /\ line.both THEN out ELSE clifd
        t1  == Shut(t, {pipes_fd[i].r : i \in 0..C-1} \union {pipes_fd[i].w : i \in 0..C-1})
    IN  Dup(Dup(Dup(t1, in, 0), out, 1), err, 2)

(* creat_proc in the new process: three dup2, then the numbers of the      *)
(* earlier pipes, of curnode's and of the file are closed, whatever they   *)
(* have come to stand for meanwhile.                                       *)
ChildTable(t, in, out, tofile) ==
    LET err == IF LastCommand /\ line.both THEN out ELSE clifd
    IN  Shut(Dup(Dup(Dup(t, in, 0), out, 1), err, 2),
             {pipes_fd[i].r : i \in 0..C-1} \union {pipes_fd[i].w : i \in 0..C-1}
                \union (IF fd_readout # NoFd THEN {fd_readout, fd_writein} ELSE {})
                \union {tofile})

(* What a command does: it may read its input to the end, writes, and      *)
(* succeeds or fails.  An unknown command fails at once.                   *)
Behaviours == [reads : BOOLEAN, out : 0..MaxOut, ok : BOOLEAN]

(* One turn of the loop up to the fork.  The write end of the pipe to this *)
(* line goes before its first command starts.                              *)
Start ==
    /\ stage = "start"
    /\ \E o \in {Opened}, b \in Behaviours :
          LET tofile == IF LastCommand /\ line.out = "file" THEN o.w ELSE NoFd
          IN  /\ fds' = IF C = 0 THEN Shut(o.table, {fd_writein}) ELSE o.table
              /\ fd_tofile' = tofile
              /\ kid' = [state |-> "runs", fds |-> ChildTable(fds', Input, o.w, tofile),
                         reads |-> b.reads, out |-> b.out, ok |-> b.ok]
              /\ pipes_fd' = IF o.r = NoFd THEN pipes_fd
                             ELSE [pipes_fd EXCEPT ![C] = [r |-> o.r, w |-> o.w]]
              /\ fd_out' = o.w
    /\ fd_in' = Input
    /\ stage' = "close"
    /\ UNCHANGED <<line, C, level>>

CloseSet(S) ==
    /\ stage = "close"
    /\ fds' = Shut(fds, S)
    /\ stage' = "wait"
    /\ UNCHANGED <<line, C, pipes_fd, fd_in, fd_out, fd_tofile, kid, level>>

(* (Changed by mutations: fd_out stays open; fd_in stays open.)            *)
CloseEnds_keeps_out == CloseSet({n \in {fd_in} : C # 0})
CloseEnds_keeps_in ==
    CloseSet({n \in {fd_out} : ~LastCommand \/ fd_tofile # NoFd})
(* After the fork, beside the running command.                             *)
CloseEnds ==
    /\ stage = "close"
    /\ fds' = Shut(fds,
                   {n \in {fd_out} : ~LastCommand \/ fd_tofile # NoFd}
                     \union {n \in {fd_readout} : C = 0 /\ ReleasesReadout}
                     \union {n \in {fd_in} : C # 0})
    /\ stage' = "wait"
    /\ UNCHANGED <<line, C, pipes_fd, fd_in, fd_out, fd_tofile, kid, level>>

(* (Changed by a mutation: the loop runs once too often.)                  *)
Wait_once_more ==
    /\ stage = "wait"
    /\ kid.state = "ended"
    /\ IF C = line.n \/ (GivesUpAtFailure /\ ~kid.ok)
       THEN stage' = "done" /\ UNCHANGED C
       ELSE stage' = "start" /\ C' = C + 1
    /\ kid' = [NoKid EXCEPT !.ok = kid.ok]
    /\ UNCHANGED <<line, fds, pipes_fd, fd_in, fd_out, fd_tofile, level>>

Wait ==
    /\ stage = "wait"
    /\ kid.state = "ended"
    /\ IF LastCommand \/ (GivesUpAtFailure /\ ~kid.ok)
       THEN stage' = "done" /\ UNCHANGED C
       ELSE stage' = "start" /\ C' = C + 1
    /\ kid' = [NoKid EXCEPT !.ok = kid.ok]
    /\ UNCHANGED <<line, fds, pipes_fd, fd_in, fd_out, fd_tofile, level>>

-----------------------------------------------------------------------------
(* The command.                                                            *)

ReadsFrom(p) == kid.fds[0] = Open("read", p)
WritesTo(p)  == kid.fds[1] = Open("write", p)

shell == <<line, C, stage, fds, pipes_fd, fd_in, fd_out, fd_tofile>>

Writers(p) == HeldBy(fds, "write", p) \/ HeldBy(kid.fds, "write", p)

KidRead(p) ==
    /\ kid.state = "runs" /\ kid.reads /\ ReadsFrom(p)
    /\ level[p] > 0
    /\ level' = [level EXCEPT ![p] = @ - 1]
    /\ UNCHANGED <<shell, kid>>

(* A pipe ends when it is empty and nobody could write to it.  (The input  *)
(* of the server itself is at its end.)                                    *)
KidSeesEnd ==
    /\ kid.state = "runs" /\ kid.reads
    /\ \A p \in Pipes : ReadsFrom(p) => level[p] = 0 /\ ~Writers(p)
    /\ kid' = [kid EXCEPT !.reads = FALSE]
    /\ UNCHANGED <<shell, level>>

KidWrite ==
    /\ kid.state = "runs" /\ ~kid.reads /\ kid.out > 0
    /\ \A p \in Pipes : WritesTo(p) => level[p] < Capacity
    /\ level' = [p \in Pipes |-> IF WritesTo(p) THEN level[p] + 1 ELSE level[p]]
    /\ kid' = [kid EXCEPT !.out = @ - 1]
    /\ UNCHANGED shell

KidEnds ==
    /\ kid.state = "runs" /\ ~kid.reads /\ kid.out = 0
    /\ kid' = [kid EXCEPT !.state = "ended", !.fds = NoKid.fds]
    /\ UNCHANGED <<shell, level>>

(* The line is over and the shell goes back to its client.                 *)
Over == stage = "done" /\ UNCHANGED command_vars

Shell == Start \/ CloseEnds \/ Wait
Kid   == (\E p \in Pipes : KidRead(p)) \/ KidSeesEnd \/ KidWrite \/ KidEnds

CommandNext == Shell \/ Kid \/ Over

CommandSpec == CommandInit /\ [][CommandNext]_command_vars

(* The kernel lets both processes run.                                     *)
FairCommandSpec == CommandSpec /\ WF_command_vars(Shell) /\ WF_command_vars(Kid)

-----------------------------------------------------------------------------
(* Properties.                                                             *)

CommandTypeOK ==
    /\ line \in Lines
    /\ C \in 0..line.n - 1
    /\ stage \in {"start", "close", "wait", "done"}
    /\ fds \in Tables
    /\ pipes_fd \in [0..MaxCmd -> [r : 0..NoFd, w : 0..NoFd]]
    /\ {fd_in, fd_out, fd_tofile} \subseteq 0..NoFd
    /\ kid \in [state : {"none", "runs", "ended"}, fds : Tables,
                reads : BOOLEAN, out : 0..MaxOut, ok : BOOLEAN]
    /\ level \in [Pipes -> 0..Capacity]

(* The command C reads where C - 1 wrote, or where the line reads, and     *)
(* writes to where the line says, although the numbers its table was made  *)
(* from have been closed and given out again in the turns before.          *)
RightEnds ==
    kid.state = "runs" =>
        /\ kid.fds[0] = IF C > 0 THEN Open("read", C - 1)
                        ELSE IF line.in = "stdin" THEN Open("std", 0)
                        ELSE Open("read", InPipe)
        /\ kid.fds[1] = CASE ~LastCommand                   -> Open("write", C)
                          [] LastCommand /\ line.out = "client" -> Open("client", 0)
                          [] LastCommand /\ line.out = "file"   -> Open("file", 0)
                          [] OTHER                          -> Open("write", OutPipe)
        /\ kid.fds[2] = IF LastCommand /\ line.both THEN kid.fds[1] ELSE Open("client", 0)

(* Nobody holds a write end of the pipe a running command reads, neither   *)
(* the shell nor the command itself, so it will see the end of its input   *)
(* (the comments at netshell.c, 446 and 453).                              *)
InputEnds == kid.state = "runs" => \A p \in Pipes : ReadsFrom(p) => ~Writers(p)

(* The shell keeps the read end of the pipe a command writes to: no        *)
(* command is killed by SIGPIPE and no output lost before it is read.      *)
OutputKept ==
    kid.state = "runs" => \A p \in Pipes : WritesTo(p) => HeldBy(fds, "read", p)

(* A running command has the ends it should, and only those who should     *)
(* have the other ends.                                                    *)
EndsRight == RightEnds /\ InputEnds /\ OutputKept

(* A line leaves the descriptors as it found them: it adds the pipe to a   *)
(* later line and takes away the ends curnode has of the pipe to this one. *)
(* In the chat shells a line given up at C leaves the read end of pipe C   *)
(* behind, and a line that reads a FIFO in the place of the pipe to it     *)
(* leaves the read end of that pipe.                                       *)
DescriptorsRestored ==
    stage = "done" =>
        \A n \in Nums :
            \/ fds[n] = Before(line)[n]
                  /\ n # fd_writein /\ (ReleasesReadout => n # fd_readout)
            \/ n \in {fd_readout, fd_writein} /\ fds[n] = Closed
            \/ line.out = "new" /\ LastCommand
                  /\ fds[n] \in {Open("read", OutPipe), Open("write", OutPipe)}
            \/ ~LastCommand /\ fds[n] = Open("read", C)

(* Every line ends, and the client gets its prompt: as long as what a      *)
(* command writes fits the pipe it writes to, that may hold some already.  *)
LineEnds == <>(stage = "done")
=============================================================================
