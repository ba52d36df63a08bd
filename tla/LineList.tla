------------------------------ MODULE LineList ------------------------------
(***************************************************************************)
(* The list of command lines behind the numbered pipes of the remote shell *)
(* (li3.c; create_linenode and execute_cmdline of netshell.c).  Node 0 is  *)
(* the HEAD node, node i the ith line; the nodes after cur were created in *)
(* advance because an earlier line ends in |N.  A step is one line of the  *)
(* client; the processes of a line are the subject of CommandLine.         *)
(*                                                                         *)
(* A pipe to a line is named by the node that keeps its two descriptors:   *)
(* fd_readout and fd_writein are always set together.  A line of the chat  *)
(* shells that takes a user's pipe (<M) has its fd_readout overwritten by  *)
(* the FIFO before it runs; wr and rd are the ends of numbered pipes that  *)
(* are open in the shell, whether a node still knows them or not.          *)
(***************************************************************************)
EXTENDS Integers, Sequences

CONSTANTS
    Variant,    \* which of the three shells: "ras", "select" or "shm"
    FirstLine,  \* linecount when the list is created
    MaxPipe,    \* the largest N of |N and !N
    MaxNode     \* bound on the nodes of a session

ASSUME LineListAssumption ==
    /\ Variant \in {"ras", "select", "shm"}
    /\ FirstLine \in Int
    /\ MaxPipe \in Nat
    /\ MaxNode \in Nat

VARIABLES
    node,       \* the list: [0..tail -> Node]
    cur,        \* curnode, as an index
    tail,       \* tailnode, as an index
    linecount,  \* the number the next created node gets
    wire,       \* wire[i]: the lines whose output is in the pipe to node i
    wr,         \* the nodes whose fd_writein the shell holds open
    rd,         \* the nodes whose fd_readout the shell holds open
    took,       \* how the current line got its input, and what was there
    idle,       \* history: the nodes whose line ran no command
    bypassed,   \* history: the nodes whose line read a user's pipe instead
    status      \* "open", "closed" (exit), "lost" (walked off the list)
                \* or "faulted" (no command to look at)

vars == <<node, cur, tail, linecount, wire, wr, rd, took, idle, bypassed,
          status>>

Node == [linenum : Int, pipeto : 0..MaxPipe, piped : BOOLEAN]

(* The last command of a line that ends in |N wrote to the pipe or did not. *)
Outcomes == {"wrote", "silent"}

(* Only the two chat shells give up a line at a command that fails.        *)
StopsAtFailure == Variant # "ras"

(* Only the shared-memory shell closes the read end it handed to a line.   *)
ClosesReadout == Variant = "shm"

(* <M: only the chat shells have users to take from.                       *)
TakesUserPipe == IF Variant = "ras" THEN {FALSE} ELSE BOOLEAN

create_node(num, pipeto) == [linenum |-> num, pipeto |-> pipeto, piped |-> FALSE]

TypeOK ==
    /\ tail \in 0..MaxNode
    /\ cur \in 0..tail
    /\ node \in [0..tail -> Node]
    /\ linecount \in Int
    /\ wire \in [0..tail -> Seq(1..MaxNode)]
    /\ wr \subseteq 1..tail
    /\ rd \subseteq 1..tail
    /\ took \in [kind : {"none", "stdin", "pipe", "user", "builtin", "refused", "empty"},
                 data : Seq(1..MaxNode)]
    /\ idle \subseteq 1..tail
    /\ bypassed \subseteq 1..tail
    /\ status \in {"open", "closed", "lost", "faulted"}

Init ==
    /\ node = [i \in 0..0 |-> create_node(0, 0)]
    /\ cur = 0
    /\ tail = 0
    /\ linecount = FirstLine
    /\ wire = [i \in 0..0 |-> <<>>]
    /\ wr = {}
    /\ rd = {}
    /\ took = [kind |-> "none", data |-> <<>>]
    /\ idle = {}
    /\ bypassed = {}
    /\ status = "open"

-----------------------------------------------------------------------------
(* create_linenode(line, n).  The line takes the next node, a new one when *)
(* cur is the last; then nodes are added until the line n below exists.    *)

AtEnd == cur = tail

CurNum  == IF AtEnd THEN linecount ELSE node[cur + 1].linenum
TailNum == IF AtEnd THEN linecount ELSE node[tail].linenum

(* (Changed by a mutation: one node too few.)                              *)
stillneed_one_short(n) == n - (TailNum - CurNum) - 1

stillneed(n) == n - (TailNum - CurNum)

FirstTail == IF AtEnd THEN tail + 1 ELSE tail

NewTail(n) == IF n > 0 /\ stillneed(n) > 0 THEN FirstTail + stillneed(n)
                                           ELSE FirstTail

NewList(n) ==
    [i \in 0..NewTail(n) |->
        IF i <= tail
        THEN IF i = cur + 1 THEN [node[i] EXCEPT !.pipeto = n] ELSE node[i]
        ELSE create_node(linecount + (i - tail - 1), IF i = cur + 1 THEN n ELSE 0)]

NewWire(n) == [i \in 0..NewTail(n) |-> IF i <= tail THEN wire[i] ELSE <<>>]

(* (Changed by a mutation: tailnode is not moved.)                         *)
create_linenode_keeps_tail(n) ==
    /\ cur' = cur + 1
    /\ tail' = tail
    /\ linecount' = linecount + (NewTail(n) - tail)

create_linenode(n) ==
    /\ cur' = cur + 1
    /\ tail' = NewTail(n)
    /\ linecount' = linecount + (NewTail(n) - tail)

-----------------------------------------------------------------------------
(* execute_cmdline, for the line that create_linenode made current.        *)

(* The walk for the target of the line at c: the first node, from c on,    *)
(* with the number sought; the empty set if the walk runs off the list.    *)
Matches(list, c, last) ==
    {i \in c..last : list[i].linenum = list[c].linenum + list[c].pipeto}

Target(list, c, last) ==
    {i \in Matches(list, c, last) : \A j \in Matches(list, c, last) : i <= j}

(* The first command reads fd_readout, or else the descriptor 0 of the     *)
(* server.  With <M fd_readout is the FIFO of user M: what earlier lines   *)
(* piped to this line is then never read.                                  *)
InputAt(list, w, c, user) ==
    IF user               THEN [kind |-> "user",  data |-> <<>>]
    ELSE IF list[c].piped THEN [kind |-> "pipe",  data |-> w[c]]
                          ELSE [kind |-> "stdin", data |-> <<>>]

(* (Changed by a mutation: the read end is not closed.)                    *)
CloseOwnEnds_keeps_read(newWr, newRd, user) ==
    /\ wr' = newWr \ {cur + 1}
    /\ rd' = newRd
    /\ bypassed' = IF user THEN bypassed \union {cur + 1} ELSE bypassed

(* The write end goes before the first command starts, or the command      *)
(* would never see the end of its input.  What the shared-memory shell     *)
(* then closes is fd_readout: after <M the FIFO, and not the read end of   *)
(* the pipe, which no node knows any more.                                 *)
CloseOwnEnds(newWr, newRd, user) ==
    /\ wr' = newWr \ {cur + 1}
    /\ rd' = IF ClosesReadout /\ ~user THEN newRd \ {cur + 1} ELSE newRd
    /\ bypassed' = IF user THEN bypassed \union {cur + 1} ELSE bypassed

(* Where the output goes: the pipe of the target, created if need be.      *)
WithPipe(list, hit) ==
    [i \in DOMAIN list |-> IF i \in hit THEN [list[i] EXCEPT !.piped = TRUE]
                                        ELSE list[i]]

(* (Changed by a mutation: a second line makes the pipe anew.)             *)
Held_new_pipe(list, w, i) == <<>>

Held(list, w, i) == IF list[i].piped THEN w[i] ELSE <<>>

Poured(list, w, hit, out) ==
    [i \in DOMAIN w |->
        IF i \notin hit THEN w[i]
        ELSE IF out = "wrote" THEN Append(Held(list, w, i), cur + 1)
             ELSE Held(list, w, i)]

-----------------------------------------------------------------------------
(* The lines a client can send.                                            *)

(* A line of commands that ends in no numbered pipe.                       *)
PlainLine(user) ==
    /\ status = "open"
    /\ cur + 1 <= MaxNode
    /\ create_linenode(0)
    /\ node' = NewList(0)
    /\ wire' = NewWire(0)
    /\ took' = InputAt(NewList(0), NewWire(0), cur + 1, user)
    /\ CloseOwnEnds(wr, rd, user)
    /\ UNCHANGED <<idle, status>>

(* A line that is given up at a failing command before its last one: the   *)
(* nodes below exist, the pipe does not.                                   *)
StoppedLine(n, user) ==
    /\ status = "open"
    /\ StopsAtFailure
    /\ cur + 1 + n <= MaxNode
    /\ create_linenode(n)
    /\ node' = NewList(n)
    /\ wire' = NewWire(n)
    /\ took' = InputAt(NewList(n), NewWire(n), cur + 1, user)
    /\ CloseOwnEnds(wr, rd, user)
    /\ UNCHANGED <<idle, status>>

(* A line that ends in |n or !n and reaches its last command.  A walk that *)
(* runs off the list reads through NULL.                                   *)
PipedLine(n, out, user) ==
    LET list == NewList(n)
        hit  == Target(list, cur + 1, NewTail(n))
    IN  /\ status = "open"
        /\ cur + 1 + n <= MaxNode
        /\ create_linenode(n)
        /\ node' = WithPipe(list, hit)
        /\ wire' = Poured(list, NewWire(n), hit, out)
        /\ took' = InputAt(list, NewWire(n), cur + 1, user)
        /\ CloseOwnEnds(wr \union hit, rd \union hit, user)
        /\ status' = IF hit = {} THEN "lost" ELSE "open"
        /\ UNCHANGED idle

(* setenv, printenv, the chat commands and a user's pipe that is not there *)
(* take a node and run nothing.                                            *)
BuiltinLine ==
    /\ status = "open"
    /\ cur + 1 <= MaxNode
    /\ create_linenode(0)
    /\ node' = NewList(0)
    /\ wire' = NewWire(0)
    /\ took' = [kind |-> "builtin", data |-> <<>>]
    /\ idle' = idle \union {cur + 1}
    /\ UNCHANGED <<wr, rd, bypassed, status>>

(* symbol_chk finds a symbol that does not go with the end of the line, a  *)
(* |n or another symbol (n = 0): the nodes below exist, and nothing runs.  *)
(* A FIFO that was taken on the way hides the pipe to this line, of which  *)
(* no end is closed.  The shared-memory shell ends the session as well.    *)
RefusedLine(n) ==
    /\ status = "open"
    /\ Variant # "ras"
    /\ cur + 1 + n <= MaxNode
    /\ create_linenode(n)
    /\ node' = NewList(n)
    /\ wire' = NewWire(n)
    /\ took' = [kind |-> "refused", data |-> <<>>]
    /\ idle' = idle \union {cur + 1}
    /\ status' = IF Variant = "shm" THEN "closed" ELSE "open"
    /\ UNCHANGED <<wr, rd, bypassed>>

(* A line without a command, blanks or a bare |n: the first shell runs the *)
(* loop over its commands zero times; the chat shells read argvs[0][0]     *)
(* through a NULL argvs[0].                                                *)
EmptyLine(n) ==
    /\ status = "open"
    /\ cur + 1 + n <= MaxNode
    /\ create_linenode(n)
    /\ node' = NewList(n)
    /\ wire' = NewWire(n)
    /\ took' = [kind |-> "empty", data |-> <<>>]
    /\ idle' = idle \union {cur + 1}
    /\ status' = IF Variant = "ras" THEN "open" ELSE "faulted"
    /\ UNCHANGED <<wr, rd, bypassed>>

Exit ==
    /\ status = "open"
    /\ status' = "closed"
    /\ UNCHANGED <<node, cur, tail, linecount, wire, wr, rd, took, idle, bypassed>>

Next ==
    \/ \E user \in TakesUserPipe : PlainLine(user)
    \/ \E n \in 1..MaxPipe, user \in TakesUserPipe : StoppedLine(n, user)
    \/ \E n \in 1..MaxPipe, out \in Outcomes, user \in TakesUserPipe :
            PipedLine(n, out, user)
    \/ BuiltinLine
    \/ \E n \in 0..MaxPipe : RefusedLine(n)
    \/ \E n \in 0..MaxPipe : EmptyLine(n)
    \/ Exit

Spec == Init /\ [][Next]_vars

-----------------------------------------------------------------------------
(* Properties.                                                             *)

(* No |N sends the walk of execute_cmdline for the node N lines below past *)
(* the end of the list: create_linenode has made every node it can need.   *)
TargetFound == status # "lost"

(* A line that has not come yet and has a pipe can still be written to and *)
(* read from: closing what a line used never closes a later line's pipe.   *)
PendingOpen ==
    \A i \in cur + 1 .. tail : node[i].piped => i \in wr /\ i \in rd

(* The other way round: every write end the shell holds is for a line to   *)
(* come, or of a line that ran nothing.  However long the session, a line  *)
(* that ran has met the end of its input, its own shell not being a writer.*)
WritersPending == wr \subseteq (cur + 1 .. tail) \union idle

(* The shared-memory shell lets go of the read ends as well: one it still  *)
(* holds for a line that is over is of a line that ran nothing or took a   *)
(* user's pipe in its place.  Those it never lets go of.                   *)
ReadersPending ==
    ClosesReadout => rd \subseteq (cur + 1 .. tail) \union idle \union bypassed

(* All this together: what the shell holds is what lines to come need, and *)
(* what the two kinds of line above have left behind.                      *)
PipesHeld == PendingOpen /\ WritersPending /\ ReadersPending

(* The list delivers what the numbered pipes promise: a session of the     *)
(* list is a session of NumberedPipes.                                     *)
NP == INSTANCE NumberedPipes WITH
        line <- cur,
        fed  <- {i \in 1..tail : node[i].piped},
        due  <- [i \in 1..MaxNode |-> IF i <= tail THEN wire[i] ELSE <<>>]

Delivers == NP!Spec
=============================================================================
