--------------------------- MODULE NumberedPipes ---------------------------
(***************************************************************************)
(* What the numbered pipes of the remote shell promise, with no linked     *)
(* list, no descriptors and no processes: the output of a line that ends   *)
(* in |N (or !N) waits for the Nth line after it, the outputs that wait    *)
(* for the same line arrive in the order of the lines that wrote them, and *)
(* every line counts, a failing one, an empty one and a builtin included.  *)
(* What waits is for a line that has no input of its own: one that names a *)
(* user to take from reads that, and what waited for it is not delivered.  *)
(***************************************************************************)
EXTENDS Naturals, Sequences

CONSTANTS
    MaxPipe,    \* the largest N of |N and !N
    MaxNode     \* bound on the lines of a session

Outcomes == {"wrote", "silent", "stopped"}

VARIABLES
    line,       \* lines received so far
    fed,        \* the lines an earlier line has opened a pipe to
    due,        \* due[i]: the lines whose output waits for line i
    took        \* how the last line got its input, and what it found there

vars == <<line, fed, due, took>>

Input(i, own) == IF own             THEN [kind |-> "user",  data |-> <<>>]
                 ELSE IF i \in fed THEN [kind |-> "pipe",  data |-> due[i]]
                                   ELSE [kind |-> "stdin", data |-> <<>>]

Init ==
    /\ line = 0
    /\ fed = {}
    /\ due = [i \in 1..MaxNode |-> <<>>]
    /\ took = [kind |-> "none", data |-> <<>>]

(* A line of commands with no numbered pipe at its end; own says whether   *)
(* it names an input of its own.                                           *)
Plain(own) ==
    /\ line < MaxNode
    /\ line' = line + 1
    /\ took' = Input(line + 1, own)
    /\ UNCHANGED <<fed, due>>

(* A line that ends in |n: it wrote something, ran without output, or was  *)
(* given up before its last command was started.                           *)
Piped(n, out, own) ==
    LET target == line + 1 + n IN
    /\ target <= MaxNode
    /\ line' = line + 1
    /\ took' = Input(line + 1, own)
    /\ fed' = IF out = "stopped" THEN fed ELSE fed \union {target}
    /\ due' = IF out = "wrote"
              THEN [due EXCEPT ![target] = Append(@, line + 1)]
              ELSE due

(* A builtin, a refused or an empty line reads nothing, and still counts.  *)
Idle(kind) ==
    /\ line < MaxNode
    /\ line' = line + 1
    /\ took' = [kind |-> kind, data |-> <<>>]
    /\ UNCHANGED <<fed, due>>

Next ==
    \/ \E own \in BOOLEAN : Plain(own)
    \/ \E n \in 1..MaxPipe, out \in Outcomes, own \in BOOLEAN : Piped(n, out, own)
    \/ \E kind \in {"builtin", "refused", "empty"} : Idle(kind)

Spec == Init /\ [][Next]_vars
=============================================================================
