------------------------------ MODULE BatchCgi ------------------------------
(***************************************************************************)
(* The CGI program that feeds batch files to remote shells (cgi.c of       *)
(* Project3 and, through a SOCKS server, of Project4).  One process, up to *)
(* five hosts, one select loop: whenever what it has read from a host      *)
(* holds a prompt, it writes the host the next line of its file.           *)
(*                                                                         *)
(* The texts are cut to what the program can tell apart.  A host sends     *)
(* output "o" and the two letters "%" and "_" of its prompt; a line of the *)
(* file is its words and its end, which the host waits for.  A host is the *)
(* remote shell: it runs a line, sends output and a new prompt.            *)
(*                                                                         *)
(* Left out: a host name that is not found (the descriptor is then 0, the  *)
(* standard input), what the browser is shown, and the byte behind buffer  *)
(* that a full read sets.                                                  *)
(***************************************************************************)
EXTENDS Naturals, SequencesExt

CONSTANTS
    MaxHost,    \* the hosts are 1..MaxHost (5 in the code)
    MaxLine,    \* bound: lines of a batch file, the last one is exit
    BufLen,     \* BUFFER_LEN; a welcome message fits
    Room        \* what the buffer of a socket holds

ASSUME BatchCgiAssumption ==
    /\ MaxHost \in Nat \ {0} /\ MaxLine \in Nat \ {0}
    /\ BufLen \in Nat /\ BufLen >= 3
    /\ Room \in Nat /\ Room >= 2

VARIABLES
    tame,       \* the hosts do what the program counts on (see Answers)
    via,        \* via[h]: "none" if the host is not asked for, "direct", "socks"
    link,       \* link[h]: the socket
    active,     \* clients[h].is_active
    watched,    \* allfds
    ready,      \* readfds
    at,         \* where the program is: setup, select, scan, write, done, dead
    cur,        \* the loop variable i
    line,       \* cmdline while it is written
    nextline,   \* nextline[h]: where the file is read
    down,       \* down[h]: from the host, not read yet
    up,         \* up[h]: to the host, not read yet
    input,      \* history: input[h], what the host has been sent in all
    closed      \* closed[h]: the host has ended the connection

vars == <<tame, via, link, active, watched, ready, at, cur, line, nextline,
          down, up, input, closed>>

Hosts == 1..MaxHost

Words(n) == [line |-> n, end |-> FALSE]
End(n)   == [line |-> n, end |-> TRUE]
Line(n)  == <<Words(n), End(n)>>

(* What getline leaves in cmdline behind the last line of the file: what   *)
(* the memory held before, without an end.                                 *)
Junk == Words(MaxLine + 1)

Prompt == <<"%", "_">>
Welcome == <<"o">> \o Prompt

(* Tame hosts: no read ends between the two letters of a prompt (Taken),   *)
(* be it that they arrive apart or that the read is full after the first,  *)
(* which is up to the length of what a host sends and not to its manners;  *)
(* no output holds these letters, and no host goes down before it has run  *)
(* exit (GoDown).                                                          *)
Answers ==
    {out \o Prompt :
        out \in {<<>>, <<"o", "o", "o">>} \union (IF tame THEN {} ELSE {Prompt})}

Init ==
    /\ tame \in BOOLEAN
    /\ via \in [Hosts -> {"none", "direct", "socks"}]
    /\ link = [h \in Hosts |-> "none"]
    /\ active = {}
    /\ watched = {}
    /\ ready = {}
    /\ at = "setup"
    /\ cur = 1
    /\ line = <<>>
    /\ nextline = [h \in Hosts |-> 1]
    /\ down = [h \in Hosts |-> <<>>]
    /\ up = [h \in Hosts |-> <<>>]
    /\ input = [h \in Hosts |-> <<>>]
    /\ closed = [h \in Hosts |-> FALSE]

host == <<down, up, input, closed>>
fixed == <<tame, via>>

-----------------------------------------------------------------------------
(* parseQueryString, openBatchFile, and the first loop of connectServer.   *)

Setup(h) == at = "setup" /\ cur = h

NextSetup(h) ==
    IF h < MaxHost THEN cur' = h + 1 /\ UNCHANGED at
    ELSE cur' = 1 /\ at' = "select"

(* Not asked for, or its file cannot be read.                              *)
SetupNone(h) ==
    /\ Setup(h)
    /\ NextSetup(h)
    /\ UNCHANGED <<fixed, link, active, watched, ready, line, nextline, host>>

Socket(h, l, on) ==
    /\ Setup(h)
    /\ link' = [link EXCEPT ![h] = l]
    /\ active' = IF on THEN active \union {h} ELSE active
    /\ watched' = watched \union {h}
    /\ down' = [down EXCEPT ![h] = IF l = "up" THEN Welcome ELSE <<>>]
    /\ NextSetup(h)
    /\ UNCHANGED <<fixed, ready, line, nextline, up, input, closed>>

(* connect does not wait; a socket that fails at once is watched too.      *)
SetupDirect(h) ==
    /\ via[h] = "direct"
    /\ Socket(h, "connecting", TRUE) \/ Socket(h, "unconnected", FALSE)

(* The SOCKS server is waited for, and what it answers; a socket that was  *)
(* refused is watched too.  Writing the request to a socket that is not    *)
(* connected raises SIGPIPE.                                               *)
SetupSocks(h) ==
    /\ via[h] = "socks"
    /\ \/ Socket(h, "up", TRUE)
       \/ Socket(h, "refused", FALSE)
       \/ Socket(h, "refused", TRUE)
       \/ /\ Setup(h)
          /\ at' = "dead"
          /\ UNCHANGED <<fixed, link, active, watched, ready, cur, line, nextline, host>>

-----------------------------------------------------------------------------
(* The second loop of connectServer.                                       *)

(* A socket that is at its end or in error can be read.                    *)
Readable(h) ==
    \/ down[h] # <<>> \/ closed[h]
    \/ link[h] \in {"unconnected", "refused", "failed", "errored"}

(* (Changed by a mutation: readfds is not set again from allfds.)          *)
Select_stale_set ==
    /\ at = "select"
    /\ ready' = {h \in watched : Readable(h) /\ (ready # {} => h \in ready)}
    /\ ready' # {}
    /\ at' = "scan" /\ cur' = 1
    /\ UNCHANGED <<fixed, link, active, watched, line, nextline, host>>

Select ==
    /\ at = "select"
    /\ ready' = {h \in watched : Readable(h)}
    /\ ready' # {}
    /\ at' = "scan" /\ cur' = 1
    /\ UNCHANGED <<fixed, link, active, watched, line, nextline, host>>

Turn(h) == at = "scan" /\ cur = h

(* The next host, or the question whether any is left.                     *)
NextTurn(h, on) ==
    IF h < MaxHost THEN cur' = h + 1 /\ at' = "scan"
    ELSE cur' = 1 /\ at' = IF on = {} THEN "done" ELSE "select"

Skip(h) ==
    /\ Turn(h)
    /\ h \notin active \/ h \notin ready
    /\ NextTurn(h, active)
    /\ UNCHANGED <<fixed, link, active, watched, ready, line, nextline, host>>

(* getsockopt reports a connection that failed, once.                      *)
SocketError(h) ==
    /\ Turn(h) /\ h \in active \cap ready
    /\ link[h] = "failed"
    /\ link' = [link EXCEPT ![h] = "errored"]
    /\ NextTurn(h, active)
    /\ UNCHANGED <<fixed, active, watched, ready, line, nextline, host>>

(* prompt_check.                                                           *)
(* (Changed by a mutation: the letter before the last is not looked at.)   *)
prompt_check_short(s) == \E k \in 1..Len(s) - 2 : s[k] = "%" /\ s[k + 1] = "_"

(* (Changed by a mutation: whatever is read is taken for a prompt.)        *)
prompt_check_any(s) == s # <<>>

prompt_check(s) == \E k \in 1..Len(s) - 1 : s[k] = "%" /\ s[k + 1] = "_"

(* What one read may return.                                               *)
Taken(h) ==
    {n \in 1..Len(down[h]) : n <= BufLen /\ (tame => down[h][n] # "%")}

(* (Changed by a mutation: the file is not read on.)                       *)
getline_again(h) == UNCHANGED nextline

getline(h) ==
    nextline' = [nextline EXCEPT ![h] = IF @ <= MaxLine THEN @ + 1 ELSE @]

Cmdlines(h) ==
    IF nextline[h] <= MaxLine THEN {Line(nextline[h])} ELSE {<<>>, <<Junk>>}

Read(h) ==
    /\ Turn(h) /\ h \in active \cap ready
    /\ link[h] # "failed"
    /\ \E n \in Taken(h) :
          /\ down' = [down EXCEPT ![h] = SubSeq(@, n + 1, Len(@))]
          /\ IF prompt_check(SubSeq(down[h], 1, n))
             THEN at' = "write" /\ line' \in Cmdlines(h) /\ getline(h) /\ UNCHANGED cur
             ELSE NextTurn(h, active) /\ UNCHANGED <<line, nextline>>
    /\ UNCHANGED <<fixed, link, active, watched, ready, up, input, closed>>

(* (Changed by a mutation: the descriptor is closed, the client stays.)    *)
ReadEnd_stays_active(h) ==
    /\ Turn(h) /\ h \in active \cap ready
    /\ link[h] # "failed"
    /\ down[h] = <<>>
    /\ watched' = watched \ {h}
    /\ NextTurn(h, active)
    /\ UNCHANGED <<fixed, link, active, ready, line, nextline, host>>

ReadEnd(h) ==
    /\ Turn(h) /\ h \in active \cap ready
    /\ link[h] # "failed"
    /\ down[h] = <<>>
    /\ watched' = watched \ {h}
    /\ active' = active \ {h}
    /\ NextTurn(h, active')
    /\ UNCHANGED <<fixed, link, ready, line, nextline, host>>

Free(h) == Room - Len(up[h])

(* Of what does not fit a non-blocking write takes a part, and the rest of *)
(* the line is forgotten; while nothing fits it is tried again.  A socket  *)
(* to a SOCKS server blocks until it has taken all.                        *)
Write(h) ==
    LET n == IF Free(h) < Len(line) THEN Free(h) ELSE Len(line)
    IN  /\ at = "write" /\ cur = h
        /\ ~closed[h]
        /\ line # <<>> => n > 0
        /\ up' = [up EXCEPT ![h] = @ \o SubSeq(line, 1, n)]
        /\ input' = [input EXCEPT ![h] = @ \o SubSeq(line, 1, n)]
        /\ IF via[h] = "socks" /\ n < Len(line)
           THEN line' = SubSeq(line, n + 1, Len(line)) /\ UNCHANGED <<at, cur>>
           ELSE line' = <<>> /\ NextTurn(h, active)
        /\ UNCHANGED <<fixed, link, active, watched, ready, nextline, down, closed>>

(* Lost, or the end of the program by SIGPIPE.                             *)
WriteToClosed(h) ==
    /\ at = "write" /\ cur = h
    /\ closed[h]
    /\ \/ NextTurn(h, active) /\ line' = <<>>
       \/ line # <<>> /\ at' = "dead" /\ UNCHANGED <<cur, line>>
    /\ UNCHANGED <<fixed, link, active, watched, ready, nextline, host>>

-----------------------------------------------------------------------------
(* The network and the hosts.                                              *)

Connected(h) ==
    /\ link[h] = "connecting"
    /\ \/ /\ link' = [link EXCEPT ![h] = "up"]
          /\ down' = [down EXCEPT ![h] = Welcome]
       \/ /\ link' = [link EXCEPT ![h] = "failed"]
          /\ UNCHANGED down
    /\ UNCHANGED <<fixed, active, watched, ready, at, cur, line, nextline,
                   up, input, closed>>

(* The host reads a part of a line; at its end it runs it, and after exit, *)
(* the last line, it closes.                                               *)
Run(h) ==
    /\ link[h] = "up" /\ ~closed[h]
    /\ up[h] # <<>>
    /\ up' = [up EXCEPT ![h] = Tail(@)]
    /\ \/ /\ ~Head(up[h]).end
          /\ UNCHANGED <<down, closed>>
       \/ /\ Head(up[h]) = End(MaxLine)
          /\ closed' = [closed EXCEPT ![h] = TRUE]
          /\ UNCHANGED down
       \/ /\ Head(up[h]).end /\ Head(up[h]) # End(MaxLine)
          /\ \E a \in Answers : down' = [down EXCEPT ![h] = @ \o a]
          /\ UNCHANGED closed
    /\ UNCHANGED <<fixed, link, active, watched, ready, at, cur, line, nextline, input>>

(* A host may go down at any time, unless it is tame.                      *)
GoDown(h) ==
    /\ ~tame
    /\ link[h] = "up" /\ ~closed[h]
    /\ closed' = [closed EXCEPT ![h] = TRUE]
    /\ UNCHANGED <<fixed, link, active, watched, ready, at, cur, line, nextline,
                   down, up, input>>

-----------------------------------------------------------------------------
Program(h) ==
    \/ SetupNone(h) \/ SetupDirect(h) \/ SetupSocks(h)
    \/ Skip(h) \/ SocketError(h) \/ Read(h) \/ ReadEnd(h)
    \/ Write(h) \/ WriteToClosed(h)

Host(h) == Connected(h) \/ Run(h)

Next == Select \/ \E h \in Hosts : Program(h) \/ Host(h) \/ GoDown(h)

Spec == Init /\ [][Next]_vars

(* The program runs on, the SOCKS server answers in the end, a connection  *)
(* is made or fails, and a host reads what it is sent.                     *)
FairSpec ==
    /\ Spec
    /\ WF_vars(Select) /\ WF_vars(\E h \in Hosts : Program(h))
    /\ \A h \in Hosts : WF_vars(Host(h))

-----------------------------------------------------------------------------
Pieces == {Words(n) : n \in 1..MaxLine + 1} \union {End(n) : n \in 1..MaxLine}

TypeOK ==
    /\ tame \in BOOLEAN
    /\ via \in [Hosts -> {"none", "direct", "socks"}]
    /\ link \in [Hosts -> {"none", "connecting", "up", "unconnected", "refused",
                           "failed", "errored"}]
    /\ active \subseteq {h \in Hosts : link[h] # "none"}
    /\ watched \subseteq {h \in Hosts : link[h] # "none"}
    /\ active \subseteq watched
    /\ ready \subseteq Hosts
    /\ at \in {"setup", "select", "scan", "write", "done", "dead"}
    /\ cur \in Hosts
    /\ nextline \in [Hosts -> 1..MaxLine + 1]
    /\ \A h \in Hosts :
          /\ Len(up[h]) <= Room
          /\ \A k \in DOMAIN input[h] : input[h][k] \in Pieces
          /\ \A k \in DOMAIN down[h] : down[h][k] \in {"o", "%", "_"}
          /\ closed[h] \in BOOLEAN
    /\ \A k \in DOMAIN line : line[k] \in Pieces

(* Whatever the hosts do, no host is sent a line twice, or a later line    *)
(* before an earlier one: the reads of the file and of the sockets of all  *)
(* hosts go through one loop and one buffer (cgi.c:199-252).  A part of a  *)
(* line may be missing, and junk may follow the last.                      *)
InOrder ==
    \A h \in Hosts : \A j \in DOMAIN input[h] : \A i \in 1..j - 1 :
        LET a == input[h][i]
            b == input[h][j]
        IN  \/ a.line < b.line
            \/ a.line = b.line /\ ~a.end /\ b.end
            \/ a = Junk /\ b = Junk

(* A tame host is given its next line only when it has read and run all it *)
(* was given before, so that a line always finds an empty socket and is    *)
(* taken whole (cgi.c:230-238 writes once).                                *)
LockStep ==
    tame /\ at = "write" =>
        /\ up[cur] = <<>> /\ down[cur] = <<>>
        /\ input[cur] # <<>> => Last(input[cur]).end

File == [k \in 1..2 * MaxLine |-> [line |-> (k + 1) \div 2, end |-> k % 2 = 0]]

(* A tame host that is reached gets its whole file, whatever happens to    *)
(* the other hosts, unless the program dies while it sets them up.         *)
WholeFile ==
    \A h \in Hosts :
        (tame /\ h \in active /\ link[h] = "up") ~> (input[h] = File \/ at = "dead")

(* With tame hosts the program ends: every connection is closed and        *)
(* noticed in the end, also those that failed (cgi.c:244-249, 255-263).    *)
Finishes == (tame /\ active # {}) ~> (at \in {"done", "dead"})

(* The batch comes to its end, and to that of every file.                  *)
BatchEnds == WholeFile /\ Finishes
=============================================================================
