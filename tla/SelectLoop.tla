----------------------------- MODULE SelectLoop -----------------------------
(***************************************************************************)
(* The loop of the single-process chat shell (start_server of              *)
(* Project2/select): which socket is served when, and what becomes of the  *)
(* others while one client's lines are read and executed.                  *)
(*                                                                         *)
(* A client is away, queued in the backlog, open, or closed: it hung up    *)
(* without exit and the server still has its socket.  What a batch of      *)
(* lines does is the subject of SelectServer; here it ends the session or  *)
(* not, and it writes to the clients.                                      *)
(*                                                                         *)
(* The server is one process and none of its calls has a timeout: it waits *)
(* in wait for a command that does not end, and in write for a client that *)
(* does not read, whoever else is waiting for it meanwhile.                *)
(***************************************************************************)
EXTENDS Naturals, Sequences, FiniteSets

CONSTANTS
    Clients,     \* the clients, never more than there are slots
    Sockets,     \* the descriptors accept can return
    MaxPieces    \* bound: reads of one batch that end within a line

Listen == 0      \* sockfd, lower than every descriptor accept returns

ASSUME SelectLoopAssumption ==
    /\ IsFiniteSet(Clients)
    /\ Sockets \subseteq Nat \ {Listen}
    /\ IsFiniteSet(Sockets)
    /\ Cardinality(Sockets) >= Cardinality(Clients)
    /\ MaxPieces \in Nat \ {0}

VARIABLES
    manners,    \* what the clients of this behaviour keep to
    conn,       \* conn[c]: "away", "queued", "open" or "closed"
    sock,       \* sock[c]: the server's descriptor of c, 0 if it has none
    backlog,    \* the clients waiting for accept
    inbox,      \* the clients that sent what read has not taken
    last,       \* last[c]: what the input of c ends in so far
    allfds,     \* the global of that name
    todo,       \* the bits of readfds the scan has not come to
    batch,      \* what the input read for the client served ends in
    pieces,     \* reads so far that left it within a line
    hit,        \* the clients that hung up and were written to since
    full,       \* the clients whose connection takes no more, as they do not read
    pc          \* "select", "scan", "serve", "spin" or "dead"

vars == <<manners, conn, sock, backlog, inbox, last, allfds, todo, batch, pieces,
          hit, full, pc>>

client == <<manners, conn, backlog, inbox, last>>
server == <<sock, allfds, todo, batch, pieces, hit, pc>>

(* polite: no client hangs up without exit.  brief: every command ends, as *)
(* none writes more than the pipe it writes to takes or waits for input    *)
(* that does not come.  attentive: clients that do not read, read again.   *)
Manners == {"polite", "brief", "attentive"}

(* Complete lines, the beginning of a line, or complete lines up to exit.  *)
Ends == {"lines", "part", "exit"}

(* What lines can turn out to be: yell stands for every message to others, *)
(* and the last of the endless ones runs a command that does not end.      *)
Batches(end) ==
    (CASE end = "part"  -> {"part"}
       [] end = "lines" -> {"lines", "yell"}
       [] end = "exit"  -> {"exit"})
    \union {b \in {"endless"} : end # "part" /\ "brief" \notin manners}

Held   == {c \in Clients : conn[c] \in {"open", "closed"}}
Closed == {c \in Clients : conn[c] = "closed"}

(* The scan goes up from descriptor 0.                                     *)
At(fd)  == fd \in todo /\ \A g \in todo : fd <= g
Turn(c) == c \in Held /\ At(sock[c])

Init ==
    /\ manners \in SUBSET Manners
    /\ conn = [c \in Clients |-> "away"]
    /\ sock = [c \in Clients |-> 0]
    /\ backlog = <<>>
    /\ inbox = {}
    /\ last = [c \in Clients |-> "lines"]
    /\ allfds = {Listen}
    /\ todo = {}
    /\ batch = "lines"
    /\ pieces = 0
    /\ hit = {}
    /\ full = {}
    /\ pc = "select"

-----------------------------------------------------------------------------
(* The clients.                                                            *)

Connect(c) ==
    /\ conn[c] = "away"
    /\ conn' = [conn EXCEPT ![c] = "queued"]
    /\ backlog' = Append(backlog, c)
    /\ UNCHANGED <<server, manners, full, inbox, last>>

(* A packet more.  Nothing follows an exit, and a batch fits the buffer of *)
(* LINEMAX bytes: a client whose line is waited for does not go on for     *)
(* ever without being at the end of a line.                                *)
Send(c, end) ==
    /\ conn[c] \in {"queued", "open"}
    /\ last[c] # "exit"
    /\ ~(end = "part" /\ pc = "serve" /\ Turn(c) /\ pieces = MaxPieces)
    /\ inbox' = inbox \union {c}
    /\ last' = [last EXCEPT ![c] = end]
    /\ UNCHANGED <<server, manners, full, conn, backlog>>

(* The rest of a line whose beginning has been sent.                       *)
Complete(c) == last[c] = "part" /\ Send(c, "lines")

HangUp(c) ==
    /\ "polite" \notin manners
    /\ conn[c] = "open"
    /\ conn' = [conn EXCEPT ![c] = "closed"]
    /\ full' = full \ {c}
    /\ UNCHANGED <<server, manners, backlog, inbox, last>>

(* The client reads what has been written to it.                           *)
Drain(c) ==
    /\ c \in full
    /\ full' = full \ {c}
    /\ UNCHANGED <<server, client>>

-----------------------------------------------------------------------------
(* The server.                                                             *)

Ready == (IF backlog = <<>> THEN {} ELSE {Listen})
             \union {sock[c] : c \in Held \cap (inbox \union Closed)}

(* (Changed by a mutation: one descriptor is served before the next select.) *)
Select_lowest ==
    /\ pc = "select"
    /\ allfds \cap Ready # {}
    /\ todo' = {fd \in allfds \cap Ready : \A g \in allfds \cap Ready : fd <= g}
    /\ pc' = "scan"
    /\ UNCHANGED <<client, sock, allfds, batch, pieces, hit, full>>

Select ==
    /\ pc = "select"
    /\ allfds \cap Ready # {}
    /\ todo' = allfds \cap Ready
    /\ pc' = "scan"
    /\ UNCHANGED <<client, sock, allfds, batch, pieces, hit, full>>

(* Writing to the clients in to.  The first write to a client that has     *)
(* hung up makes its host reset the connection; a later one raises SIGPIPE *)
(* in the server once the reset has arrived.  The call does not return     *)
(* while a connection is full, and may leave any of them full.             *)
Write(to) ==
    /\ to \cap full = {}
    /\ \/ pc' = "scan" /\ hit' = hit \union (to \cap Closed)
       \/ to \cap hit # {} /\ pc' = "dead" /\ hit' = hit
    /\ \E slow \in SUBSET (to \ Closed) : full' = full \union slow

(* The new client gets the lowest free descriptor; all hear of it.         *)
Accept ==
    /\ pc = "scan"
    /\ At(Listen)
    /\ \E fd \in Sockets \ allfds :
          /\ \A g \in Sockets \ allfds : fd <= g
          /\ sock' = [sock EXCEPT ![Head(backlog)] = fd]
          /\ allfds' = allfds \union {fd}
    /\ conn' = [conn EXCEPT ![Head(backlog)] = "open"]
    /\ backlog' = Tail(backlog)
    /\ todo' = todo \ {Listen}
    /\ Write(Held \union {Head(backlog)})
    /\ UNCHANGED <<manners, inbox, last, batch, pieces>>

(* recv_cli_cmd reads once, and then until what it has ends in a newline,  *)
(* looking at no other socket meanwhile.                                   *)
Reading(c) ==
    /\ Turn(c)
    /\ pc = "scan" \/ (pc = "serve" /\ batch = "part")

(* (Changed by a mutation: the count of what was read is not reset.)       *)
Read_counts_on(c) ==
    /\ Reading(c)
    /\ c \in inbox
    /\ inbox' = inbox \ {c}
    /\ batch' \in Batches(last[c])
    /\ pieces' = pieces + 1
    /\ pc' = "serve"
    /\ UNCHANGED <<manners, conn, backlog, last, sock, allfds, todo, hit, full>>

Read(c) ==
    /\ Reading(c)
    /\ c \in inbox
    /\ inbox' = inbox \ {c}
    /\ batch' \in Batches(last[c])
    /\ pieces' = IF last[c] = "part" THEN pieces + 1 ELSE 0
    /\ pc' = "serve"
    /\ UNCHANGED <<manners, conn, backlog, last, sock, allfds, todo, hit, full>>

(* read returns 0.  The first time, the byte looked at is the one below    *)
(* the buffer: if that is a newline there is no line and the prompt is     *)
(* written.  Otherwise read returns 0 for ever.                            *)
ReadEnd(c) ==
    /\ Reading(c)
    /\ c \in Closed \ inbox
    /\ \/ pc' = "spin" /\ UNCHANGED <<todo, hit, full>>
       \/ pc = "scan" /\ todo' = todo \ {sock[c]} /\ Write({c})
    /\ UNCHANGED <<client, sock, allfds, batch, pieces>>

(* The lines have been executed, with words to the others or only the      *)
(* prompt.  Of endless ones the server never sees the end.                 *)
Serve(c) ==
    /\ pc = "serve"
    /\ Turn(c)
    /\ batch \in {"lines", "yell"}
    /\ todo' = todo \ {sock[c]}
    /\ Write(IF batch = "yell" THEN Held ELSE {c})
    /\ UNCHANGED <<client, sock, allfds, batch, pieces>>

(* (Changed by a mutation: the bit is looked at again.)                    *)
ServeExit_again(c) ==
    /\ pc = "serve" /\ Turn(c) /\ batch = "exit"
    /\ allfds' = allfds \ {sock[c]}
    /\ conn' = [conn EXCEPT ![c] = "away"]
    /\ sock' = [sock EXCEPT ![c] = 0]
    /\ last' = [last EXCEPT ![c] = "lines"]
    /\ pc' = "scan" /\ hit' = (hit \union Closed) \ {c}
    /\ UNCHANGED <<manners, todo, backlog, inbox, batch, pieces, full>>

(* exit: a broadcast, then clean_cli.                                      *)
ServeExit(c) ==
    /\ pc = "serve"
    /\ Turn(c)
    /\ batch = "exit"
    /\ todo' = todo \ {sock[c]}
    /\ conn' = [conn EXCEPT ![c] = "away"]
    /\ sock' = [sock EXCEPT ![c] = 0]
    /\ allfds' = allfds \ {sock[c]}
    /\ last' = [last EXCEPT ![c] = "lines"]
    /\ Held \cap full = {}
    /\ \/ pc' = "scan" /\ hit' = (hit \union Closed) \ {c}
       \/ hit # {} /\ pc' = "dead" /\ hit' = hit
    /\ full' \in SUBSET (Held \ (Closed \union {c}))
    /\ UNCHANGED <<manners, backlog, inbox, batch, pieces>>

EndScan ==
    /\ pc = "scan"
    /\ todo = {}
    /\ pc' = "select"
    /\ UNCHANGED <<client, sock, allfds, todo, batch, pieces, hit, full>>

Server ==
    \/ Select \/ Accept \/ EndScan
    \/ \E c \in Clients : Read(c) \/ ReadEnd(c) \/ Serve(c) \/ ServeExit(c)

Next ==
    \/ Server
    \/ \E c \in Clients : Connect(c) \/ HangUp(c) \/ Drain(c)
    \/ \E c \in Clients, end \in Ends : Send(c, end)

Spec == Init /\ [][Next]_vars

(* The server runs on while it can, so commands that end take a finite     *)
(* time; a client that began a line ends it; the attentive read again.     *)
FairSpec ==
    /\ Spec
    /\ WF_vars(Server)
    /\ \A c \in Clients :
          WF_vars(Complete(c)) /\ WF_vars("attentive" \in manners /\ Drain(c))

-----------------------------------------------------------------------------
(* Properties.                                                             *)

TypeOK ==
    /\ manners \subseteq Manners
    /\ conn \in [Clients -> {"away", "queued", "open", "closed"}]
    /\ sock \in [Clients -> Sockets \union {0}]
    /\ backlog \in Seq(Clients)
    /\ inbox \subseteq Clients
    /\ last \in [Clients -> Ends]
    /\ allfds \subseteq Sockets \union {Listen}
    /\ todo \subseteq Sockets \union {Listen}
    /\ batch \in Ends \union {"yell", "endless"}
    /\ pieces \in 0..MaxPieces
    /\ hit \subseteq Clients
    /\ full \subseteq Clients
    /\ pc \in {"select", "scan", "serve", "spin", "dead"}

(* The descriptors select is called with are those the server holds, each  *)
(* of another client: select never meets a closed one, which would end the *)
(* server, and nobody is left out.                                         *)
WatchedAreHeld ==
    /\ allfds = {Listen} \union {sock[c] : c \in Held}
    /\ \A c, d \in Held : sock[c] = sock[d] => c = d

(* A bit that the scan comes to was set for the client it finds: sessions  *)
(* that begin and end during a scan never leave it a bit of nobody's, with *)
(* which the search for the uid would run past the slots.                  *)
OwnerFound ==
    pc # "dead" =>
        \A fd \in todo \ {Listen} :
            \E c \in Held : sock[c] = fd /\ (c \in inbox \union Closed \/ pc = "serve")

(* The sets of select speak of the clients the server has, no others.      *)
SetsRight == WatchedAreHeld /\ OwnerFound

(* While nobody hangs up without exit, every command ends and every client *)
(* reads again some time, a client's lines are read: neither the pieces    *)
(* and the batches of the others nor the times at which they do not read   *)
(* keep the server from it for ever.                                       *)
InboxRead ==
    \A c \in Clients :
        (manners = Manners /\ conn[c] = "open" /\ c \in inbox) ~> c \notin inbox

(* Nor from a connection that waits to be accepted.                        *)
Accepted ==
    \A c \in Clients : (manners = Manners /\ conn[c] = "queued") ~> conn[c] = "open"

(* Those three are all that one client needs of the others, to be served.  *)
Served == InboxRead /\ Accepted

(* append, 160-161: when a client disconnects from the server, it is       *)
(* broadcast; so the server notices (here: leaves the client's session),   *)
(* if commands end, clients read and nothing has killed it meanwhile.      *)
DisconnectNoticed ==
    \A c \in Clients :
        (conn[c] = "closed" /\ {"brief", "attentive"} \subseteq manners)
            ~> (conn[c] = "away" \/ pc = "dead")
=============================================================================
