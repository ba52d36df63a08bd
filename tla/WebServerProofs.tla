-------------------------- MODULE WebServerProofs --------------------------
(***************************************************************************)
(* The two web servers.                                                    *)
(*                                                                         *)
(* The processes of the HTTP server, for any number of browsers and any    *)
(* bound on the processes there can be: each holds the sockets it should,  *)
(* and none that has exited is left to wait for.  The argument follows the *)
(* processes of one connection: the first child exists only while the      *)
(* server is about to wait for it, the second child begins and the first   *)
(* does nothing any more but exit, and the program runs only while the     *)
(* second child waits for it.                                              *)
(*                                                                         *)
(* The records of the WinSock server, for any number of browsers, records, *)
(* cells and sockets: what hosts say goes to the page that asked for it,   *)
(* and a page is closed when its last host has ended and not before.  The  *)
(* argument is about the numbers of sockets: what a number is to the       *)
(* system (Owned), to the messages that are still in the queue (Queued),   *)
(* and to the records (Recorded, CellsRight), which may still have it when *)
(* it has been closed.                                                     *)
(***************************************************************************)
EXTENDS HttpServer, WinSockServer, WellFoundedInduction, TLAPS

FirstStates  == {"none", "fork", "exit", "zombie", "reaped"}
SecondStates == {"none", "close", "serve", "check", "handle", "send", "fork", "closefd",
                 "wait", "exit", "zombie", "orphan"}
ThirdStates  == {"none", "exec", "run", "zombie", "reaped"}
ServerStates == {"accept", "fork", "close", "wait", "dead"}

(* The processes made for c, and what the server is doing meanwhile.       *)
TreeOf(c) ==
    /\ pc[First(c)] \in FirstStates
    /\ pc[Second(c)] \in SecondStates
    /\ pc[Third(c)] \in ThirdStates
    /\ pc[First(c)] \in {"fork", "exit", "zombie"} => clifd = c /\ pc[Server] \in {"close", "wait"}
    /\ pc[First(c)] \in {"none", "fork"} => pc[Second(c)] = "none"
    /\ pc[Second(c)] = "zombie" => pc[First(c)] = "exit"
    /\ pc[Second(c)] \notin {"closefd", "wait"} => pc[Third(c)] \in {"none", "reaped"}
    /\ conn[c] # "accepted" => pc[First(c)] = "none"
    /\ pc[Server] = "fork" /\ clifd = c => pc[First(c)] = "none" /\ conn[c] = "accepted"

Trees ==
    /\ pc \in [Procs -> FirstStates \union SecondStates \union ThirdStates \union ServerStates]
    /\ pc[Server] \in ServerStates
    /\ clifd \in Conns \union {NoConn}
    /\ pc[Server] \in {"fork", "close", "wait"} => clifd \in Conns
    /\ conn \in [Conns -> {"away", "queued", "accepted"}]
    /\ \A c \in Conns : TreeOf(c)

Sockets ==
    /\ fds \in [Procs -> SUBSET (Conns \union {Listen})]
    /\ OwnConnection

(* A browser is answered once.                                             *)
Replies ==
    /\ sent \in [Conns -> Requests \union {NoRequest}]
    /\ request \in [Conns -> Requests \union {NoRequest}]
    /\ left \subseteq Conns
    /\ reply \in [Conns -> {<<>>, <<200>>, <<403>>, <<404>>}]
    /\ \A c \in Conns :
          pc[Second(c)] \in {"none", "close", "serve", "check", "handle"} => reply[c] = <<>>

IInv == Trees /\ Sockets /\ Replies

-----------------------------------------------------------------------------
(* The names of processes.                                                 *)

(* Each process is the server or belongs to one connection, in one place.  *)
LEMMA Names ==
    /\ Server \in Procs
    /\ \A c \in Conns :
          /\ First(c) \in Procs /\ Second(c) \in Procs /\ Third(c) \in Procs
          /\ Server \notin {First(c), Second(c), Third(c)}
          /\ Parent(First(c)) = Server
          /\ Parent(Second(c)) = First(c)
          /\ Parent(Third(c)) = Second(c)
    /\ \A c, d \in Conns :
          /\ First(c) # Second(d) /\ First(c) # Third(d) /\ Second(c) # Third(d)
          /\ First(c) = First(d) => c = d
          /\ Second(c) = Second(d) => c = d
          /\ Third(c) = Third(d) => c = d
    /\ \A p \in Procs : p = Server \/ \E c \in Conns : p \in {First(c), Second(c), Third(c)}
  BY ForkServerAssumption DEF Server, First, Second, Third, Procs, Parent

(* Nothing listens for itself.                                             *)
LEMMA ListenIsNone == \A c \in Conns : c # Listen
  BY ForkServerAssumption DEF Listen

-----------------------------------------------------------------------------
(* What the steps of processes do to the trees.                            *)

(* A second child goes on.                                                 *)
LEMMA SecondGoesOn ==
    ASSUME Trees, NEW c \in Conns, NEW l \in SecondStates \ {"none", "zombie", "closefd"},
           pc' = [pc EXCEPT ![Second(c)] = l], UNCHANGED <<clifd, conn>>,
           pc[Second(c)] \notin {"none", "zombie"},
           l = "wait" \/ pc[Second(c)] \notin {"closefd", "wait"}
    PROVE  Trees'
  <1>1. /\ pc'[Server] = pc[Server]
        /\ \A d \in Conns : /\ pc'[First(d)] = pc[First(d)]
                            /\ pc'[Third(d)] = pc[Third(d)]
                            /\ pc'[Second(d)] = IF d = c THEN l ELSE pc[Second(d)]
    BY Names DEF Trees
  <1>2. \A d \in Conns : TreeOf(d)'
    BY <1>1 DEF Trees, TreeOf, FirstStates, SecondStates, ThirdStates, ServerStates
  <1> QED
    BY <1>1, <1>2 DEF Trees, ServerStates, SecondStates

(* A second child exits.                                                   *)
LEMMA SecondExits ==
    ASSUME Trees, NEW c \in Conns, Exit(Second(c)), UNCHANGED <<clifd, conn>>,
           pc[Second(c)] \notin {"none", "zombie", "closefd", "wait"}
    PROVE  Trees'
  <1>1. Remains(Second(c)) \in {"orphan", "zombie"} /\ (Remains(Second(c)) = "zombie" => pc[First(c)] = "exit")
    BY Names DEF Remains, Trees, TreeOf, FirstStates, Ended
  <1>2. /\ pc'[Server] = pc[Server]
        /\ \A d \in Conns : /\ pc'[First(d)] = pc[First(d)]
                            /\ pc'[Third(d)] = pc[Third(d)]
                            /\ pc'[Second(d)] = IF d = c THEN Remains(Second(c)) ELSE pc[Second(d)]
    BY Names DEF Exit, Trees, TreeOf, ServerStates
  <1>3. \A d \in Conns : TreeOf(d)'
    BY <1>1, <1>2 DEF Trees, TreeOf, FirstStates, SecondStates, ThirdStates, ServerStates
  <1>4. pc' \in [Procs -> FirstStates \union SecondStates \union ThirdStates \union ServerStates]
    BY <1>1 DEF Exit, Trees, SecondStates
  <1> QED
    BY <1>2, <1>3, <1>4 DEF Trees

(* A program exits, or what should have become one.                        *)
LEMMA ThirdExits ==
    ASSUME Trees, NEW c \in Conns, Exit(Third(c)), UNCHANGED <<clifd, conn>>,
           pc[Third(c)] \in {"exec", "run"}
    PROVE  Trees'
  <1>1. Remains(Third(c)) = "zombie"
    BY Names DEF Remains, Trees, TreeOf, Ended
  <1>2. /\ pc'[Server] = pc[Server]
        /\ \A d \in Conns : /\ pc'[First(d)] = pc[First(d)]
                            /\ pc'[Second(d)] = pc[Second(d)]
                            /\ pc'[Third(d)] = IF d = c THEN "zombie" ELSE pc[Third(d)]
    BY <1>1, Names DEF Exit, Trees, TreeOf, ServerStates
  <1>3. \A d \in Conns : TreeOf(d)'
    BY <1>2 DEF Trees, TreeOf, FirstStates, SecondStates, ThirdStates, ServerStates
  <1>4. pc' \in [Procs -> FirstStates \union SecondStates \union ThirdStates \union ServerStates]
    BY <1>1 DEF Exit, Trees, SecondStates
  <1> QED
    BY <1>2, <1>3, <1>4 DEF Trees

(* The first child exits: it waits for the server, and init takes what it  *)
(* leaves.                                                                 *)
LEMMA FirstExits ==
    ASSUME Trees, NEW c \in Conns, Exit(First(c)), UNCHANGED <<clifd, conn>>,
           \/ pc[First(c)] = "exit"
           \/ pc[First(c)] = "fork"
    PROVE  Trees'
  <1>1. Remains(First(c)) = "zombie"
    BY Names DEF Remains, Trees, TreeOf, Ended
  <1>2. /\ pc'[Server] = pc[Server]
        /\ \A d \in Conns : /\ pc'[First(d)] = IF d = c THEN "zombie" ELSE pc[First(d)]
                            /\ pc'[Third(d)] = pc[Third(d)]
                            /\ pc'[Second(d)] = IF d = c /\ pc[Second(d)] = "zombie" THEN "orphan"
                                                ELSE pc[Second(d)]
    BY <1>1, Names DEF Exit, Trees, TreeOf, ServerStates
  <1>3. \A d \in Conns : TreeOf(d)'
    BY <1>2 DEF Trees, TreeOf, FirstStates, SecondStates, ThirdStates, ServerStates
  <1>4. pc' \in [Procs -> FirstStates \union SecondStates \union ThirdStates \union ServerStates]
    BY <1>1 DEF Exit, Trees, SecondStates
  <1> QED
    BY <1>2, <1>3, <1>4 DEF Trees

(* The server dies: there was no room for a first child.                   *)
LEMMA ServerExits ==
    ASSUME Trees, Exit(Server), UNCHANGED <<clifd, conn>>, pc[Server] = "fork"
    PROVE  Trees'
  <1>1. /\ pc'[Server] = "dead"
        /\ \A d \in Conns : /\ pc'[First(d)] = pc[First(d)]
                            /\ pc'[Second(d)] = pc[Second(d)]
                            /\ pc'[Third(d)] = pc[Third(d)]
    BY Names DEF Exit, Remains, Trees, TreeOf
  <1>2. \A d \in Conns : TreeOf(d)'
    BY <1>1 DEF Trees, TreeOf, FirstStates, SecondStates, ThirdStates, ServerStates
  <1>3. pc' \in [Procs -> FirstStates \union SecondStates \union ThirdStates \union ServerStates]
    BY DEF Exit, Remains, Trees, SecondStates, ServerStates
  <1> QED
    BY <1>1, <1>2, <1>3 DEF Trees, ServerStates

(* What the server does keeps the trees.                                   *)
LEMMA ServerKeepsTrees ==
    ASSUME Trees, start_server
    PROVE  Trees'
  <1>1. ASSUME ForkFirst PROVE Trees'
    <2>1. CASE Fork(Server, First(clifd), "fork", "close")
      <3>1. /\ pc'[Server] = "close"
            /\ \A d \in Conns : /\ pc'[First(d)] = IF d = clifd THEN "fork" ELSE pc[First(d)]
                                /\ pc'[Second(d)] = pc[Second(d)]
                                /\ pc'[Third(d)] = pc[Third(d)]
        BY <1>1, <2>1, Names DEF Fork, ForkFirst, Trees
      <3>2. \A d \in Conns : TreeOf(d)'
        BY <1>1, <3>1 DEF ForkFirst, Trees, TreeOf, FirstStates, SecondStates, ThirdStates, ServerStates
      <3> QED
        BY <1>1, <2>1, <3>1, <3>2 DEF Fork, ForkFirst, Trees, ServerStates, FirstStates
    <2>2. CASE Exit(Server)
      BY <1>1, <2>2, ServerExits DEF ForkFirst
    <2> QED
      BY <1>1, <2>1, <2>2 DEF ForkFirst
  <1>2. ASSUME CloseConn PROVE Trees'
    <2>1. /\ pc'[Server] = "wait"
          /\ \A d \in Conns : /\ pc'[First(d)] = pc[First(d)]
                              /\ pc'[Second(d)] = pc[Second(d)]
                              /\ pc'[Third(d)] = pc[Third(d)]
      BY <1>2, Names DEF CloseConn, Trees
    <2>2. \A d \in Conns : TreeOf(d)'
      BY <1>2, <2>1 DEF CloseConn, Trees, TreeOf
    <2> QED
      BY <1>2, <2>1, <2>2 DEF CloseConn, Trees, ServerStates
  <1>3. ASSUME WaitFirst PROVE Trees'
    <2>1. /\ pc'[Server] = "accept"
          /\ \A d \in Conns : /\ pc'[First(d)] = IF d = clifd THEN "reaped" ELSE pc[First(d)]
                              /\ pc'[Second(d)] = pc[Second(d)]
                              /\ pc'[Third(d)] = pc[Third(d)]
      BY <1>3, Names DEF WaitFirst, Trees
    <2>2. UNCHANGED <<clifd, conn>> /\ pc[Server] = "wait" /\ pc[First(clifd)] = "zombie"
      BY <1>3 DEF WaitFirst
    <2>3. \A d \in Conns : TreeOf(d)'
      BY <2>1, <2>2 DEF Trees, TreeOf, FirstStates
    <2> QED
      BY <1>3, <2>1, <2>2, <2>3 DEF WaitFirst, Trees, ServerStates, FirstStates
  <1>4. ASSUME NEW c \in Conns, Accept(c) PROVE Trees'
    <2>1. /\ pc'[Server] = "fork"
          /\ \A d \in Conns : /\ pc'[First(d)] = pc[First(d)]
                              /\ pc'[Second(d)] = pc[Second(d)]
                              /\ pc'[Third(d)] = pc[Third(d)]
      BY <1>4, Names DEF Accept, Trees
    <2>2. \A d \in Conns : TreeOf(d)'
      BY <1>4, <2>1 DEF Accept, Trees, TreeOf
    <2> QED
      BY <1>4, <2>1, <2>2 DEF Accept, Trees, ServerStates
  <1> QED
    BY <1>1, <1>2, <1>3, <1>4 DEF start_server

(* So does what is done for a connection.                                  *)
LEMMA ServeKeepsTrees ==
    ASSUME Trees, NEW c \in Conns, Serve(c) \/ EndProgram(c) \/ Browser(c)
    PROVE  Trees'
  <1>1. ASSUME ForkSecond(c) PROVE Trees'
    <2>1. CASE Fork(First(c), Second(c), "close", "exit")
      <3>1. /\ pc'[Server] = pc[Server]
            /\ \A d \in Conns : /\ pc'[First(d)] = IF d = c THEN "exit" ELSE pc[First(d)]
                                /\ pc'[Second(d)] = IF d = c THEN "close" ELSE pc[Second(d)]
                                /\ pc'[Third(d)] = pc[Third(d)]
        BY <2>1, Names DEF Fork, Trees
      <3>2. \A d \in Conns : TreeOf(d)'
        BY <1>1, <3>1 DEF ForkSecond, Trees, TreeOf, FirstStates, SecondStates, ThirdStates, ServerStates
      <3> QED
        BY <1>1, <2>1, <3>1, <3>2 DEF Fork, ForkSecond, Trees, SecondStates
    <2>2. CASE Exit(First(c))
      BY <1>1, <2>2, FirstExits DEF ForkSecond
    <2> QED
      BY <1>1, <2>1, <2>2 DEF ForkSecond
  <1>2. ASSUME ExitFirst(c) PROVE Trees'
    BY <1>2, FirstExits DEF ExitFirst
  <1>3. ASSUME CloseListen(c) PROVE Trees'
    BY <1>3, SecondGoesOn DEF CloseListen, SecondStates
  <1>4. ASSUME parseRequest(c) PROVE Trees'
    BY <1>4, SecondGoesOn, SecondExits DEF parseRequest, At, Goto, SecondStates
  <1>5. ASSUME checkResource(c) PROVE Trees'
    BY <1>5, SecondGoesOn, SecondExits DEF checkResource, Struck, At, Goto, SecondStates
  <1>6. ASSUME handleRequest(c) PROVE Trees'
    BY <1>6, SecondGoesOn, SecondExits DEF handleRequest, Struck, At, Goto, SecondStates
  <1>7. ASSUME SendFile(c) PROVE Trees'
    BY <1>7, SecondExits DEF SendFile, At
  <1>8. ASSUME ForkCgi(c) PROVE Trees'
    <2>1. CASE Fork(Second(c), Third(c), "exec", "closefd")
      <3>1. /\ pc'[Server] = pc[Server]
            /\ \A d \in Conns : /\ pc'[First(d)] = pc[First(d)]
                                /\ pc'[Second(d)] = IF d = c THEN "closefd" ELSE pc[Second(d)]
                                /\ pc'[Third(d)] = IF d = c THEN "exec" ELSE pc[Third(d)]
        BY <2>1, Names DEF Fork, Trees
      <3>2. \A d \in Conns : TreeOf(d)'
        BY <1>8, <3>1 DEF ForkCgi, At, Trees, TreeOf, FirstStates, SecondStates, ThirdStates, ServerStates
      <3> QED
        BY <1>8, <2>1, <3>1, <3>2 DEF Fork, ForkCgi, Trees, SecondStates, ThirdStates
    <2>2. CASE Exit(Second(c))
      BY <1>8, <2>2, SecondExits DEF ForkCgi, At
    <2> QED
      BY <1>8, <2>1, <2>2 DEF ForkCgi
  <1>9. ASSUME CloseOwn(c) PROVE Trees'
    BY <1>9, SecondGoesOn DEF CloseOwn, At, SecondStates
  <1>10. ASSUME WaitCgi(c) PROVE Trees'
    <2>1. /\ pc'[Server] = pc[Server]
          /\ \A d \in Conns : /\ pc'[First(d)] = pc[First(d)]
                              /\ pc'[Second(d)] = IF d = c THEN "exit" ELSE pc[Second(d)]
                              /\ pc'[Third(d)] = IF d = c THEN "reaped" ELSE pc[Third(d)]
      BY <1>10, Names DEF WaitCgi, Trees
    <2>2. UNCHANGED <<clifd, conn>> /\ pc[Second(c)] = "wait" /\ pc[Third(c)] = "zombie"
      BY <1>10 DEF WaitCgi, At
    <2>3. \A d \in Conns : TreeOf(d)'
      BY <2>1, <2>2 DEF Trees, TreeOf, SecondStates, ThirdStates
    <2> QED
      BY <1>10, <2>1, <2>2, <2>3 DEF WaitCgi, Trees, SecondStates, ThirdStates
  <1>11. ASSUME ExitSecond(c) PROVE Trees'
    BY <1>11, SecondExits DEF ExitSecond, At
  <1>12. ASSUME Execute(c) \/ EndProgram(c) PROVE Trees'
    <2>1. CASE pc' = [pc EXCEPT ![Third(c)] = "run"] /\ pc[Third(c)] = "exec"
      <3>1. /\ pc'[Server] = pc[Server]
            /\ \A d \in Conns : /\ pc'[First(d)] = pc[First(d)]
                                /\ pc'[Second(d)] = pc[Second(d)]
                                /\ pc'[Third(d)] = IF d = c THEN "run" ELSE pc[Third(d)]
        BY <2>1, Names DEF Trees
      <3>2. \A d \in Conns : TreeOf(d)'
        BY <1>12, <2>1, <3>1 DEF Execute, EndProgram, httpVars, Trees, TreeOf, ThirdStates
      <3> QED
        BY <1>12, <2>1, <3>1, <3>2 DEF Execute, EndProgram, Trees, ThirdStates
    <2>2. CASE Exit(Third(c)) /\ pc[Third(c)] \in {"exec", "run"}
      BY <1>12, <2>2, ThirdExits DEF Execute, EndProgram
    <2> QED
      BY <1>12, <2>1, <2>2 DEF Execute, EndProgram
  <1>13. ASSUME Browser(c) PROVE Trees'
    <2>1. UNCHANGED <<pc, clifd>> /\ (conn' = conn \/ (conn[c] = "away" /\ conn' = [conn EXCEPT ![c] = "queued"]))
      BY <1>13 DEF Browser, Connect, Leave, Send, serverVars
    <2> QED
      BY <2>1 DEF Trees, TreeOf
  <1> QED
    BY <1>1, <1>2, <1>3, <1>4, <1>5, <1>6, <1>7, <1>8, <1>9, <1>10, <1>11, <1>12, <1>13
    DEF Serve, Children

-----------------------------------------------------------------------------
(* Who holds which sockets.                                                *)

(* Processes that close sockets and go on, or exit.                        *)
LEMMA LessHeld ==
    ASSUME Trees, Sockets, clifd' = clifd,
           fds' \in [Procs -> SUBSET (Conns \union {Listen})],
           \A p \in Procs : fds'[p] \subseteq fds[p],
           pc[Server] \in {"fork", "close"} =>
              pc'[Server] \in {"fork", "close"} \/ clifd \notin fds'[Server],
           \A c \in Conns : pc[Second(c)] = "close" =>
              pc'[Second(c)] = "close" \/ Listen \notin fds'[Second(c)],
           \A p \in Procs : pc'[p] \in Ended \union {"zombie"} =>
              pc[p] \in Ended \union {"zombie"} \/ fds'[p] = {}
    PROVE  Sockets'
  <1>1. (fds[Server] \subseteq {Listen} \union (IF pc[Server] \in {"fork", "close"} THEN {clifd} ELSE {}))'
    BY Names DEF Sockets, OwnConnection
  <1>2. ASSUME NEW c \in Conns
        PROVE  /\ fds'[First(c)] \subseteq {c, Listen}
               /\ fds'[Second(c)] \subseteq {c} \union (IF pc'[Second(c)] = "close" THEN {Listen} ELSE {})
               /\ fds'[Third(c)] \subseteq {c}
    BY Names DEF Sockets, OwnConnection
  <1>3. \A p \in Procs : pc'[p] \in Ended \union {"zombie"} => fds'[p] = {}
    BY DEF Sockets, OwnConnection
  <1> QED
    BY <1>1, <1>2, <1>3 DEF Sockets, OwnConnection

(* A process that exits holds nothing any more.                            *)
LEMMA ExitKeepsSockets ==
    ASSUME Trees, Sockets, NEW p \in Procs, Exit(p), clifd' = clifd
    PROVE  Sockets'
  <1>1. \A q \in Procs : fds'[q] = IF q = p THEN {} ELSE fds[q]
    BY DEF Exit, Sockets
  <1>2. \A q \in Procs \ {p} : pc'[q] = pc[q] \/ (pc[q] = "zombie" /\ pc'[q] = "orphan")
    BY DEF Exit
  <1>3. fds' \in [Procs -> SUBSET (Conns \union {Listen})]
    BY DEF Exit, Sockets
  <1>4. \A c \in Conns : pc[Second(c)] = "close" =>
           pc'[Second(c)] = "close" \/ Listen \notin fds'[Second(c)]
    BY <1>1, <1>2, Names
  <1>5. pc[Server] \in {"fork", "close"} =>
           pc'[Server] \in {"fork", "close"} \/ clifd \notin fds'[Server]
    BY <1>1, <1>2, Names
  <1>6. \A q \in Procs : pc'[q] \in Ended \union {"zombie"} =>
           pc[q] \in Ended \union {"zombie"} \/ fds'[q] = {}
    BY <1>1, <1>2
  <1> QED
    BY <1>1, <1>3, <1>4, <1>5, <1>6, LessHeld

(* A second child that goes on holds what it held.                         *)
LEMMA GoesOnKeepsSockets ==
    ASSUME Trees, Sockets, NEW c \in Conns, NEW l, l \notin Ended \union {"zombie"},
           pc[Second(c)] # "close", pc' = [pc EXCEPT ![Second(c)] = l], UNCHANGED <<fds, clifd>>
    PROVE  Sockets'
  <1>1. \A q \in Procs : pc'[q] = IF q = Second(c) THEN l ELSE pc[q]
    BY Names DEF Trees
  <1>2. /\ fds' \in [Procs -> SUBSET (Conns \union {Listen})]
        /\ \A p \in Procs : fds'[p] \subseteq fds[p]
    BY DEF Sockets
  <1>3. /\ pc'[Server] = pc[Server]
        /\ \A d \in Conns : pc[Second(d)] = "close" => pc'[Second(d)] = "close"
    BY <1>1, Names
  <1>4. \A q \in Procs : pc'[q] \in Ended \union {"zombie"} => pc[q] \in Ended \union {"zombie"}
    BY <1>1
  <1> QED
    BY <1>2, <1>3, <1>4, LessHeld

LEMMA ServerKeepsSockets ==
    ASSUME Trees, Sockets, start_server
    PROVE  Sockets'
  <1>1. ASSUME ForkFirst PROVE Sockets'
    <2>1. CASE Fork(Server, First(clifd), "fork", "close")
      <3>1. clifd \in Conns /\ pc[Server] = "fork"
        BY <1>1 DEF ForkFirst, Trees
      <3>2. \A p \in Procs : pc'[p] = IF p = First(clifd) THEN "fork" ELSE IF p = Server THEN "close" ELSE pc[p]
        BY <2>1, <3>1, Names DEF Fork, Trees
      <3>3. \A p \in Procs : fds'[p] = IF p = First(clifd) THEN fds[Server] ELSE fds[p]
        BY <2>1, <3>1, Names DEF Fork, Sockets
      <3>4. fds' \in [Procs -> SUBSET (Conns \union {Listen})]
        BY <2>1, <3>1, Names DEF Fork, Sockets
      <3>5. fds[Server] \subseteq {clifd, Listen} /\ clifd' = clifd
        BY <1>1, <3>1 DEF ForkFirst, Sockets, OwnConnection
      <3>6. fds'[Server] = fds[Server] /\ pc'[Server] = "close"
        BY <3>1, <3>2, <3>3, Names
      <3>7. ASSUME NEW c \in Conns
            PROVE  /\ fds'[First(c)] \subseteq {c, Listen}
                   /\ fds'[Second(c)] \subseteq {c} \union (IF pc'[Second(c)] = "close" THEN {Listen} ELSE {})
                   /\ fds'[Third(c)] \subseteq {c}
        BY <3>1, <3>2, <3>3, <3>5, Names DEF Sockets, OwnConnection
      <3>8. \A p \in Procs : pc'[p] \in Ended \union {"zombie"} => fds'[p] = {}
        BY <3>1, <3>2, <3>3, Names DEF Sockets, OwnConnection, Ended
      <3> QED
        BY <3>4, <3>5, <3>6, <3>7, <3>8 DEF Sockets, OwnConnection
    <2>2. CASE Exit(Server)
      BY <1>1, <2>2, ExitKeepsSockets, Names DEF ForkFirst
    <2> QED
      BY <1>1, <2>1, <2>2 DEF ForkFirst
  <1>2. ASSUME CloseConn PROVE Sockets'
    <2>1. \A p \in Procs : pc'[p] = IF p = Server THEN "wait" ELSE pc[p]
      BY <1>2, Names DEF CloseConn, Trees
    <2>2. \A p \in Procs : fds'[p] = IF p = Server THEN fds[p] \ {clifd} ELSE fds[p]
      BY <1>2, Names DEF CloseConn, Sockets
    <2>3. fds' \in [Procs -> SUBSET (Conns \union {Listen})]
      BY <1>2, Names DEF CloseConn, Sockets
    <2>4. \A p \in Procs : pc'[p] \in Ended \union {"zombie"} => pc[p] \in Ended \union {"zombie"}
      BY <2>1 DEF Ended
    <2>5. \A d \in Conns : pc[Second(d)] = "close" => pc'[Second(d)] = "close"
      BY <2>1, Names
    <2>6. clifd' = clifd
      BY <1>2 DEF CloseConn
    <2>7. clifd \notin fds'[Server] /\ \A p \in Procs : fds'[p] \subseteq fds[p]
      BY <2>2, Names
    <2> QED
      BY <2>3, <2>4, <2>5, <2>6, <2>7, LessHeld
  <1>3. ASSUME WaitFirst PROVE Sockets'
    <2>1. clifd \in Conns /\ pc[Server] = "wait" /\ pc[First(clifd)] = "zombie" /\ UNCHANGED <<fds, clifd>>
      BY <1>3 DEF WaitFirst, Trees
    <2>2. \A p \in Procs : pc'[p] = IF p = First(clifd) THEN "reaped" ELSE IF p = Server THEN "accept" ELSE pc[p]
      BY <1>3, <2>1, Names DEF WaitFirst, Trees
    <2>3. fds' \in [Procs -> SUBSET (Conns \union {Listen})] /\ \A p \in Procs : fds'[p] \subseteq fds[p]
      BY <2>1 DEF Sockets
    <2>4. \A p \in Procs : pc'[p] \in Ended \union {"zombie"} => pc[p] \in Ended \union {"zombie"}
      BY <2>1, <2>2 DEF Ended
    <2>5. \A d \in Conns : pc[Second(d)] = "close" => pc'[Second(d)] = "close"
      BY <2>1, <2>2, Names
    <2> QED
      BY <2>1, <2>3, <2>4, <2>5, LessHeld
  <1>4. ASSUME NEW c \in Conns, Accept(c) PROVE Sockets'
    <2>1. pc[Server] = "accept" /\ clifd' = c
      BY <1>4 DEF Accept
    <2>2. \A p \in Procs : pc'[p] = IF p = Server THEN "fork" ELSE pc[p]
      BY <1>4, Names DEF Accept, Trees
    <2>3. \A p \in Procs : fds'[p] = IF p = Server THEN fds[p] \union {c} ELSE fds[p]
      BY <1>4, Names DEF Accept, Sockets
    <2>4. fds' \in [Procs -> SUBSET (Conns \union {Listen})]
      BY <1>4, Names DEF Accept, Sockets
    <2>5. pc'[Server] = "fork" /\ fds'[Server] \subseteq {Listen, c}
      <3>1. fds[Server] \subseteq {Listen}
        BY <2>1 DEF Sockets, OwnConnection
      <3>2. fds'[Server] = fds[Server] \union {c}
        BY <2>3, Names
      <3>3. pc'[Server] = "fork"
        BY <2>2, Names
      <3> QED
        BY <3>1, <3>2, <3>3
    <2>6. ASSUME NEW d \in Conns
          PROVE  /\ fds'[First(d)] \subseteq {d, Listen}
                 /\ fds'[Second(d)] \subseteq {d} \union (IF pc'[Second(d)] = "close" THEN {Listen} ELSE {})
                 /\ fds'[Third(d)] \subseteq {d}
      BY <2>2, <2>3, Names DEF Sockets, OwnConnection
    <2>7. \A p \in Procs : pc'[p] \in Ended \union {"zombie"} => fds'[p] = {}
      BY <2>2, <2>3, Names DEF Sockets, OwnConnection, Ended
    <2> QED
      BY <2>1, <2>4, <2>5, <2>6, <2>7 DEF Sockets, OwnConnection
  <1> QED
    BY <1>1, <1>2, <1>3, <1>4 DEF start_server

LEMMA ServeKeepsSockets ==
    ASSUME Trees, Sockets, NEW c \in Conns, Serve(c) \/ EndProgram(c) \/ Browser(c)
    PROVE  Sockets'
  <1>1. ASSUME ForkSecond(c) PROVE Sockets'
    <2>1. CASE Fork(First(c), Second(c), "close", "exit")
      <3>1. pc[First(c)] = "fork" /\ clifd' = clifd
        BY <1>1 DEF ForkSecond
      <3>2. \A p \in Procs : pc'[p] = IF p = Second(c) THEN "close" ELSE IF p = First(c) THEN "exit" ELSE pc[p]
        BY <2>1, Names DEF Fork, Trees
      <3>3. \A p \in Procs : fds'[p] = IF p = Second(c) THEN fds[First(c)] ELSE fds[p]
        BY <2>1, Names DEF Fork, Sockets
      <3>4. fds' \in [Procs -> SUBSET (Conns \union {Listen})]
        BY <2>1, Names DEF Fork, Sockets
      <3>5. pc'[Server] = pc[Server] /\ fds'[Server] = fds[Server]
        BY <3>2, <3>3, Names
      <3>6. ASSUME NEW d \in Conns
            PROVE  /\ fds'[First(d)] \subseteq {d, Listen}
                   /\ fds'[Second(d)] \subseteq {d} \union (IF pc'[Second(d)] = "close" THEN {Listen} ELSE {})
                   /\ fds'[Third(d)] \subseteq {d}
        BY <3>2, <3>3, Names DEF Sockets, OwnConnection
      <3>7. \A p \in Procs : pc'[p] \in Ended \union {"zombie"} => fds'[p] = {}
        BY <3>2, <3>3, Names DEF Sockets, OwnConnection, Ended
      <3> QED
        BY <3>1, <3>4, <3>5, <3>6, <3>7 DEF Sockets, OwnConnection
    <2>2. CASE Exit(First(c))
      BY <1>1, <2>2, ExitKeepsSockets, Names DEF ForkSecond
    <2> QED
      BY <1>1, <2>1, <2>2 DEF ForkSecond
  <1>2. ASSUME ExitFirst(c) PROVE Sockets'
    BY <1>2, ExitKeepsSockets, Names DEF ExitFirst
  <1>3. ASSUME CloseListen(c) PROVE Sockets'
    <2>1. \A p \in Procs : pc'[p] = IF p = Second(c) THEN "serve" ELSE pc[p]
      BY <1>3, Names DEF CloseListen, Trees
    <2>2. \A p \in Procs : fds'[p] = IF p = Second(c) THEN fds[p] \ {Listen} ELSE fds[p]
      BY <1>3, Names DEF CloseListen, Sockets
    <2>3. fds' \in [Procs -> SUBSET (Conns \union {Listen})] /\ clifd' = clifd
      BY <1>3, Names DEF CloseListen, Sockets
    <2>4. \A p \in Procs : pc'[p] \in Ended \union {"zombie"} => pc[p] \in Ended \union {"zombie"}
      BY <2>1 DEF Ended
    <2>5. \A d \in Conns : pc'[Second(d)] = "close" \/ pc[Second(d)] # "close" \/ Listen \notin fds'[Second(d)]
      BY <2>1, <2>2, Names
    <2>6. pc'[Server] = pc[Server] /\ \A p \in Procs : fds'[p] \subseteq fds[p]
      BY <2>1, <2>2, Names
    <2> QED
      BY <2>3, <2>4, <2>5, <2>6, LessHeld
  <1>4. ASSUME parseRequest(c) PROVE Sockets'
    BY <1>4, GoesOnKeepsSockets, ExitKeepsSockets, Names DEF parseRequest, At, Goto, Ended
  <1>5. ASSUME checkResource(c) PROVE Sockets'
    BY <1>5, GoesOnKeepsSockets, ExitKeepsSockets, Names DEF checkResource, Struck, At, Goto, Ended
  <1>6. ASSUME handleRequest(c) PROVE Sockets'
    BY <1>6, GoesOnKeepsSockets, ExitKeepsSockets, Names DEF handleRequest, Struck, At, Goto, Ended
  <1>7. ASSUME SendFile(c) \/ ExitSecond(c) PROVE Sockets'
    BY <1>7, ExitKeepsSockets, Names DEF SendFile, ExitSecond
  <1>8. ASSUME ForkCgi(c) PROVE Sockets'
    <2>1. CASE Fork(Second(c), Third(c), "exec", "closefd")
      <3>1. pc[Second(c)] = "fork" /\ clifd' = clifd
        BY <1>8 DEF ForkCgi, At
      <3>2. \A p \in Procs : pc'[p] = IF p = Third(c) THEN "exec" ELSE IF p = Second(c) THEN "closefd" ELSE pc[p]
        BY <2>1, Names DEF Fork, Trees
      <3>3. \A p \in Procs : fds'[p] = IF p = Third(c) THEN fds[Second(c)] ELSE fds[p]
        BY <2>1, Names DEF Fork, Sockets
      <3>4. fds' \in [Procs -> SUBSET (Conns \union {Listen})]
        BY <2>1, Names DEF Fork, Sockets
      <3>5. pc'[Server] = pc[Server] /\ fds'[Server] = fds[Server]
        BY <3>2, <3>3, Names
      <3>6. ASSUME NEW d \in Conns
            PROVE  /\ fds'[First(d)] \subseteq {d, Listen}
                   /\ fds'[Second(d)] \subseteq {d} \union (IF pc'[Second(d)] = "close" THEN {Listen} ELSE {})
                   /\ fds'[Third(d)] \subseteq {d}
        BY <3>1, <3>2, <3>3, Names DEF Sockets, OwnConnection
      <3>7. \A p \in Procs : pc'[p] \in Ended \union {"zombie"} => fds'[p] = {}
        BY <3>2, <3>3, Names DEF Sockets, OwnConnection, Ended
      <3> QED
        BY <3>1, <3>4, <3>5, <3>6, <3>7 DEF Sockets, OwnConnection
    <2>2. CASE Exit(Second(c))
      BY <1>8, <2>2, ExitKeepsSockets, Names DEF ForkCgi
    <2> QED
      BY <1>8, <2>1, <2>2 DEF ForkCgi
  <1>9. ASSUME CloseOwn(c) PROVE Sockets'
    <2>1. \A p \in Procs : pc'[p] = IF p = Second(c) THEN "wait" ELSE pc[p]
      BY <1>9, Names DEF CloseOwn, Trees
    <2>2. \A p \in Procs : fds'[p] = IF p = Second(c) THEN fds[p] \ {c} ELSE fds[p]
      BY <1>9, Names DEF CloseOwn, Sockets
    <2>3. /\ fds' \in [Procs -> SUBSET (Conns \union {Listen})]
          /\ clifd' = clifd /\ pc[Second(c)] = "closefd"
      BY <1>9, Names DEF CloseOwn, At, Sockets
    <2>4. \A p \in Procs : pc'[p] \in Ended \union {"zombie"} => pc[p] \in Ended \union {"zombie"}
      BY <2>1 DEF Ended
    <2>5. \A d \in Conns : pc[Second(d)] = "close" => pc'[Second(d)] = "close"
      BY <2>1, <2>3, Names
    <2>6. pc'[Server] = pc[Server] /\ \A p \in Procs : fds'[p] \subseteq fds[p]
      BY <2>1, <2>2, Names
    <2> QED
      BY <2>3, <2>4, <2>5, <2>6, LessHeld
  <1>10. ASSUME WaitCgi(c) PROVE Sockets'
    <2>1. pc[Second(c)] = "wait" /\ pc[Third(c)] = "zombie" /\ UNCHANGED <<fds, clifd>>
      BY <1>10 DEF WaitCgi, At
    <2>2. \A p \in Procs : pc'[p] = IF p = Third(c) THEN "reaped" ELSE IF p = Second(c) THEN "exit" ELSE pc[p]
      BY <1>10, Names DEF WaitCgi, Trees
    <2>3. fds' \in [Procs -> SUBSET (Conns \union {Listen})] /\ \A p \in Procs : fds'[p] \subseteq fds[p]
      BY <2>1 DEF Sockets
    <2>4. \A p \in Procs : pc'[p] \in Ended \union {"zombie"} => pc[p] \in Ended \union {"zombie"}
      BY <2>1, <2>2 DEF Ended
    <2>5. pc'[Server] = pc[Server] /\ \A d \in Conns : pc[Second(d)] = "close" => pc'[Second(d)] = "close"
      BY <2>1, <2>2, Names
    <2> QED
      BY <2>1, <2>3, <2>4, <2>5, LessHeld
  <1>11. ASSUME Execute(c) \/ EndProgram(c) PROVE Sockets'
    <2>1. CASE pc' = [pc EXCEPT ![Third(c)] = "run"] /\ UNCHANGED fds
      <3>1. \A p \in Procs : pc'[p] = IF p = Third(c) THEN "run" ELSE pc[p]
        BY <2>1, Names DEF Trees
      <3>2. fds' \in [Procs -> SUBSET (Conns \union {Listen})] /\ \A p \in Procs : fds'[p] \subseteq fds[p]
        BY <2>1 DEF Sockets
      <3>3. \A p \in Procs : pc'[p] \in Ended \union {"zombie"} => pc[p] \in Ended \union {"zombie"}
        BY <3>1 DEF Ended
      <3>4. pc'[Server] = pc[Server] /\ \A d \in Conns : pc[Second(d)] = "close" => pc'[Second(d)] = "close"
        BY <3>1, Names
      <3>5. clifd' = clifd
        BY <1>11 DEF Execute, EndProgram
      <3> QED
        BY <3>2, <3>3, <3>4, <3>5, LessHeld
    <2>2. CASE Exit(Third(c))
      BY <1>11, <2>2, ExitKeepsSockets, Names DEF Execute, EndProgram
    <2> QED
      BY <1>11, <2>1, <2>2 DEF Execute, EndProgram
  <1>12. ASSUME Browser(c) PROVE Sockets'
    <2>1. UNCHANGED <<pc, fds, clifd>>
      BY <1>12 DEF Browser, Connect, Leave, Send, serverVars
    <2> QED
      BY <2>1 DEF Sockets, OwnConnection
  <1> QED
    BY <1>1, <1>2, <1>3, <1>4, <1>5, <1>6, <1>7, <1>8, <1>9, <1>10, <1>11, <1>12
    DEF Serve, Children

-----------------------------------------------------------------------------
(* What the browsers are told.                                             *)

(* Nobody but its second child answers a browser.                          *)
LEMMA ServerKeepsReplies ==
    ASSUME Trees, Replies, start_server, UNCHANGED httpVars
    PROVE  Replies'
  <1>1. \A c \in Conns : pc'[Second(c)] = pc[Second(c)]
    <2>1. ASSUME ForkFirst, Exit(Server) PROVE \A c \in Conns : pc'[Second(c)] = pc[Second(c)]
      BY <2>1, Names DEF Exit
    <2>2. ASSUME ForkFirst, Fork(Server, First(clifd), "fork", "close")
          PROVE \A c \in Conns : pc'[Second(c)] = pc[Second(c)]
      BY <2>2, Names DEF Fork, ForkFirst, Trees
    <2>3. ASSUME CloseConn PROVE \A c \in Conns : pc'[Second(c)] = pc[Second(c)]
      BY <2>3, Names DEF CloseConn, Trees
    <2>4. ASSUME WaitFirst PROVE \A c \in Conns : pc'[Second(c)] = pc[Second(c)]
      BY <2>4, Names DEF WaitFirst, Trees
    <2>5. ASSUME NEW d \in Conns, Accept(d) PROVE \A c \in Conns : pc'[Second(c)] = pc[Second(c)]
      BY <2>5, Names DEF Accept, Trees
    <2> QED
      BY <2>1, <2>2, <2>3, <2>4, <2>5 DEF start_server, ForkFirst
  <1> QED
    BY <1>1 DEF Replies, httpVars

(* A second child answers once, before it does anything else.              *)
LEMMA ServeKeepsReplies ==
    ASSUME Trees, Replies, NEW c \in Conns, Serve(c) \/ EndProgram(c) \/ Browser(c)
    PROVE  Replies'
  <1> DEFINE Early == {"none", "close", "serve", "check", "handle"}
  <1>1. Append(<<>>, 200) = <<200>> /\ Append(<<>>, 403) = <<403>> /\ Append(<<>>, 404) = <<404>>
    OBVIOUS
  <1>2. ASSUME UNCHANGED <<sent, left, request, reply>>,
               \A d \in Conns : pc'[Second(d)] \in Early => pc[Second(d)] \in Early
        PROVE  Replies'
    BY <1>2 DEF Replies
  <1>3. ASSUME Exit(Second(c)) PROVE pc'[Second(c)] \notin Early /\ \A d \in Conns \ {c} : pc'[Second(d)] = pc[Second(d)]
    BY <1>3, Names DEF Exit, Remains, Trees
  <1>4. ASSUME NEW l, pc' = [pc EXCEPT ![Second(c)] = l]
        PROVE  pc'[Second(c)] = l /\ \A d \in Conns \ {c} : pc'[Second(d)] = pc[Second(d)]
    BY <1>4, Names DEF Trees
  <1>5. ASSUME Exit(Second(c)), UNCHANGED httpVars PROVE Replies'
    BY <1>2, <1>3, <1>5 DEF httpVars
  <1>6. ASSUME ForkSecond(c), UNCHANGED httpVars PROVE Replies'
    <2>1. pc[Second(c)] = "none"
      BY <1>6 DEF ForkSecond, Trees, TreeOf
    <2>2. \A d \in Conns \ {c} : pc'[Second(d)] = pc[Second(d)]
      BY <1>6, Names DEF ForkSecond, Fork, Exit, Trees
    <2> QED
      BY <1>2, <1>6, <2>1, <2>2 DEF httpVars
  <1>7. ASSUME ExitFirst(c), UNCHANGED httpVars PROVE Replies'
    <2>1. \A d \in Conns : pc'[Second(d)] = pc[Second(d)] \/ pc'[Second(d)] = "orphan"
      BY <1>7, Names DEF ExitFirst, Exit
    <2> QED
      BY <1>2, <1>7, <2>1 DEF httpVars
  <1>8. ASSUME CloseListen(c), UNCHANGED httpVars PROVE Replies'
    BY <1>2, <1>4, <1>8 DEF CloseListen, httpVars
  <1>9. ASSUME parseRequest(c) PROVE Replies'
    <2>1. \A d \in Conns : pc'[Second(d)] \in Early => pc[Second(d)] \in Early
      BY <1>3, <1>4, <1>9 DEF parseRequest, At, Goto
    <2>2. request' \in [Conns -> Requests \union {NoRequest}] /\ UNCHANGED <<sent, left, reply>>
      BY <1>9 DEF parseRequest, Replies
    <2> QED
      BY <2>1, <2>2 DEF Replies
  <1>10. ASSUME checkResource(c) PROVE Replies'
    <2>1. reply[c] = <<>> /\ pc[Second(c)] \in Early
      BY <1>10 DEF checkResource, At, Replies
    <2>2. CASE UNCHANGED reply
      <3>1. \A d \in Conns : pc'[Second(d)] \in Early => pc[Second(d)] \in Early
        BY <1>3, <1>4, <1>10, <2>1 DEF checkResource, Status, Struck, At, Goto
      <3> QED
        BY <1>2, <1>10, <2>2, <3>1 DEF checkResource
    <2>3. ASSUME NEW st \in {404, 403}, Status(c, st), Exit(Second(c)) PROVE Replies'
      <3>1. reply' = [reply EXCEPT ![c] = <<st>>]
        BY <1>1, <2>1, <2>3 DEF Status
      <3> QED
        BY <1>3, <1>10, <2>3, <3>1 DEF checkResource, Replies
    <2> QED
      BY <1>10, <2>2, <2>3 DEF checkResource, Struck
  <1>11. ASSUME handleRequest(c) PROVE Replies'
    <2>1. reply[c] = <<>> /\ pc[Second(c)] \in Early
      BY <1>11 DEF handleRequest, At, Replies
    <2>2. CASE UNCHANGED reply /\ Exit(Second(c))
      BY <1>2, <1>3, <1>11, <2>1, <2>2 DEF handleRequest
    <2>3. CASE Status(c, 200) /\ (Exit(Second(c)) \/ Goto(c, "send") \/ Goto(c, "fork"))
      <3>1. reply' = [reply EXCEPT ![c] = <<200>>]
        BY <1>1, <2>1, <2>3 DEF Status
      <3>2. pc'[Second(c)] \notin Early /\ \A d \in Conns \ {c} : pc'[Second(d)] = pc[Second(d)]
        BY <1>3, <1>4, <2>3 DEF Goto
      <3> QED
        BY <1>11, <3>1, <3>2 DEF handleRequest, Replies
    <2> QED
      BY <1>11, <2>2, <2>3 DEF handleRequest, Struck
  <1>12. ASSUME ForkCgi(c) PROVE Replies'
    <2>1. CASE Fork(Second(c), Third(c), "exec", "closefd")
      <3>1. pc'[Second(c)] = "closefd" /\ \A d \in Conns \ {c} : pc'[Second(d)] = pc[Second(d)]
        BY <2>1, Names DEF Fork, Trees
      <3> QED
        BY <1>2, <1>12, <3>1 DEF ForkCgi, httpVars
    <2> QED
      BY <1>5, <1>12, <2>1 DEF ForkCgi
  <1>13. ASSUME CloseOwn(c) PROVE Replies'
    BY <1>2, <1>4, <1>13 DEF CloseOwn, httpVars
  <1>14. ASSUME WaitCgi(c) PROVE Replies'
    <2>1. pc'[Second(c)] = "exit" /\ \A d \in Conns \ {c} : pc'[Second(d)] = pc[Second(d)]
      BY <1>14, Names DEF WaitCgi, Trees
    <2> QED
      BY <1>2, <1>14, <2>1 DEF WaitCgi, httpVars
  <1>15. ASSUME SendFile(c) \/ ExitSecond(c) PROVE Replies'
    BY <1>5, <1>15 DEF SendFile, ExitSecond
  <1>16. ASSUME Execute(c) \/ EndProgram(c) PROVE Replies'
    <2>1. \A d \in Conns : pc'[Second(d)] = pc[Second(d)]
      BY <1>16, Names DEF Execute, EndProgram, Exit, Trees
    <2> QED
      BY <1>2, <1>16, <2>1 DEF Execute, EndProgram, httpVars
  <1>17. ASSUME Browser(c) PROVE Replies'
    <2>1. CASE Connect(c) /\ UNCHANGED httpVars
      BY <1>2, <2>1 DEF Connect, httpVars
    <2>2. CASE Leave(c)
      BY <2>2 DEF Leave, serverVars, Replies
    <2>3. CASE \E r \in Requests : Send(c, r)
      BY <2>3 DEF Send, serverVars, Replies
    <2> QED
      BY <1>17, <2>1, <2>2, <2>3 DEF Browser
  <1> QED
    BY <1>6, <1>7, <1>8, <1>9, <1>10, <1>11, <1>12, <1>13, <1>14, <1>15, <1>16, <1>17
    DEF Serve, Children

-----------------------------------------------------------------------------
(* The theorems.                                                           *)

LEMMA InitIInv == Init => IInv
  <1> SUFFICES ASSUME Init PROVE IInv
    OBVIOUS
  <1>1. \A p \in Procs : pc[p] = IF p = Server THEN "accept" ELSE "none"
    BY DEF Init, ServerInit
  <1>2. \A p \in Procs : fds[p] = IF p = Server THEN {Listen} ELSE {}
    BY DEF Init, ServerInit
  <1>3. Trees
    <2>1. \A c \in Conns : TreeOf(c)
      BY <1>1, Names DEF TreeOf, FirstStates, SecondStates, ThirdStates
    <2>2. pc \in [Procs -> FirstStates \union SecondStates \union ThirdStates \union ServerStates]
      BY DEF Init, ServerInit, FirstStates, ServerStates
    <2> QED
      BY <1>1, <2>1, <2>2, Names DEF Init, ServerInit, Trees, ServerStates
  <1>4. Sockets
    <2>1. fds \in [Procs -> SUBSET (Conns \union {Listen})]
      BY DEF Init, ServerInit
    <2> QED
      BY <1>1, <1>2, <2>1, Names DEF Sockets, OwnConnection, Ended
  <1>5. Replies
    BY DEF Init, Replies
  <1> QED
    BY <1>3, <1>4, <1>5 DEF IInv

LEMMA StepIInv == IInv /\ [Next]_vars => IInv'
  <1> SUFFICES ASSUME IInv, [Next]_vars PROVE IInv'
    OBVIOUS
  <1>1. CASE startServer
    BY <1>1, ServerKeepsTrees, ServerKeepsSockets, ServerKeepsReplies DEF IInv, startServer
  <1>2. ASSUME NEW c \in Conns, Serve(c) \/ EndProgram(c) \/ Browser(c) PROVE IInv'
    BY <1>2, ServeKeepsTrees, ServeKeepsSockets, ServeKeepsReplies DEF IInv
  <1>3. CASE UNCHANGED vars
    <2>1. UNCHANGED <<pc, fds, clifd, conn, sent, left, request, reply>>
      BY <1>3 DEF vars, serverVars, httpVars
    <2>2. Trees'
      BY <2>1 DEF IInv, Trees, TreeOf
    <2>3. Sockets' /\ Replies'
      BY <2>1 DEF IInv, Sockets, OwnConnection, Replies
    <2> QED
      BY <2>2, <2>3 DEF IInv
  <1> QED
    BY <1>1, <1>2, <1>3 DEF Next

(* The strengthening that the theorems about the HTTP server follow from is *)
(* an invariant: the processes of a connection come and go as described by *)
(* TreeOf, whatever fails.                                                 *)
THEOREM InductiveInvariant == Spec => []IInv
  BY InitIInv, StepIInv, PTL DEF Spec

(* Processes, sockets and answers stay well formed; in particular nobody is *)
(* answered twice (checkResource and handleRequest each answer and end).   *)
THEOREM TypeCorrect == Spec => []TypeOK
  <1>1. IInv => TypeOK
    <2> SUFFICES ASSUME IInv PROVE TypeOK
      OBVIOUS
    <2>1. pc \in [Procs -> Ended \union {"zombie", "accept", "fork", "close", "wait", "exit", "serve",
                          "check", "handle", "send", "closefd", "exec", "run"}]
      BY DEF IInv, Trees, FirstStates, SecondStates, ThirdStates, ServerStates, Ended
    <2> QED
      BY <2>1 DEF IInv, Trees, Sockets, Replies, TypeOK
  <1> QED
    BY <1>1, InductiveInvariant, PTL

(* No process holds the connection of another browser, or the socket that  *)
(* listens while it serves, or anything once it has ended (the closes of   *)
(* startServer and handleRequest).                                         *)
THEOREM HoldsOwnConnection == Spec => []OwnConnection
  BY InductiveInvariant, PTL DEF IInv, Sockets

(* The double fork works: a zombie is always about to be waited for, or to *)
(* be left to init, for any number of browsers and wherever fork fails.    *)
THEOREM LeavesNoZombies == Spec => []NoZombies
  <1>1. IInv => NoZombies
    BY DEF IInv, Trees, TreeOf, NoZombies
  <1> QED
    BY <1>1, InductiveInvariant, PTL

-----------------------------------------------------------------------------
(* The WinSock server.                                                     *)

In(q) == {q[k] : k \in DOMAIN q}

Posted == In(queue)

Letter(a, e, n) == [about |-> a, event |-> e, sock |-> n]

Asks(n) == Letter("web", "read", n) \in Posted
Ends(n) == Letter("cgi", "close", n) \in Posted

BrowserOf(b) == [who |-> b, cell |-> 0]

(* A browser that has been let in and not answered.                        *)
Unanswered(b, n) == owner[n] = BrowserOf(b) /\ (page[b] = "accepted" \/ Asks(n))

Quiet(i) == \A j \in Cells : ~web[i].clients[j].active

(* A number has one owner, and a browser one number.                       *)
Owned ==
    /\ \A n, m \in Socks : owner[n] = owner[m] /\ owner[n] # Free => n = m
    /\ \A n \in Socks : owner[n].who = NoBody => owner[n] = Free
    /\ \A n \in Socks : owner[n] # Free => page[owner[n].who] # "away"
    /\ \A n \in Socks : owner[n].cell # 0 => map[n] # 0
    /\ \A n, m \in Socks, b \in Browsers :
          Unanswered(b, n) /\ owner[m].who = b => m = n

(* What is in the queue is about a number that is still what it was, or,   *)
(* when numbers are not given out again, that is nothing any more.         *)
Queued ==
    /\ \A n \in Socks : Asks(n) =>
          /\ owner[n].cell = 0 /\ owner[n] # Free
          /\ page[owner[n].who] \in {"asked", "left"}
    /\ \A n \in Socks : Letter("web", "close", n) \in Posted =>
          /\ kind = "fresh"
          /\ owner[n] # Free => owner[n].cell = 0 /\ page[owner[n].who] = "left"
    /\ \A n \in Socks, e \in {"read", "close"} : Letter("cgi", e, n) \in Posted => owner[n].cell # 0
    /\ \A n \in Socks : Ends(n) => host[owner[n].who][owner[n].cell] = "ended"

(* A request is there once, and nothing follows the end of a connection.   *)
OrderlyIn(q) ==
    /\ \A k, l \in DOMAIN q :
          q[k] = q[l] /\ q[k].about = "web" /\ q[k].event = "read" => k = l
    /\ \A k, l \in DOMAIN q :
          k < l /\ q[k].about = "cgi" /\ q[k].event = "close" =>
             ~(q[l].about = "cgi" /\ q[l].sock = q[k].sock)

(* Whose the records are.                                                  *)
Recorded ==
    /\ \A i, k \in Records :
          web[i].websocket = web[k].websocket /\ web[i].websocket # NULL => i = k
    /\ \A b \in Browsers, n \in Socks, i \in Records :
          Unanswered(b, n) /\ web[i].websocket = n => kind = "waiting" /\ Quiet(i)
    /\ kind = "fresh" =>
          \A i \in Records : web[i].websocket # NULL => owner[web[i].websocket].cell = 0
    /\ kind = "waiting" =>
          \A n \in Socks : owner[n].cell # 0 =>
             web[map[n]].clients[owner[n].cell] = [clifd |-> n, active |-> TRUE]

CellsRight ==
    \A i \in Records, j \in Cells :
        web[i].clients[j].active =>
           /\ web[i].clients[j].clifd # NULL /\ web[i].websocket # NULL
           /\ map[web[i].clients[j].clifd] = i
           /\ owner[web[i].clients[j].clifd].cell = j
           /\ owner[web[i].websocket] = BrowserOf(owner[web[i].clients[j].clifd].who)

(* A page that is being served has a record, with a cell at work for every *)
(* host that has not ended, and for one at least if it has any.            *)
PageOf(b, i) ==
    /\ web[i].websocket # NULL /\ owner[web[i].websocket] = BrowserOf(b)
    /\ \A j \in Cells : host[b][j] \in {"on", "refused"} => web[i].clients[j].active
    /\ \A j \in Cells : web[i].clients[j].active =>
          host[b][j] # "none" /\ (host[b][j] = "ended" => Ends(web[i].clients[j].clifd))
    /\ Quiet(i) => \A j \in Cells : host[b][j] = "none"

ServedHave == \A b \in Browsers : page[b] = "served" => \E i \in Records : PageOf(b, i)

WinIInv ==
    /\ WinTypeOK
    /\ kind # "any"
    /\ Owned
    /\ Queued
    /\ OrderlyIn(queue)
    /\ Recorded
    /\ CellsRight
    /\ ServedHave

-----------------------------------------------------------------------------
(* The queue.                                                              *)

LEMMA LetterParts ==
    /\ \A a, e, n : Letter(a, e, n).about = a /\ Letter(a, e, n).event = e /\ Letter(a, e, n).sock = n
    /\ \A m \in Message : m = Letter(m.about, m.event, m.sock)
    /\ \A a \in {"web", "cgi"}, e \in {"read", "close"}, n \in Socks : Letter(a, e, n) \in Message
    /\ \A m \in Message : m.about \in {"web", "cgi"} /\ m.event \in {"read", "close"} /\ m.sock \in Socks
  BY DEF Letter, Message

(* A message that is posted comes last.                                    *)
LEMMA Added ==
    ASSUME NEW q \in Seq(Message), NEW m \in Message, OrderlyIn(q),
           m.about = "web" => m.event = "close" \/ m \notin In(q),
           m.about = "cgi" => Letter("cgi", "close", m.sock) \notin In(q)
    PROVE  /\ Append(q, m) \in Seq(Message)
           /\ \A x : x \in In(Append(q, m)) <=> x \in In(q) \/ x = m
           /\ OrderlyIn(Append(q, m))
<1> DEFINE p == Append(q, m)
<1>1. /\ p \in Seq(Message) /\ Len(p) = Len(q) + 1 /\ p[Len(q) + 1] = m
      /\ \A k \in 1..Len(q) : p[k] = q[k]
      /\ DOMAIN p = 1..Len(q) + 1 /\ DOMAIN q = 1..Len(q) /\ Len(q) \in Nat
  OBVIOUS
<1> HIDE DEF p
<1>2. \A k \in DOMAIN p : k \in DOMAIN q \/ k = Len(q) + 1
  BY <1>1
<1>3. \A k \in DOMAIN q : k \in DOMAIN p /\ p[k] = q[k] /\ q[k] \in Message /\ k < Len(q) + 1
  BY <1>1
<1>4. \A x : x \in In(p) <=> x \in In(q) \/ x = m
  BY <1>1, <1>2, <1>3 DEF In
<1>5. \A k \in DOMAIN q : q[k] \in In(q)
  BY DEF In
<1>6. ASSUME NEW k \in DOMAIN p, NEW l \in DOMAIN p,
             p[k] = p[l], p[k].about = "web", p[k].event = "read"
      PROVE  k = l
  <2>1. CASE k \in DOMAIN q /\ l \in DOMAIN q
    BY <1>3, <1>6, <2>1 DEF OrderlyIn
  <2>2. CASE k \in DOMAIN q /\ l = Len(q) + 1
    BY <1>1, <1>3, <1>5, <1>6, <2>2
  <2>3. CASE l \in DOMAIN q /\ k = Len(q) + 1
    BY <1>1, <1>3, <1>5, <1>6, <2>3
  <2> QED
    BY <1>2, <2>1, <2>2, <2>3
<1>7. ASSUME NEW k \in DOMAIN p, NEW l \in DOMAIN p,
             k < l, p[k].about = "cgi", p[k].event = "close"
      PROVE  ~(p[l].about = "cgi" /\ p[l].sock = p[k].sock)
  <2>1. k \in DOMAIN q
    BY <1>1, <1>2, <1>3, <1>7
  <2>2. CASE l \in DOMAIN q
    BY <1>3, <1>7, <2>1, <2>2 DEF OrderlyIn
  <2>3. CASE l = Len(q) + 1
    <3>1. q[k] = Letter("cgi", "close", q[k].sock) /\ q[k] \in In(q) /\ p[k] = q[k] /\ p[l] = m
      BY <1>1, <1>3, <1>5, <1>7, <2>1, <2>3, LetterParts
    <3> QED
      BY <3>1
  <2> QED
    BY <1>2, <2>2, <2>3
<1>8. OrderlyIn(p)
  BY <1>6, <1>7 DEF OrderlyIn
<1> QED
  BY <1>1, <1>4, <1>8 DEF p

(* The first message is taken.                                             *)
LEMMA Taken ==
    ASSUME NEW q \in Seq(Message), q # <<>>, OrderlyIn(q)
    PROVE  /\ Tail(q) \in Seq(Message) /\ Head(q) \in Message /\ Head(q) \in In(q)
           /\ \A x \in In(Tail(q)) : x \in In(q)
           /\ \A x \in In(q) : x = Head(q) \/ x \in In(Tail(q))
           /\ OrderlyIn(Tail(q))
           /\ Head(q).about = "web" /\ Head(q).event = "read" => Head(q) \notin In(Tail(q))
           /\ Head(q).about = "cgi" /\ Head(q).event = "close" =>
                 \A x \in In(Tail(q)) : ~(x.about = "cgi" /\ x.sock = Head(q).sock)
<1> DEFINE p == Tail(q)
           h == Head(q)
<1>1. /\ p \in Seq(Message) /\ h \in Message /\ h = q[1] /\ 1 \in DOMAIN q
      /\ Len(q) \in Nat /\ DOMAIN q = 1..Len(q) /\ DOMAIN p = 1..Len(q) - 1
      /\ \A k \in 1..Len(q) - 1 : p[k] = q[k + 1]
  OBVIOUS
<1> HIDE DEF p, h
<1>2. \A k \in DOMAIN p : k \in Nat /\ k + 1 \in DOMAIN q /\ p[k] = q[k + 1] /\ 1 < k + 1
  BY <1>1
<1>3. \A k \in DOMAIN q : k = 1 \/ \E l \in DOMAIN p : k = l + 1 /\ p[l] = q[k]
  <2>1. TAKE k \in DOMAIN q
  <2>2. CASE k = 1
    BY <2>2
  <2>3. CASE k # 1
    <3>1. k - 1 \in DOMAIN p /\ k = k - 1 + 1
      BY <1>1, <2>3
    <3> QED
      BY <1>2, <3>1
  <2> QED
    BY <2>2, <2>3
<1>4. \A x \in In(p) : x \in In(q)
  BY <1>2 DEF In
<1>5. \A x \in In(q) : x = h \/ x \in In(p)
  BY <1>1, <1>3 DEF In
<1>6. ASSUME NEW k \in DOMAIN p, NEW l \in DOMAIN p,
             p[k] = p[l], p[k].about = "web", p[k].event = "read"
      PROVE  k = l
  <2>1. k + 1 = l + 1
    BY <1>2, <1>6 DEF OrderlyIn
  <2> QED
    BY <1>2, <2>1
<1>7. ASSUME NEW k \in DOMAIN p, NEW l \in DOMAIN p,
             k < l, p[k].about = "cgi", p[k].event = "close"
      PROVE  ~(p[l].about = "cgi" /\ p[l].sock = p[k].sock)
  <2>1. k + 1 < l + 1
    BY <1>2, <1>7
  <2> QED
    BY <1>2, <1>7, <2>1 DEF OrderlyIn
<1>8. ASSUME h.about = "web", h.event = "read" PROVE h \notin In(p)
  <2>1. \A k \in DOMAIN p : p[k] # h
    BY <1>1, <1>2, <1>8 DEF OrderlyIn
  <2> QED
    BY <2>1 DEF In
<1>9. ASSUME h.about = "cgi", h.event = "close", NEW x \in In(p)
      PROVE  ~(x.about = "cgi" /\ x.sock = h.sock)
  <2>1. PICK k \in DOMAIN p : x = p[k]
    BY DEF In
  <2> QED
    BY <1>1, <1>2, <1>9, <2>1 DEF OrderlyIn
<1>10. OrderlyIn(p)
  BY <1>6, <1>7 DEF OrderlyIn
<1>11. h \in In(q)
  BY <1>1 DEF In
<1> QED
  BY <1>1, <1>4, <1>5, <1>8, <1>9, <1>10, <1>11 DEF p, h

-----------------------------------------------------------------------------
(* Owners, and a step that closes the sockets of S.                        *)

LEMMA OwnersAre ==
    /\ \A b : BrowserOf(b).who = b /\ BrowserOf(b).cell = 0
    /\ \A o \in Owners : /\ o.who \in Browsers \union {NoBody} /\ o.cell \in 0..MaxCell
                         /\ o.cell = 0 => o = BrowserOf(o.who)
    /\ Free.who = NoBody /\ Free.cell = 0 /\ Free \in Owners /\ Free = BrowserOf(NoBody)
    /\ \A b \in Browsers : BrowserOf(b) # Free /\ BrowserOf(b) \in Owners
    /\ NULL \notin Socks /\ NoBody \notin Browsers
    /\ MaxConn \in Nat /\ MaxConn > 0 /\ MaxCell \in Nat /\ 0 \notin Cells /\ 0 \notin Records
    /\ \A j \in Cells : j \in 0..MaxCell /\ j # 0
    /\ \A j \in 0..MaxCell : j # 0 => j \in Cells
    /\ \A j \in 0..MaxConn : j # 0 => j \in Records
    /\ \A j \in Records : j \in 0..MaxConn /\ j <= MaxConn
<1>1. /\ \A b : BrowserOf(b).who = b /\ BrowserOf(b).cell = 0
      /\ \A o \in Owners : o.who \in Browsers \union {NoBody} /\ o.cell \in 0..MaxCell
      /\ \A o \in Owners : o.cell = 0 => o = BrowserOf(o.who)
      /\ Free.who = NoBody /\ Free.cell = 0 /\ Free = BrowserOf(NoBody)
  BY DEF BrowserOf, Owners, Free
<1>2. /\ MaxConn \in Nat /\ MaxConn > 0 /\ MaxCell \in Nat /\ MaxCell > 0
      /\ NULL \notin Socks /\ NoBody \notin Browsers
  BY WinSockServerAssumption
<1>3. 0 \in 0..MaxCell
  BY <1>2
<1>4. Free \in Owners /\ \A b \in Browsers : BrowserOf(b) \in Owners
  BY <1>3 DEF Owners, Free, BrowserOf
<1>5. \A b \in Browsers : BrowserOf(b) # Free
  BY <1>1, <1>2
<1>6. /\ 0 \notin Cells /\ 0 \notin Records
      /\ \A j \in Cells : j \in 0..MaxCell /\ j # 0
      /\ \A j \in 0..MaxCell : j # 0 => j \in Cells
      /\ \A j \in 0..MaxConn : j # 0 => j \in Records
      /\ \A j \in Records : j \in 0..MaxConn /\ j <= MaxConn
  BY <1>2 DEF Cells, Records
<1> QED
  BY <1>1, <1>2, <1>4, <1>5, <1>6

(* What the invariant says of types, in the words of the steps.            *)
LEMMA TypesAre ==
    ASSUME WinTypeOK
    PROVE  /\ \A n \in Socks : owner[n] \in Owners
           /\ \A n \in Socks : owner[n].who \in Browsers \union {NoBody}
           /\ \A n \in Socks : map[n] \in 0..MaxConn
           /\ \A i \in Records : web[i].websocket \in Socks \union {NULL}
           /\ \A i \in Records, j \in Cells :
                 web[i].clients[j].clifd \in Socks \union {NULL} /\ web[i].clients[j].active \in BOOLEAN
           /\ \A b \in Browsers : page[b] \in {"away", "accepted", "asked", "served", "done", "left"}
           /\ queue \in Seq(Message)
<1>1. \A n \in Socks : owner[n] \in Owners
  BY DEF WinTypeOK
<1>2. \A n \in Socks : owner[n].who \in Browsers \union {NoBody}
  BY <1>1, OwnersAre
<1>3. \A i \in Records : web[i] \in [websocket : Socks \union {NULL}, clients : [Cells -> Client]]
  BY DEF WinTypeOK
<1>4. \A i \in Records, j \in Cells : web[i].clients[j] \in Client
  BY <1>3
<1> QED
  BY <1>1, <1>2, <1>3, <1>4 DEF WinTypeOK, Client

Closes(S) ==
    /\ S \subseteq Socks \union {NULL}
    /\ \A n \in Socks : owner'[n] = IF n \in S THEN Free ELSE owner[n]
    /\ \A b \in Browsers :
          page'[b] = IF page[b] # "left" /\ \E n \in S \ {NULL} : owner[n] = BrowserOf(b)
                     THEN "done" ELSE page[b]
    /\ queue # <<>> /\ queue' = Tail(queue)
    /\ map' = map /\ host' = host /\ kind' = kind

LEMMA ShutIs ==
    ASSUME NEW S, S \subseteq Socks \union {NULL}, Shut(S), WinTypeOK,
           queue # <<>>, queue' = Tail(queue), map' = map, host' = host, kind' = kind
    PROVE  /\ Closes(S)
           /\ owner' \in [Socks -> Owners]
           /\ unread' \subseteq Socks
           /\ page' \in [Browsers -> {"away", "accepted", "asked", "served", "done", "left"}]
<1>1. Closes(S)
  BY DEF Closes, Shut, BrowserOf
<1>2. owner' \in [Socks -> Owners]
  BY OwnersAre DEF WinTypeOK, Shut
<1>3. unread' \subseteq Socks /\ page' \in [Browsers -> {"away", "accepted", "asked", "served", "done", "left"}]
  BY DEF WinTypeOK, Shut
<1> QED
  BY <1>1, <1>2, <1>3

(* A step of the window that closes nothing.                               *)
LEMMA NoneShut ==
    ASSUME owner' = owner, page' = page, queue # <<>>, queue' = Tail(queue),
           map' = map, host' = host, kind' = kind
    PROVE  Closes({})
  BY DEF Closes

(* What a taken message leaves behind.                                     *)
LEMMA TakenHere ==
    ASSUME WinIInv, queue # <<>>, queue' = Tail(queue)
    PROVE  /\ Head(queue) \in Message /\ Head(queue).sock \in Socks
           /\ Head(queue) = Letter(Head(queue).about, Head(queue).event, Head(queue).sock)
           /\ Head(queue) \in Posted
           /\ queue' \in Seq(Message) /\ OrderlyIn(queue')
           /\ \A x \in Posted' : x \in Posted
           /\ \A x \in Posted : x = Head(queue) \/ x \in Posted'
           /\ Head(queue).about = "web" /\ Head(queue).event = "read" => Head(queue) \notin Posted'
           /\ Head(queue).about = "cgi" /\ Head(queue).event = "close" =>
                 \A x \in Posted' : ~(x.about = "cgi" /\ x.sock = Head(queue).sock)
<1>1. queue \in Seq(Message) /\ OrderlyIn(queue)
  BY DEF WinIInv, WinTypeOK
<1>2. Posted = In(queue) /\ Posted' = In(Tail(queue))
  BY DEF Posted, In
<1> QED
  BY <1>1, <1>2, Taken, LetterParts

(* Nobody is let in or asks for anything.                                  *)
LEMMA ClosesUnanswered ==
    ASSUME WinIInv, NEW S, Closes(S)
    PROVE  \A b \in Browsers, n \in Socks :
              Unanswered(b, n)' => Unanswered(b, n) /\ n \notin S
<1> SUFFICES ASSUME NEW b \in Browsers, NEW n \in Socks, Unanswered(b, n)'
             PROVE  Unanswered(b, n) /\ n \notin S
  OBVIOUS
<1>1. owner'[n] = BrowserOf(b) /\ (page'[b] = "accepted" \/ Asks(n)')
  BY DEF Unanswered, BrowserOf
<1>2. n \notin S /\ owner[n] = BrowserOf(b)
  BY <1>1, OwnersAre DEF Closes
<1>3. page'[b] = "accepted" => page[b] = "accepted"
  BY DEF Closes
<1>4. Asks(n)' => Asks(n)
  BY TakenHere DEF Closes, Asks, Letter
<1> QED
  BY <1>1, <1>2, <1>3, <1>4 DEF Unanswered

LEMMA ClosesOwned ==
    ASSUME WinIInv, NEW S, Closes(S)
    PROVE  Owned'
<1>1. WinTypeOK /\ Owned
  BY DEF WinIInv
<1>2. \A n \in Socks : owner'[n] # Free => owner'[n] = owner[n] /\ owner[n] # Free
  BY DEF Closes
<1>3. \A n \in Socks : owner'[n] = owner[n] \/ owner'[n] = Free
  BY DEF Closes
<1>4. \A n, m \in Socks : owner'[n] = owner'[m] /\ owner'[n] # Free => n = m
  BY <1>1, <1>2 DEF Owned
<1>5. \A n \in Socks : owner'[n].who = NoBody => owner'[n] = Free
  BY <1>1, <1>3 DEF Owned
<1>6. \A n \in Socks : owner'[n] # Free => page'[owner'[n].who] # "away"
  <2>1. TAKE n \in Socks
  <2>2. HAVE owner'[n] # Free
  <2>3. owner'[n] = owner[n] /\ owner[n].who \in Browsers /\ page[owner[n].who] # "away"
    BY <1>1, <1>2, <2>2, TypesAre DEF Owned
  <2> QED
    BY <2>3 DEF Closes
<1>7. \A n \in Socks : owner'[n].cell # 0 => map'[n] # 0
  BY <1>1, <1>3, OwnersAre DEF Owned, Closes
<1>8. \A n, m \in Socks, b \in Browsers : Unanswered(b, n)' /\ owner'[m].who = b => m = n
  <2>1. TAKE n, m \in Socks, b \in Browsers
  <2>2. HAVE Unanswered(b, n)' /\ owner'[m].who = b
  <2>3. Unanswered(b, n)
    BY <2>2, ClosesUnanswered
  <2>4. owner[m].who = b
    BY <1>3, <2>2, OwnersAre
  <2> QED
    BY <1>1, <2>3, <2>4 DEF Owned
<1> QED
  BY <1>4, <1>5, <1>6, <1>7, <1>8 DEF Owned

(* Nothing is left in the queue about what is closed.                      *)
LEMMA ClosesQueued ==
    ASSUME WinIInv, NEW S, Closes(S),
           \A n \in Socks : n \in S =>
              /\ Letter("web", "read", n) \notin Posted'
              /\ \A e \in {"read", "close"} : Letter("cgi", e, n) \notin Posted'
    PROVE  Queued'
<1>1. WinTypeOK /\ Owned /\ Queued
  BY DEF WinIInv
<1>2. queue # <<>> /\ queue' = Tail(queue) /\ host' = host /\ kind' = kind
  BY DEF Closes
<1>3. \A x \in Posted' : x \in Posted
  BY <1>2, TakenHere
<1>4. \A n \in Socks : owner'[n] = IF n \in S THEN Free ELSE owner[n]
  BY DEF Closes
<1>5. \A n \in Socks : Asks(n)' =>
          /\ owner'[n].cell = 0 /\ owner'[n] # Free
          /\ page'[owner'[n].who] \in {"asked", "left"}
  <2>1. TAKE n \in Socks
  <2>2. HAVE Asks(n)'
  <2>3. Asks(n) /\ n \notin S
    BY <1>3, <2>2 DEF Asks, Letter
  <2>4. /\ owner'[n] = owner[n] /\ owner[n].cell = 0 /\ owner[n] # Free
        /\ page[owner[n].who] \in {"asked", "left"}
    BY <1>1, <1>4, <2>3 DEF Queued
  <2>5. PICK b \in Browsers : owner[n] = BrowserOf(b)
    BY <1>1, <2>4, TypesAre, OwnersAre DEF Owned
  <2>6. owner[n].who = b
    BY <2>5, OwnersAre
  <2>7. \A m \in S \ {NULL} : owner[m] # BrowserOf(b)
    BY <1>1, <2>3, <2>4, <2>5 DEF Owned, Closes
  <2>8. page'[b] = page[b]
    BY <2>7 DEF Closes
  <2> QED
    BY <2>4, <2>6, <2>8
<1>6. \A n \in Socks : Letter("web", "close", n) \in Posted' =>
          /\ kind' = "fresh"
          /\ owner'[n] # Free => owner'[n].cell = 0 /\ page'[owner'[n].who] = "left"
  <2>1. TAKE n \in Socks
  <2>2. HAVE Letter("web", "close", n) \in Posted'
  <2>3. /\ kind = "fresh"
        /\ owner[n] # Free => owner[n].cell = 0 /\ page[owner[n].who] = "left"
    BY <1>1, <1>3, <2>2 DEF Queued
  <2>4. CASE owner'[n] # Free
    <3>1. owner'[n] = owner[n] /\ owner[n] # Free
      BY <1>4, <2>4
    <3>2. owner[n].who \in Browsers
      BY <1>1, <3>1, TypesAre DEF Owned
    <3>3. page'[owner[n].who] = "left"
      BY <2>3, <3>1, <3>2 DEF Closes
    <3> QED
      BY <1>2, <2>3, <3>1, <3>3
  <2> QED
    BY <1>2, <2>3, <2>4
<1>7. \A n \in Socks, e \in {"read", "close"} :
          Letter("cgi", e, n) \in Posted' => owner'[n].cell # 0
  BY <1>1, <1>3, <1>4 DEF Queued
<1>8. \A n \in Socks : Ends(n)' => host'[owner'[n].who][owner'[n].cell] = "ended"
  <2>1. TAKE n \in Socks
  <2>2. HAVE Ends(n)'
  <2>3. Ends(n) /\ n \notin S
    BY <1>3, <2>2 DEF Ends, Letter
  <2> QED
    BY <1>1, <1>2, <1>4, <2>3 DEF Queued
<1> QED
  BY <1>5, <1>6, <1>7, <1>8 DEF Queued

-----------------------------------------------------------------------------
(* Records.                                                                *)

(* A set of numbers that has a member has a least one.                     *)
LEMMA LeastIn ==
    ASSUME NEW S \in SUBSET Nat, S # {}
    PROVE  (CHOOSE i \in S : \A k \in S : i <= k) \in S
<1> DEFINE R == OpToRel(<, Nat)
<1>1. \A x, y \in Nat : <<x, y>> \in R <=> x < y
  BY DEF OpToRel
<1>2. IsWellFoundedOn(R, Nat)
  BY NatLessThanWellFounded
<1> HIDE DEF R
<1>3. PICK x \in S : \A y \in S : ~(<<y, x>> \in R)
  BY <1>2, WFMin
<1>4. \A y \in S : x <= y
  <2>1. TAKE y \in S
  <2>2. x \in Nat /\ y \in Nat
    OBVIOUS
  <2>3. ~(y < x)
    BY <1>1, <1>3, <2>2
  <2> QED
    BY <2>2, <2>3
<1> QED
  BY <1>4

(* The record that a number leads to is the only one that has the number,  *)
(* or is idle when none has it.                                            *)
LEMMA IndexIs ==
    ASSUME WinIInv, NEW n \in Socks, Index(n) <= MaxConn
    PROVE  /\ Index(n) \in Records
           /\ web[Index(n)].websocket \in {n, NULL}
           /\ \A k \in Records : web[k].websocket = n => k = Index(n)
<1> DEFINE known == {i \in Records : web[i].websocket = n}
           idle  == {i \in Records : web[i].websocket = NULL}
<1>1. known \in SUBSET Nat /\ idle \in SUBSET Nat
  BY OwnersAre DEF Records
<1>2. Recorded
  BY DEF WinIInv
<1>3. CASE known # {}
  <2> DEFINE x == CHOOSE i \in known : \A k \in known : i <= k
  <2>1. Index(n) = x
    BY <1>3 DEF Index
  <2>2. x \in known
    BY <1>1, <1>3, LeastIn
  <2> HIDE DEF x
  <2> QED
    BY <1>2, <2>1, <2>2, OwnersAre DEF Recorded
<1>4. CASE known = {} /\ idle # {}
  <2> DEFINE x == CHOOSE i \in idle : \A k \in idle : i <= k
  <2>1. Index(n) = x
    BY <1>4 DEF Index
  <2>2. x \in idle
    BY <1>1, <1>4, LeastIn
  <2> HIDE DEF x
  <2> QED
    BY <1>4, <2>1, <2>2
<1>5. CASE known = {} /\ idle = {}
  <2>1. Index(n) = MaxConn + 1
    BY <1>5 DEF Index
  <2> QED
    BY <2>1, OwnersAre
<1> QED
  BY <1>3, <1>4, <1>5

(* Who a request is of, and that its record has no cell at work.           *)
LEMMA AskedBy ==
    ASSUME WinIInv, Is("web", "read")
    PROVE  LET n == Head(queue).sock
               b == owner[n].who
           IN  /\ n \in Socks /\ Asks(n) /\ Head(queue) = Letter("web", "read", n)
               /\ b \in Browsers /\ owner[n] = BrowserOf(b) /\ owner[n].cell = 0
               /\ page[b] \in {"asked", "left"} /\ Unanswered(b, n)
               /\ Index(n) <= MaxConn => /\ Index(n) \in Records /\ Quiet(Index(n))
                                         /\ web[Index(n)].websocket \in {n, NULL}
                                         /\ \A k \in Records : web[k].websocket = n => k = Index(n)
<1> DEFINE n == Head(queue).sock
           b == owner[n].who
<1>1. WinTypeOK /\ Owned /\ Queued /\ Recorded /\ CellsRight
  BY DEF WinIInv
<1>2. /\ queue # <<>> /\ Head(queue).about = "web" /\ Head(queue).event = "read"
  BY DEF Is
<1>3. queue \in Seq(Message) /\ OrderlyIn(queue)
  BY <1>1 DEF WinTypeOK, WinIInv
<1>4. n \in Socks /\ Head(queue) = Letter("web", "read", n) /\ Head(queue) \in Posted
  BY <1>2, <1>3, Taken, LetterParts DEF Posted
<1> HIDE DEF n
<1>5. Asks(n)
  BY <1>4 DEF Asks
<1>6. owner[n].cell = 0 /\ owner[n] # Free /\ page[b] \in {"asked", "left"}
  BY <1>1, <1>4, <1>5 DEF Queued
<1>7. b \in Browsers /\ owner[n] = BrowserOf(b)
  BY <1>1, <1>4, <1>6, TypesAre, OwnersAre DEF Owned
<1>8. Unanswered(b, n)
  BY <1>5, <1>7 DEF Unanswered
<1>9. ASSUME Index(n) <= MaxConn
      PROVE  /\ Index(n) \in Records /\ Quiet(Index(n))
             /\ web[Index(n)].websocket \in {n, NULL}
             /\ \A k \in Records : web[k].websocket = n => k = Index(n)
  <2>1. /\ Index(n) \in Records /\ web[Index(n)].websocket \in {n, NULL}
        /\ \A k \in Records : web[k].websocket = n => k = Index(n)
    BY <1>4, <1>9, IndexIs
  <2>2. web[Index(n)].websocket = n => Quiet(Index(n))
    BY <1>1, <1>4, <1>7, <1>8, <2>1 DEF Recorded
  <2>3. web[Index(n)].websocket = NULL => Quiet(Index(n))
    BY <1>1, <2>1 DEF CellsRight, Quiet
  <2> QED
    BY <2>1, <2>2, <2>3
<1> QED
  BY <1>4, <1>5, <1>6, <1>7, <1>8, <1>9 DEF n

(* The cells that are left have the connections they had.                  *)
LEMMA ClosesCells ==
    ASSUME WinIInv, NEW S, Closes(S),
           \A i \in Records, j \in Cells : web'[i].clients[j].active =>
              /\ web[i].clients[j].active
              /\ web'[i].clients[j].clifd = web[i].clients[j].clifd
              /\ web'[i].websocket = web[i].websocket
              /\ web[i].clients[j].clifd \notin S /\ web[i].websocket \notin S
    PROVE  CellsRight'
<1>1. CellsRight /\ WinTypeOK
  BY DEF WinIInv
<1> SUFFICES ASSUME NEW i \in Records, NEW j \in Cells, web'[i].clients[j].active
             PROVE  /\ web'[i].clients[j].clifd # NULL /\ web'[i].websocket # NULL
                    /\ map'[web'[i].clients[j].clifd] = i
                    /\ owner'[web'[i].clients[j].clifd].cell = j
                    /\ owner'[web'[i].websocket] = BrowserOf(owner'[web'[i].clients[j].clifd].who)
  BY DEF CellsRight, BrowserOf
<1> DEFINE c == web[i].clients[j].clifd
           w == web[i].websocket
<1>2. web[i].clients[j].active /\ web'[i].clients[j].clifd = c /\ web'[i].websocket = w
      /\ c \notin S /\ w \notin S
  OBVIOUS
<1>3. /\ c # NULL /\ w # NULL /\ map[c] = i /\ owner[c].cell = j
      /\ owner[w] = BrowserOf(owner[c].who)
  BY <1>1, <1>2 DEF CellsRight
<1>4. c \in Socks /\ w \in Socks
  BY <1>1, <1>3, TypesAre
<1>5. map' = map /\ owner'[c] = owner[c] /\ owner'[w] = owner[w]
  BY <1>2, <1>4 DEF Closes
<1> QED
  BY <1>2, <1>3, <1>5

(* The pages that are still served have their records.                     *)
LEMMA ClosesServed ==
    ASSUME WinIInv, NEW S, Closes(S),
           \A b \in Browsers, i \in Records :
              page[b] = "served" /\ page'[b] = "served" /\ PageOf(b, i) => PageOf(b, i)'
    PROVE  ServedHave'
  BY DEF WinIInv, ServedHave, Closes

(* A browser whose page stays open has not had its socket closed.          *)
LEMMA ClosesOther ==
    ASSUME NEW S, Closes(S), NEW b \in Browsers, NEW i, page'[b] = "served",
           web[i].websocket # NULL, owner[web[i].websocket] = BrowserOf(b)
    PROVE  web[i].websocket \notin S
<1> SUFFICES ASSUME web[i].websocket \in S
             PROVE  FALSE
  OBVIOUS
<1>1. web[i].websocket \in S \ {NULL}
  OBVIOUS
<1>2. page'[b] = IF page[b] # "left" /\ \E n \in S \ {NULL} : owner[n] = BrowserOf(b)
                 THEN "done" ELSE page[b]
  BY DEF Closes
<1> QED
  BY <1>1, <1>2

-----------------------------------------------------------------------------
(* The handlers that change no record.                                     *)

LEMMA SameRecords ==
    ASSUME WinIInv, Closes({}), web' = web,
           Head(queue).event = "read"
    PROVE  Owned' /\ Queued' /\ OrderlyIn(queue)' /\ Recorded' /\ CellsRight' /\ ServedHave'
<1>1. WinTypeOK /\ Recorded /\ ServedHave
  BY DEF WinIInv
<1>2. queue # <<>> /\ queue' = Tail(queue) /\ map' = map /\ kind' = kind /\ host' = host
  BY DEF Closes
<1>3. \A n \in Socks : owner'[n] = owner[n]
  BY DEF Closes
<1>4. Owned' /\ Queued'
  BY ClosesOwned, ClosesQueued
<1>5. OrderlyIn(queue)'
  BY <1>2, TakenHere DEF OrderlyIn
<1>6. \A n \in Socks : Ends(n) => Ends(n)'
  BY <1>2, TakenHere, LetterParts DEF Ends, Letter
<1>7. \A i \in Records : web[i].websocket # NULL => web[i].websocket \in Socks
  BY <1>1, TypesAre
<1>8. Recorded'
  <2>1. \A b \in Browsers, n \in Socks : Unanswered(b, n)' => Unanswered(b, n)
    BY ClosesUnanswered
  <2>2. \A i \in Records : Quiet(i)' = Quiet(i)
    BY DEF Quiet
  <2> QED
    BY <1>1, <1>2, <1>3, <1>7, <2>1, <2>2 DEF Recorded
<1>9. CellsRight'
  <2>1. \A i \in Records, j \in Cells : web'[i].clients[j].active =>
            /\ web[i].clients[j].active
            /\ web'[i].clients[j].clifd = web[i].clients[j].clifd
            /\ web'[i].websocket = web[i].websocket
            /\ web[i].clients[j].clifd \notin {} /\ web[i].websocket \notin {}
    OBVIOUS
  <2> QED
    BY <2>1, ClosesCells
<1>10. ServedHave'
  <2>1. ASSUME NEW b \in Browsers, NEW i \in Records, PageOf(b, i)
        PROVE  PageOf(b, i)'
    <3>1. owner'[web'[i].websocket] = BrowserOf(b) /\ web'[i].websocket # NULL
      BY <1>3, <1>7, <2>1 DEF PageOf
    <3>2. \A j \in Cells : web[i].clients[j].active => web[i].clients[j].clifd \in Socks
      BY <1>1, TypesAre DEF WinIInv, CellsRight
    <3>3. Quiet(i)' = Quiet(i)
      BY DEF Quiet
    <3> QED
      BY <1>2, <1>6, <2>1, <3>1, <3>2, <3>3 DEF PageOf, BrowserOf
  <2> QED
    BY <2>1, ClosesServed
<1> QED
  BY <1>4, <1>5, <1>8, <1>9, <1>10

LEMMA OverrunStep ==
    ASSUME WinIInv, Overrun
    PROVE  WinIInv'
<1>1. /\ queue # <<>> /\ queue' = Tail(queue) /\ kind' = kind /\ web' = web /\ map' = map
      /\ owner' = owner /\ page' = page /\ asked' = asked /\ host' = host /\ unread' = unread
      /\ overrun' = TRUE /\ Head(queue).about = "web" /\ Head(queue).event = "read"
  BY DEF Overrun, Is
<1>2. Closes({})
  BY <1>1, NoneShut
<1>3. WinTypeOK' /\ kind' # "any"
  BY <1>1, TakenHere DEF WinIInv, WinTypeOK
<1> QED
  BY <1>1, <1>2, <1>3, SameRecords DEF WinIInv

LEMMA CgiReadStep ==
    ASSUME WinIInv, CgiRead
    PROVE  WinIInv'
<1>1. /\ queue # <<>> /\ queue' = Tail(queue) /\ kind' = kind /\ web' = web /\ map' = map
      /\ owner' = owner /\ page' = page /\ asked' = asked /\ host' = host
      /\ overrun' = overrun /\ Head(queue).about = "cgi" /\ Head(queue).event = "read"
  BY DEF CgiRead, Is
<1>2. unread' \subseteq Socks
  BY DEF CgiRead, WinIInv, WinTypeOK
<1>3. Closes({})
  BY <1>1, NoneShut
<1>4. WinTypeOK' /\ kind' # "any"
  BY <1>1, <1>2, TakenHere DEF WinIInv, WinTypeOK
<1> QED
  BY <1>1, <1>3, <1>4, SameRecords DEF WinIInv

-----------------------------------------------------------------------------
(* The handlers that close sockets.                                        *)

LEMMA AnswerPageStep ==
    ASSUME WinIInv, AnswerPage
    PROVE  WinIInv'
<1> DEFINE n == Head(queue).sock
           i == Index(n)
           b == owner[n].who
<1>1. /\ Is("web", "read") /\ i <= MaxConn /\ Shut({n}) /\ queue' = Tail(queue) /\ queue # <<>>
      /\ kind' = kind /\ map' = map /\ asked' = asked /\ host' = host /\ overrun' = overrun
      /\ Head(queue).about = "web" /\ Head(queue).event = "read"
  BY DEF AnswerPage, Is
<1>2. PICK v \in {n, NULL} : web' = [web EXCEPT ![i].websocket = v]
  <2>1. PICK r \in Received(n) : web' = [web EXCEPT ![i].websocket = IF r.path = "other" THEN NULL ELSE n]
    BY DEF AnswerPage
  <2> QED
    BY <2>1
<1>3. WinTypeOK /\ Owned /\ Queued /\ Recorded /\ CellsRight /\ ServedHave
  BY DEF WinIInv
<1>4. /\ n \in Socks /\ Asks(n) /\ Head(queue) = Letter("web", "read", n)
      /\ b \in Browsers /\ owner[n] = BrowserOf(b) /\ owner[n].cell = 0
      /\ page[b] \in {"asked", "left"} /\ Unanswered(b, n)
      /\ i \in Records /\ Quiet(i) /\ web[i].websocket \in {n, NULL}
      /\ \A k \in Records : web[k].websocket = n => k = i
  BY <1>1, AskedBy
<1> HIDE DEF n, i, b
<1>5. /\ Closes({n}) /\ owner' \in [Socks -> Owners] /\ unread' \subseteq Socks
      /\ page' \in [Browsers -> {"away", "accepted", "asked", "served", "done", "left"}]
  BY <1>1, <1>3, <1>4, ShutIs
<1>6. /\ queue' \in Seq(Message) /\ OrderlyIn(queue)'
      /\ \A x \in Posted : x = Head(queue) \/ x \in Posted'
      /\ Head(queue) \notin Posted'
      /\ \A x \in Posted' : x \in Posted
  BY <1>1, TakenHere DEF OrderlyIn
<1>7. web \in [Records -> [websocket : Socks \union {NULL}, clients : [Cells -> Client]]]
  BY <1>3 DEF WinTypeOK
<1>8. /\ web' \in [Records -> [websocket : Socks \union {NULL}, clients : [Cells -> Client]]]
      /\ web'[i].websocket = v /\ web'[i].clients = web[i].clients
      /\ \A k \in Records : k # i => web'[k] = web[k]
  BY <1>2, <1>4, <1>7
<1>9. \A k \in Records : web'[k].clients = web[k].clients /\ Quiet(k)' = Quiet(k)
  BY <1>8 DEF Quiet
<1>10. \A m \in Socks : owner'[m] = IF m = n THEN Free ELSE owner[m]
  BY <1>5 DEF Closes
<1>11. Owned'
  BY <1>5, ClosesOwned
<1>12. Queued'
  <2>1. Letter("web", "read", n) \notin Posted'
    BY <1>4, <1>6
  <2>2. \A e \in {"read", "close"} : Letter("cgi", e, n) \notin Posted'
    BY <1>3, <1>4, <1>6 DEF Queued
  <2> QED
    BY <1>5, <2>1, <2>2, ClosesQueued
<1>13. Recorded'
  <2>1. \A k, l \in Records :
           web'[k].websocket = web'[l].websocket /\ web'[k].websocket # NULL => k = l
    <3>1. \A k \in Records : k # i => web'[k].websocket = web[k].websocket /\ web[k].websocket # n
      BY <1>4, <1>8
    <3> QED
      BY <1>2, <1>3, <1>8, <3>1 DEF Recorded
  <2>2. \A c \in Browsers, m \in Socks, k \in Records :
           Unanswered(c, m)' /\ web'[k].websocket = m => kind' = "waiting" /\ Quiet(k)'
    <3>1. TAKE c \in Browsers, m \in Socks, k \in Records
    <3>2. HAVE Unanswered(c, m)' /\ web'[k].websocket = m
    <3>3. Unanswered(c, m) /\ m # n
      BY <1>5, <3>2, ClosesUnanswered
    <3>4. k # i
      BY <1>2, <1>8, <3>2, <3>3, OwnersAre
    <3>5. web[k].websocket = m
      BY <1>8, <3>2, <3>4
    <3> QED
      BY <1>1, <1>3, <1>9, <3>3, <3>5 DEF Recorded
  <2>3. kind' = "fresh" =>
           \A k \in Records : web'[k].websocket # NULL => owner'[web'[k].websocket].cell = 0
    <3>1. HAVE kind' = "fresh"
    <3>2. TAKE k \in Records
    <3>3. HAVE web'[k].websocket # NULL
    <3>4. CASE k = i
      BY <1>2, <1>4, <1>8, <1>10, <3>3, <3>4, OwnersAre
    <3>5. CASE k # i
      <4>1. web'[k].websocket = web[k].websocket /\ web[k].websocket \in Socks
        BY <1>3, <1>8, <3>3, <3>5, TypesAre
      <4>2. owner[web[k].websocket].cell = 0
        BY <1>1, <1>3, <3>1, <3>3, <4>1 DEF Recorded
      <4> QED
        BY <1>10, <4>1, <4>2, OwnersAre
    <3> QED
      BY <3>4, <3>5
  <2>4. kind' = "waiting" =>
           \A m \in Socks : owner'[m].cell # 0 =>
              web'[map'[m]].clients[owner'[m].cell] = [clifd |-> m, active |-> TRUE]
    <3>1. HAVE kind' = "waiting"
    <3>2. TAKE m \in Socks
    <3>3. HAVE owner'[m].cell # 0
    <3>4. owner'[m] = owner[m] /\ map[m] # 0 /\ map[m] \in Records
      BY <1>3, <1>10, <3>3, OwnersAre, TypesAre DEF Owned
    <3> QED
      BY <1>1, <1>3, <1>9, <3>1, <3>3, <3>4 DEF Recorded
  <2> QED
    BY <2>1, <2>2, <2>3, <2>4 DEF Recorded
<1>14. CellsRight'
  <2>1. ASSUME NEW k \in Records, NEW j \in Cells, web'[k].clients[j].active
        PROVE  /\ web[k].clients[j].active
               /\ web'[k].clients[j].clifd = web[k].clients[j].clifd
               /\ web'[k].websocket = web[k].websocket
               /\ web[k].clients[j].clifd \notin {n} /\ web[k].websocket \notin {n}
    <3>1. web[k].clients[j].active /\ web'[k].clients[j].clifd = web[k].clients[j].clifd
      BY <1>9, <2>1
    <3>2. k # i
      BY <1>4, <3>1 DEF Quiet
    <3>3. web[k].clients[j].clifd # n
      BY <1>3, <1>4, <3>1, OwnersAre DEF CellsRight
    <3> QED
      BY <1>4, <1>8, <3>1, <3>2, <3>3
  <2> QED
    BY <1>5, <2>1, ClosesCells
<1>15. ServedHave'
  <2>1. ASSUME NEW c \in Browsers, NEW k \in Records,
               page[c] = "served", page'[c] = "served", PageOf(c, k)
        PROVE  PageOf(c, k)'
    <3>1. web[k].websocket # NULL /\ owner[web[k].websocket] = BrowserOf(c)
      BY <2>1 DEF PageOf
    <3>2. c # b
      BY <1>4, <2>1
    <3>3. web[k].websocket # n /\ k # i
      BY <1>4, <3>1, <3>2, OwnersAre
    <3>4. owner'[web[k].websocket] = owner[web[k].websocket] /\ web'[k] = web[k]
      BY <1>3, <1>8, <1>10, <3>1, <3>3, TypesAre
    <3>5. \A m \in Socks : Ends(m) => Ends(m)'
      BY <1>1, <1>6, LetterParts DEF Ends, Letter
    <3>6. \A j \in Cells : web[k].clients[j].active => web[k].clients[j].clifd \in Socks
      BY <1>3, TypesAre DEF CellsRight
    <3> QED
      BY <1>1, <1>9, <2>1, <3>1, <3>4, <3>5, <3>6 DEF PageOf, BrowserOf
  <2> QED
    BY <1>5, <2>1, ClosesServed
<1>16. WinTypeOK' /\ kind' # "any"
  BY <1>1, <1>5, <1>6, <1>8 DEF WinIInv, WinTypeOK
<1> QED
  BY <1>6, <1>11, <1>12, <1>13, <1>14, <1>15, <1>16 DEF WinIInv

LEMMA WebCloseStep ==
    ASSUME WinIInv, WebClose
    PROVE  WinIInv'
<1> DEFINE n == Head(queue).sock
           Z == {i \in Records : web[i].websocket = n}
           S == IF Z # {} THEN {n} ELSE {}
<1>1. /\ Is("web", "close") /\ queue' = Tail(queue) /\ queue # <<>>
      /\ kind' = kind /\ map' = map /\ asked' = asked /\ host' = host /\ overrun' = overrun
      /\ Head(queue).about = "web" /\ Head(queue).event = "close"
      /\ web' = [i \in Records |->
                    IF i \in Z THEN [websocket |-> NULL, clients |-> [j \in Cells |-> NoClient]]
                    ELSE web[i]]
      /\ Z # {} => Shut({n})
      /\ Z = {} => owner' = owner /\ unread' = unread /\ page' = page
  BY DEF WebClose, Is
<1>2. WinTypeOK /\ Owned /\ Queued /\ Recorded /\ CellsRight /\ ServedHave
  BY DEF WinIInv
<1>3. /\ queue' \in Seq(Message) /\ OrderlyIn(queue)'
      /\ n \in Socks /\ Head(queue) = Letter("web", "close", n) /\ Head(queue) \in Posted
      /\ \A x \in Posted : x = Head(queue) \/ x \in Posted'
      /\ \A x \in Posted' : x \in Posted
  BY <1>1, TakenHere DEF OrderlyIn
<1>4. \A i \in Records : i \in Z <=> web[i].websocket = n
  OBVIOUS
<1> HIDE DEF n, Z
<1>5. kind = "fresh" /\ owner[n].cell = 0 /\ (owner[n] # Free => page[owner[n].who] = "left")
  BY <1>2, <1>3, OwnersAre DEF Queued
<1>6. /\ Closes(S) /\ owner' \in [Socks -> Owners] /\ unread' \subseteq Socks
      /\ page' \in [Browsers -> {"away", "accepted", "asked", "served", "done", "left"}]
  <2>1. CASE Z # {}
    BY <1>1, <1>2, <1>3, <2>1, ShutIs
  <2>2. CASE Z = {}
    BY <1>1, <1>2, <2>2, NoneShut DEF WinTypeOK
  <2> QED
    BY <2>1, <2>2
<1>7. \A m \in S : m = n /\ \E i \in Records : web[i].websocket = n
  BY <1>4 DEF Z
<1> HIDE DEF S
<1>8. /\ web' \in [Records -> [websocket : Socks \union {NULL}, clients : [Cells -> Client]]]
      /\ \A i \in Records : i \in Z => /\ web'[i].websocket = NULL
                                       /\ \A j \in Cells : ~web'[i].clients[j].active
      /\ \A i \in Records : i \notin Z => web'[i] = web[i]
  <2>1. [j \in Cells |-> NoClient] \in [Cells -> Client]
    BY DEF NoClient, Client
  <2>2. \A j \in Cells : ~[k \in Cells |-> NoClient][j].active
    BY DEF NoClient
  <2>3. web \in [Records -> [websocket : Socks \union {NULL}, clients : [Cells -> Client]]]
    BY <1>2 DEF WinTypeOK
  <2> DEFINE none == [j \in Cells |-> NoClient]
  <2>4. web' = [i \in Records |-> IF i \in Z THEN [websocket |-> NULL, clients |-> none] ELSE web[i]]
    BY <1>1
  <2>5. none \in [Cells -> Client] /\ \A j \in Cells : ~none[j].active
    BY <2>1, <2>2
  <2> HIDE DEF none
  <2> QED
    BY <2>3, <2>4, <2>5
<1>9. \A m \in Socks : owner'[m] = IF m \in S THEN Free ELSE owner[m]
  BY <1>6 DEF Closes
<1>10. Owned'
  BY <1>6, ClosesOwned
<1>11. Queued'
  <2>1. ASSUME n \in S, Asks(n) PROVE FALSE
    <3>1. PICK i \in Records : web[i].websocket = n
      BY <1>7, <2>1
    <3>2. owner[n] # Free
      BY <1>2, <1>3, <2>1 DEF Queued
    <3>3. owner[n].who \in Browsers /\ owner[n] = BrowserOf(owner[n].who)
      BY <1>2, <1>3, <1>5, <3>2, OwnersAre, TypesAre DEF Owned
    <3>4. Unanswered(owner[n].who, n)
      BY <2>1, <3>3 DEF Unanswered
    <3> QED
      BY <1>2, <1>3, <1>5, <3>1, <3>3, <3>4 DEF Recorded
  <2>2. Letter("web", "read", n) \in Posted' => Asks(n)
    BY <1>3 DEF Asks
  <2>3. \A e \in {"read", "close"} : Letter("cgi", e, n) \notin Posted'
    BY <1>2, <1>3, <1>5 DEF Queued
  <2>4. \A m \in Socks : m \in S =>
          /\ Letter("web", "read", m) \notin Posted'
          /\ \A e \in {"read", "close"} : Letter("cgi", e, m) \notin Posted'
    BY <1>7, <2>1, <2>2, <2>3
  <2> QED
    BY <1>6, <2>4, ClosesQueued
<1>12. Recorded'
  <2>1. \A k \in Records : web'[k].websocket # NULL => web'[k] = web[k]
    BY <1>8
  <2>2. \A k, l \in Records :
           web'[k].websocket = web'[l].websocket /\ web'[k].websocket # NULL => k = l
    BY <1>2, <2>1 DEF Recorded
  <2>3. \A c \in Browsers, m \in Socks, k \in Records :
           Unanswered(c, m)' /\ web'[k].websocket = m => kind' = "waiting" /\ Quiet(k)'
    <3>1. TAKE c \in Browsers, m \in Socks, k \in Records
    <3>2. HAVE Unanswered(c, m)' /\ web'[k].websocket = m
    <3>3. Unanswered(c, m) /\ web[k].websocket = m
      BY <1>6, <2>1, <3>2, ClosesUnanswered, OwnersAre
    <3>4. kind = "waiting"
      BY <1>2, <3>3 DEF Recorded
    <3> QED
      BY <1>5, <3>4
  <2>4. kind' = "fresh" =>
           \A k \in Records : web'[k].websocket # NULL => owner'[web'[k].websocket].cell = 0
    <3>0. HAVE kind' = "fresh"
    <3>1. TAKE k \in Records
    <3>2. HAVE web'[k].websocket # NULL
    <3>3. web'[k].websocket = web[k].websocket /\ web[k].websocket \in Socks
          /\ owner[web[k].websocket].cell = 0
      BY <1>2, <1>5, <2>1, <3>2, TypesAre DEF Recorded
    <3> QED
      BY <1>9, <3>3, OwnersAre
  <2> QED
    BY <1>1, <1>5, <2>2, <2>3, <2>4 DEF Recorded
<1>13. CellsRight'
  <2>1. ASSUME NEW k \in Records, NEW j \in Cells, web'[k].clients[j].active
        PROVE  /\ web[k].clients[j].active
               /\ web'[k].clients[j].clifd = web[k].clients[j].clifd
               /\ web'[k].websocket = web[k].websocket
               /\ web[k].clients[j].clifd \notin S /\ web[k].websocket \notin S
    <3>1. k \notin Z
      BY <1>8, <2>1
    <3>2. web'[k] = web[k]
      BY <1>8, <3>1
    <3>3. web[k].clients[j].clifd # n
      BY <1>2, <1>5, <2>1, <3>2, OwnersAre DEF CellsRight
    <3> QED
      BY <1>4, <1>7, <2>1, <3>1, <3>2, <3>3
  <2> QED
    BY <1>6, <2>1, ClosesCells
<1>14. ServedHave'
  <2>1. ASSUME NEW c \in Browsers, NEW k \in Records,
               page[c] = "served", page'[c] = "served", PageOf(c, k)
        PROVE  PageOf(c, k)'
    <3>1. web[k].websocket # NULL /\ owner[web[k].websocket] = BrowserOf(c)
      BY <2>1 DEF PageOf
    <3>2. web[k].websocket # n
      BY <1>5, <2>1, <3>1, OwnersAre
    <3>3. web'[k] = web[k]
      BY <1>4, <1>8, <3>2
    <3>4. owner'[web[k].websocket] = owner[web[k].websocket]
      BY <1>2, <1>7, <1>9, <3>1, <3>2, TypesAre
    <3>5. \A m \in Socks : Ends(m) => Ends(m)'
      BY <1>1, <1>3, LetterParts DEF Ends, Letter
    <3>6. \A j \in Cells : web[k].clients[j].active => web[k].clients[j].clifd \in Socks
      BY <1>2, TypesAre DEF CellsRight
    <3>7. Quiet(k)' = Quiet(k)
      BY <3>3 DEF Quiet
    <3> QED
      BY <1>1, <2>1, <3>1, <3>3, <3>4, <3>5, <3>6, <3>7 DEF PageOf, BrowserOf
  <2> QED
    BY <1>6, <2>1, ClosesServed
<1>15. WinTypeOK' /\ kind' # "any"
  BY <1>1, <1>2, <1>3, <1>6, <1>8 DEF WinIInv, WinTypeOK
<1> QED
  BY <1>3, <1>10, <1>11, <1>12, <1>13, <1>14, <1>15 DEF WinIInv

LEMMA CgiCloseStep ==
    ASSUME WinIInv, CgiClose
    PROVE  WinIInv'
<1> DEFINE n == Head(queue).sock
           i == map[n]
           W == Working(i, n)
           w == web[i].websocket
           e == check_end(i, W)
           S == (IF W # {} THEN {n} ELSE {}) \union (IF e THEN {w} ELSE {})
<1>1. /\ Is("cgi", "close") /\ map[n] # 0 /\ Shut(S) /\ queue' = Tail(queue) /\ queue # <<>>
      /\ kind' = kind /\ map' = map /\ asked' = asked /\ host' = host /\ overrun' = overrun
      /\ Head(queue).about = "cgi" /\ Head(queue).event = "close"
      /\ web' = [web EXCEPT ![i].clients = [j \in Cells |-> IF j \in W THEN NoClient ELSE @[j]]]
  BY DEF CgiClose, Is
<1>2. WinTypeOK /\ Owned /\ Queued /\ Recorded /\ CellsRight /\ ServedHave
  BY DEF WinIInv
<1>3. /\ queue' \in Seq(Message) /\ OrderlyIn(queue)'
      /\ n \in Socks /\ Head(queue) = Letter("cgi", "close", n) /\ Head(queue) \in Posted
      /\ \A x \in Posted : x = Head(queue) \/ x \in Posted'
      /\ \A x \in Posted' : x \in Posted /\ ~(x.about = "cgi" /\ x.sock = n)
  BY <1>1, TakenHere DEF OrderlyIn
<1>4. /\ i \in Records /\ i = map[n]
      /\ \A j \in Cells : j \in W <=> web[i].clients[j] = [clifd |-> n, active |-> TRUE]
      /\ e <=> \A j \in Cells : web[i].clients[j].active => j \in W
      /\ W \subseteq Cells
      /\ w = web[i].websocket
  BY <1>1, <1>2, <1>3, TypesAre, OwnersAre DEF Working, check_end
<1> HIDE DEF n, i, W, w, e
<1>5. \A m \in S : (m = n /\ W # {}) \/ (m = w /\ e)
  <2>1. CASE e
    BY <2>1
  <2>2. CASE ~e
    BY <2>2
  <2> QED
    BY <2>1, <2>2
<1>6. (W # {} => n \in S) /\ (e => w \in S)
  OBVIOUS
<1> HIDE DEF S
<1>7. owner[n].cell # 0 /\ owner[n].cell \in Cells /\ host[owner[n].who][owner[n].cell] = "ended"
  BY <1>2, <1>3, TypesAre, OwnersAre DEF Queued, Ends
<1>8. \A j \in Cells : j \in W =>
          /\ web[i].clients[j].active /\ web[i].clients[j].clifd = n /\ owner[n].cell = j
          /\ w \in Socks /\ owner[w] = BrowserOf(owner[n].who)
  BY <1>2, <1>4, TypesAre DEF CellsRight
<1>9. \A k \in Records, j \in Cells : web[k].clients[j].active /\ web[k].clients[j].clifd = n
          => k = i /\ j \in W
  <2>1. TAKE k \in Records, j \in Cells
  <2>2. HAVE web[k].clients[j].active /\ web[k].clients[j].clifd = n
  <2>3. k = i
    BY <1>2, <1>4, <2>2 DEF CellsRight
  <2>4. web[k].clients[j] \in Client
    BY <1>2 DEF WinTypeOK
  <2>5. web[k].clients[j] = [clifd |-> n, active |-> TRUE]
    BY <2>2, <2>4 DEF Client
  <2> QED
    BY <1>4, <2>3, <2>5
<1>10. kind = "waiting" => W # {}
  BY <1>2, <1>3, <1>4, <1>7 DEF Recorded
<1>11. w \in Socks /\ e => owner[w].cell = 0
  <2>1. CASE W # {}
    BY <1>4, <1>8, <2>1, OwnersAre
  <2>2. CASE W = {} /\ w \in Socks
    <3>1. kind = "fresh"
      BY <1>2, <1>10, <2>2, WinSockServerAssumption DEF WinIInv, WinTypeOK, AllKinds
    <3>2. w # NULL
      BY <2>2, OwnersAre
    <3> QED
      BY <1>2, <1>4, <3>1, <3>2 DEF Recorded
  <2> QED
    BY <2>1, <2>2
<1>12. S \subseteq Socks \union {NULL}
  BY <1>2, <1>3, <1>4, <1>5, TypesAre
<1>13. /\ Closes(S) /\ owner' \in [Socks -> Owners] /\ unread' \subseteq Socks
       /\ page' \in [Browsers -> {"away", "accepted", "asked", "served", "done", "left"}]
  BY <1>1, <1>2, <1>12, ShutIs
<1>14. \A m \in Socks : owner'[m] = IF m \in S THEN Free ELSE owner[m]
  BY <1>13 DEF Closes
<1>15. /\ web' \in [Records -> [websocket : Socks \union {NULL}, clients : [Cells -> Client]]]
       /\ \A k \in Records : web'[k].websocket = web[k].websocket
       /\ \A k \in Records, j \in Cells : k = i /\ j \in W => ~web'[k].clients[j].active
       /\ \A k \in Records, j \in Cells : ~(k = i /\ j \in W) => web'[k].clients[j] = web[k].clients[j]
  <2> DEFINE cs == [j \in Cells |-> IF j \in W THEN NoClient ELSE web[i].clients[j]]
  <2>1. web \in [Records -> [websocket : Socks \union {NULL}, clients : [Cells -> Client]]]
    BY <1>2 DEF WinTypeOK
  <2>2. web' = [web EXCEPT ![i].clients = cs]
    BY <1>1
  <2>3. /\ cs \in [Cells -> Client]
        /\ \A j \in Cells : j \in W => ~cs[j].active
        /\ \A j \in Cells : j \notin W => cs[j] = web[i].clients[j]
    BY <1>4, <2>1 DEF NoClient, Client
  <2> HIDE DEF cs
  <2>4. /\ web' \in [Records -> [websocket : Socks \union {NULL}, clients : [Cells -> Client]]]
        /\ web'[i].websocket = web[i].websocket /\ web'[i].clients = cs
        /\ \A k \in Records : k # i => web'[k] = web[k]
    BY <1>4, <2>1, <2>2, <2>3
  <2> QED
    BY <1>4, <2>3, <2>4
<1>16. \A k \in Records, j \in Cells : web'[k].clients[j].active =>
           web[k].clients[j].active /\ ~(k = i /\ j \in W) /\ web'[k].clients[j] = web[k].clients[j]
  BY <1>15
<1>17. Owned'
  BY <1>13, ClosesOwned
<1>18. Queued'
  <2>1. ASSUME NEW m \in Socks, m \in S
        PROVE  /\ Letter("web", "read", m) \notin Posted'
               /\ \A a \in {"read", "close"} : Letter("cgi", a, m) \notin Posted'
    <3>1. CASE m = n /\ W # {}
      BY <1>2, <1>3, <1>7, <3>1, LetterParts DEF Queued, Asks
    <3>2. CASE m = w /\ e
      <4>1. owner[m].cell = 0
        BY <1>11, <2>1, <3>2
      <4>2. \A a \in {"read", "close"} : Letter("cgi", a, m) \notin Posted'
        BY <1>2, <1>3, <2>1, <4>1 DEF Queued
      <4>3. ASSUME Asks(m) PROVE FALSE
        <5>1. owner[m] # Free
          BY <1>2, <2>1, <4>3 DEF Queued
        <5>2. owner[m].who \in Browsers /\ owner[m] = BrowserOf(owner[m].who)
          BY <1>2, <2>1, <4>1, <5>1, OwnersAre, TypesAre DEF Owned
        <5>3. Unanswered(owner[m].who, m)
          BY <4>3, <5>2 DEF Unanswered
        <5>4. kind = "waiting" /\ Quiet(i)
          BY <1>2, <1>4, <2>1, <3>2, <5>2, <5>3 DEF Recorded
        <5> QED
          BY <1>4, <1>8, <1>10, <5>4 DEF Quiet
      <4> QED
        BY <1>3, <4>2, <4>3 DEF Asks
    <3> QED
      BY <1>5, <2>1, <3>1, <3>2
  <2> QED
    BY <1>13, <2>1, ClosesQueued
<1>19. Recorded'
  <2>1. \A k, l \in Records :
           web'[k].websocket = web'[l].websocket /\ web'[k].websocket # NULL => k = l
    BY <1>2, <1>15 DEF Recorded
  <2>2. \A c \in Browsers, m \in Socks, k \in Records :
           Unanswered(c, m)' /\ web'[k].websocket = m => kind' = "waiting" /\ Quiet(k)'
    <3>1. TAKE c \in Browsers, m \in Socks, k \in Records
    <3>2. HAVE Unanswered(c, m)' /\ web'[k].websocket = m
    <3>3. Unanswered(c, m) /\ web[k].websocket = m
      BY <1>13, <1>15, <3>2, ClosesUnanswered
    <3>4. kind = "waiting" /\ Quiet(k)
      BY <1>2, <3>3 DEF Recorded
    <3> QED
      BY <1>1, <1>16, <3>4 DEF Quiet
  <2>3. kind' = "fresh" =>
           \A k \in Records : web'[k].websocket # NULL => owner'[web'[k].websocket].cell = 0
    <3>1. HAVE kind' = "fresh"
    <3>2. TAKE k \in Records
    <3>3. HAVE web'[k].websocket # NULL
    <3>4. web'[k].websocket = web[k].websocket /\ web[k].websocket \in Socks
          /\ owner[web[k].websocket].cell = 0
      BY <1>1, <1>2, <1>15, <3>1, <3>3, TypesAre DEF Recorded
    <3> QED
      BY <1>14, <3>4, OwnersAre
  <2>4. kind' = "waiting" =>
           \A m \in Socks : owner'[m].cell # 0 =>
              web'[map'[m]].clients[owner'[m].cell] = [clifd |-> m, active |-> TRUE]
    <3>1. HAVE kind' = "waiting"
    <3>2. TAKE m \in Socks
    <3>3. HAVE owner'[m].cell # 0
    <3>4. owner'[m] = owner[m] /\ m \notin S
      BY <1>14, <3>3, OwnersAre
    <3>5. map[m] # 0 /\ map[m] \in Records /\ owner[m].cell \in Cells
      BY <1>2, <3>3, <3>4, OwnersAre, TypesAre DEF Owned
    <3>6. web[map[m]].clients[owner[m].cell] = [clifd |-> m, active |-> TRUE]
      BY <1>1, <1>2, <3>1, <3>3, <3>4 DEF Recorded
    <3>7. ~(map[m] = i /\ owner[m].cell \in W)
      BY <1>6, <1>8, <3>4, <3>5, <3>6
    <3> QED
      BY <1>1, <1>15, <3>4, <3>5, <3>6, <3>7
  <2> QED
    BY <2>1, <2>2, <2>3, <2>4 DEF Recorded
<1>20. CellsRight'
  <2>1. ASSUME NEW k \in Records, NEW j \in Cells, web'[k].clients[j].active
        PROVE  /\ web[k].clients[j].active
               /\ web'[k].clients[j].clifd = web[k].clients[j].clifd
               /\ web'[k].websocket = web[k].websocket
               /\ web[k].clients[j].clifd \notin S /\ web[k].websocket \notin S
    <3>1. web[k].clients[j].active /\ ~(k = i /\ j \in W)
          /\ web'[k].clients[j] = web[k].clients[j] /\ web'[k].websocket = web[k].websocket
      BY <1>15, <1>16, <2>1
    <3>2. /\ web[k].clients[j].clifd \in Socks /\ web[k].websocket \in Socks
          /\ owner[web[k].clients[j].clifd].cell = j /\ j # 0
          /\ owner[web[k].websocket].cell = 0
      BY <1>2, <3>1, TypesAre, OwnersAre DEF CellsRight
    <3>3. web[k].clients[j].clifd # n
      BY <1>9, <3>1
    <3>4. web[k].clients[j].clifd \notin S
      BY <1>5, <1>11, <3>2, <3>3
    <3>5. web[k].websocket # n
      BY <1>7, <3>2
    <3>6. ~(web[k].websocket = w /\ e)
      <4>1. SUFFICES ASSUME web[k].websocket = w, e
                     PROVE  FALSE
        OBVIOUS
      <4>2. k = i
        BY <1>2, <1>4, <3>2, <4>1, OwnersAre DEF Recorded
      <4> QED
        BY <1>4, <3>1, <4>1, <4>2
    <3> QED
      BY <1>5, <3>1, <3>4, <3>5, <3>6
  <2> QED
    BY <1>13, <2>1, ClosesCells
<1>21. ServedHave'
  <2>1. ASSUME NEW c \in Browsers, NEW k \in Records,
               page[c] = "served", page'[c] = "served", PageOf(c, k)
        PROVE  PageOf(c, k)'
    <3>1. web[k].websocket \in Socks /\ web[k].websocket # NULL /\ owner[web[k].websocket] = BrowserOf(c)
      BY <1>2, <2>1, TypesAre DEF PageOf
    <3>2. web[k].websocket \notin S
      BY <1>13, <2>1, <3>1, ClosesOther
    <3>3. web'[k].websocket = web[k].websocket /\ owner'[web[k].websocket] = owner[web[k].websocket]
      BY <1>14, <1>15, <3>1, <3>2
    <3>4. k = i => ~e
      BY <1>4, <1>6, <3>2
    <3>5. \A m \in Socks : m # n /\ Ends(m) => Ends(m)'
      BY <1>3, LetterParts DEF Ends, Letter
    <3>6. \A j \in Cells : host[c][j] \in {"on", "refused"} => web'[k].clients[j].active
      <4>1. TAKE j \in Cells
      <4>2. HAVE host[c][j] \in {"on", "refused"}
      <4>3. web[k].clients[j].active
        BY <2>1, <4>2 DEF PageOf
      <4>4. ASSUME k = i, j \in W PROVE FALSE
        <5>1. owner[n].cell = j /\ owner[w] = BrowserOf(owner[n].who) /\ owner[w] = BrowserOf(c)
          BY <1>4, <1>8, <3>1, <4>4
        <5>2. owner[n].who = c
          BY <5>1 DEF BrowserOf
        <5> QED
          BY <1>7, <4>2, <5>1, <5>2
      <4> QED
        BY <1>15, <4>3, <4>4
    <3>7. \A j \in Cells : web'[k].clients[j].active =>
             host[c][j] # "none" /\ (host[c][j] = "ended" => Ends(web[k].clients[j].clifd)')
      <4>1. TAKE j \in Cells
      <4>2. HAVE web'[k].clients[j].active
      <4>3. web[k].clients[j].active /\ ~(k = i /\ j \in W) /\ web'[k].clients[j] = web[k].clients[j]
        BY <1>16, <4>2
      <4>4. web[k].clients[j].clifd # n /\ web[k].clients[j].clifd \in Socks
        BY <1>2, <1>9, <4>3, TypesAre DEF CellsRight
      <4> QED
        BY <2>1, <3>5, <4>3, <4>4 DEF PageOf
    <3>8. Quiet(k)' => Quiet(k)
      BY <1>4, <1>15, <3>4 DEF Quiet
    <3> QED
      BY <1>1, <2>1, <3>1, <3>3, <3>6, <3>7, <3>8 DEF PageOf, BrowserOf
  <2> QED
    BY <1>13, <2>1, ClosesServed
<1>22. WinTypeOK' /\ kind' # "any"
  BY <1>1, <1>2, <1>3, <1>13, <1>15 DEF WinIInv, WinTypeOK
<1> QED
  BY <1>3, <1>17, <1>18, <1>19, <1>20, <1>21, <1>22 DEF WinIInv

-----------------------------------------------------------------------------
(* The handler that opens sockets.                                         *)

(* Nothing in the queue is about a number that is not in use.              *)
LEMMA UnusedIs ==
    ASSUME WinIInv, NEW c \in Unused
    PROVE  /\ c \in Socks /\ owner[c] = Free
           /\ \A a, e : Letter(a, e, c) \in Posted =>
                 ~(a \in {"web", "cgi"} /\ e \in {"read", "close"})
           /\ kind = "fresh" => \A i \in Records : web[i].websocket # c
<1>1. c \in Socks /\ owner[c] = Free /\ (kind = "fresh" => c \notin Known)
  BY DEF Unused
<1>2. Queued
  BY DEF WinIInv
<1>3. \A a, e : Letter(a, e, c) \in Posted => c \in {queue[k].sock : k \in DOMAIN queue}
  <2>1. TAKE a, e
  <2>2. HAVE Letter(a, e, c) \in Posted
  <2>3. PICK k \in DOMAIN queue : queue[k] = Letter(a, e, c)
    BY <2>2 DEF Posted, In
  <2>4. queue[k].sock = c
    BY <2>3, LetterParts
  <2> QED
    BY <2>4
<1>4. kind = "fresh" => \A a, e : Letter(a, e, c) \notin Posted
  BY <1>1, <1>3 DEF Known
<1>5. /\ Letter("web", "read", c) \notin Posted /\ Letter("web", "close", c) \notin Posted
      /\ Letter("cgi", "read", c) \notin Posted /\ Letter("cgi", "close", c) \notin Posted
  BY <1>1, <1>2, <1>4, OwnersAre DEF Queued, Asks
<1>6. kind = "fresh" => \A i \in Records : web[i].websocket # c
  BY <1>1 DEF Known
<1> QED
  BY <1>1, <1>5, <1>6

LEMMA StartBatchStep ==
    ASSUME WinIInv, StartBatch
    PROVE  WinIInv'
<1> DEFINE n == Head(queue).sock
           i == Index(n)
           b == owner[n].who
<1>1. /\ Is("web", "read") /\ i <= MaxConn /\ queue' = Tail(queue) /\ queue # <<>>
      /\ kind' = kind /\ asked' = asked /\ overrun' = overrun /\ unread' = unread \ {n}
      /\ Head(queue).about = "web" /\ Head(queue).event = "read"
  BY DEF StartBatch, Is
<1>2. WinTypeOK /\ Owned /\ Queued /\ Recorded /\ CellsRight /\ ServedHave
  BY DEF WinIInv
<1>3. /\ n \in Socks /\ Asks(n) /\ Head(queue) = Letter("web", "read", n)
      /\ b \in Browsers /\ owner[n] = BrowserOf(b) /\ owner[n].cell = 0
      /\ page[b] \in {"asked", "left"} /\ Unanswered(b, n)
      /\ i \in Records /\ Quiet(i) /\ web[i].websocket \in {n, NULL}
      /\ \A k \in Records : web[k].websocket = n => k = i
  BY <1>1, AskedBy
<1> DEFINE wanted(r) == {j \in Cells : r.hosts[j] # "none"}
           asker == IF owner[n].cell = 0 THEN owner[n].who ELSE NoBody
<1>4. PICK r \in Received(n) : \E new \in [wanted(r) -> Unused] :
         /\ \A j, k \in wanted(r) : j # k => new[j] # new[k]
         /\ web' = [web EXCEPT ![i] =
               [websocket |-> n,
                clients |-> [j \in Cells |->
                   IF j \in wanted(r) THEN [clifd |-> new[j], active |-> TRUE]
                   ELSE [web[i].clients[j] EXCEPT !.active = FALSE]]]]
         /\ map' = Entered({new[j] : j \in wanted(r)}, i)
         /\ owner' = [c \in Socks |->
               IF \E j \in wanted(r) : new[j] = c
               THEN [who |-> asker, cell |-> CHOOSE j \in wanted(r) : new[j] = c]
               ELSE owner[c]]
         /\ host' = [host EXCEPT ![asker] = r.hosts]
         /\ page' = [a \in Browsers |-> IF a = asker /\ page[a] = "asked" THEN "served" ELSE page[a]]
  BY Zenon DEF StartBatch
<1> DEFINE want == wanted(r)
<1>4a. asker = b
  BY <1>3
<1>5. PICK new \in [want -> Unused] :
         /\ \A j, k \in want : j # k => new[j] # new[k]
         /\ web' = [web EXCEPT ![i] =
               [websocket |-> n,
                clients |-> [j \in Cells |->
                   IF j \in want THEN [clifd |-> new[j], active |-> TRUE]
                   ELSE [web[i].clients[j] EXCEPT !.active = FALSE]]]]
         /\ map' = Entered({new[j] : j \in want}, i)
         /\ owner' = [c \in Socks |->
               IF \E j \in want : new[j] = c
               THEN [who |-> asker, cell |-> CHOOSE j \in want : new[j] = c]
               ELSE owner[c]]
         /\ host' = [host EXCEPT ![asker] = r.hosts]
         /\ page' = [a \in Browsers |-> IF a = asker /\ page[a] = "asked" THEN "served" ELSE page[a]]
  BY <1>4
<1> DEFINE G == {new[j] : j \in want}
<1> HIDE DEF n, i, b, asker
<1>6. r \in AllQueries
  <2>1. asked[b] \in AllQueries /\ Queries \subseteq AllQueries
    BY <1>2, <1>3, WinSockServerAssumption DEF WinTypeOK
  <2>2. r \in {asked[owner[n].who]} \union Queries
    BY DEF Received
  <2> QED
    BY <2>1, <2>2 DEF b
<1>7. /\ r.hosts \in [Cells -> Answers] /\ want \subseteq Cells
      /\ \A j \in Cells : j \in want <=> r.hosts[j] # "none"
  BY <1>6 DEF AllQueries
<1> HIDE DEF want
<1>8. /\ \A j \in want : new[j] \in G /\ new[j] \in Unused
      /\ \A c \in G : \E j \in want : c = new[j]
      /\ \A c : (\E j \in want : new[j] = c) <=> c \in G
  BY <1>5
<1> HIDE DEF G
<1>9. \A c \in G : /\ c \in Socks /\ owner[c] = Free
                   /\ \A a \in {"web", "cgi"}, e \in {"read", "close"} : Letter(a, e, c) \notin Posted
                   /\ kind = "fresh" => \A k \in Records : web[k].websocket # c
  BY <1>8, UnusedIs
<1>10. /\ \A j \in want : owner'[new[j]] = [who |-> b, cell |-> j]
       /\ \A c \in Socks : c \notin G => owner'[c] = owner[c]
  <2>1. \A c \in Socks : owner'[c] = IF c \in G THEN [who |-> b, cell |-> CHOOSE j \in want : new[j] = c]
                                     ELSE owner[c]
    BY <1>4a, <1>5, <1>8
  <2>2. ASSUME NEW j \in want
        PROVE  (CHOOSE k \in want : new[k] = new[j]) = j
    BY <1>5
  <2> QED
    BY <1>8, <1>9, <2>1, <2>2
<1>11. \A c \in Socks : map'[c] = IF c \in G THEN i ELSE map[c]
  BY <1>5 DEF Entered, G
<1>12. host'[b] = r.hosts /\ \A a \in Browsers \union {NoBody} : a # b => host'[a] = host[a]
  BY <1>2, <1>3, <1>4a, <1>5 DEF WinTypeOK
<1>13. \A a \in Browsers : page'[a] = IF a = b /\ page[a] = "asked" THEN "served" ELSE page[a]
  BY <1>4a, <1>5
<1>14. /\ web' \in [Records -> [websocket : Socks \union {NULL}, clients : [Cells -> Client]]]
       /\ web'[i].websocket = n
       /\ \A j \in want : /\ web'[i].clients[j] = [clifd |-> new[j], active |-> TRUE]
                          /\ web'[i].clients[j].clifd = new[j] /\ web'[i].clients[j].active
       /\ \A j \in Cells : j \notin want => ~web'[i].clients[j].active
       /\ \A k \in Records : k # i => web'[k] = web[k]
  <2> DEFINE cs == [j \in Cells |-> IF j \in want THEN [clifd |-> new[j], active |-> TRUE]
                                    ELSE [web[i].clients[j] EXCEPT !.active = FALSE]]
  <2>1. web \in [Records -> [websocket : Socks \union {NULL}, clients : [Cells -> Client]]]
    BY <1>2 DEF WinTypeOK
  <2>2. web' = [web EXCEPT ![i] = [websocket |-> n, clients |-> cs]]
    BY <1>5
  <2>0. \A x \in Client : [x EXCEPT !.active = FALSE] \in Client /\ ~[x EXCEPT !.active = FALSE].active
    BY DEF Client
  <2>3. \A j \in Cells : /\ [web[i].clients[j] EXCEPT !.active = FALSE] \in Client
                         /\ ~[web[i].clients[j] EXCEPT !.active = FALSE].active
    <3>1. \A j \in Cells : web[i].clients[j] \in Client
      BY <1>3, <2>1
    <3> QED
      BY <2>0, <3>1
  <2>4. \A j \in want : [clifd |-> new[j], active |-> TRUE] \in Client
    BY <1>8, <1>9 DEF Client
  <2>5. /\ cs \in [Cells -> Client]
        /\ \A j \in want : cs[j] = [clifd |-> new[j], active |-> TRUE]
        /\ \A j \in Cells : j \notin want => ~cs[j].active
    BY <1>7, <2>3, <2>4
  <2> HIDE DEF cs
  <2> DEFINE rec == [websocket |-> n, clients |-> cs]
  <2>6. /\ rec \in [websocket : Socks \union {NULL}, clients : [Cells -> Client]]
        /\ rec.websocket = n /\ rec.clients = cs
    BY <1>3, <2>5
  <2> HIDE DEF rec
  <2>7. web' = [web EXCEPT ![i] = rec]
    BY <2>2 DEF rec
  <2>8. /\ web' \in [Records -> [websocket : Socks \union {NULL}, clients : [Cells -> Client]]]
        /\ web'[i] = rec
        /\ \A k \in Records : k # i => web'[k] = web[k]
    BY <1>3, <2>1, <2>6, <2>7
  <2> QED
    BY <2>5, <2>6, <2>8
<1>15. /\ queue' \in Seq(Message) /\ OrderlyIn(queue)'
       /\ \A x \in Posted : x = Head(queue) \/ x \in Posted'
       /\ Letter("web", "read", n) \notin Posted'
       /\ \A x \in Posted' : x \in Posted
  BY <1>1, <1>3, TakenHere DEF OrderlyIn
<1>16. \A c \in G : /\ owner'[c].who = b /\ owner'[c].cell # 0
                    /\ owner'[c].cell \in want /\ c = new[owner'[c].cell]
                    /\ owner'[c] = [who |-> b, cell |-> owner'[c].cell]
  <2>1. TAKE c \in G
  <2>2. PICK j \in want : c = new[j]
    BY <1>8
  <2>3. owner'[c] = [who |-> b, cell |-> j]
    BY <1>10, <2>2
  <2>4. owner'[c].who = b /\ owner'[c].cell = j
    BY <2>3
  <2> QED
    BY <1>7, <2>2, <2>3, <2>4, OwnersAre
<1>17. n \notin G /\ owner'[n] = owner[n]
  BY <1>3, <1>9, <1>10, OwnersAre
<1>18. \A c \in Socks : owner[c].who = b => c = n
  BY <1>2, <1>3 DEF Owned
<1>19. \A c \in Browsers, x \in Socks : Unanswered(c, x)' =>
          Unanswered(c, x) /\ x # n /\ c # b /\ x \notin G
  <2>1. TAKE c \in Browsers, x \in Socks
  <2>2. HAVE Unanswered(c, x)'
  <2>3. owner'[x] = BrowserOf(c) /\ (page'[c] = "accepted" \/ Letter("web", "read", x) \in Posted')
    BY <2>2 DEF Unanswered, Asks, BrowserOf
  <2>4. x \notin G
    <3>1. owner'[x].cell = 0
      BY <2>3 DEF BrowserOf
    <3> QED
      BY <1>16, <3>1
  <2>5. owner[x] = BrowserOf(c) /\ owner[x].who = c
    BY <1>10, <2>3, <2>4, OwnersAre
  <2>6. page'[c] = "accepted" => page[c] = "accepted" /\ c # b
    BY <1>3, <1>13
  <2>7. Letter("web", "read", x) \in Posted' => Asks(x) /\ x # n
    BY <1>15 DEF Asks
  <2> QED
    BY <1>3, <1>18, <2>3, <2>4, <2>5, <2>6, <2>7, OwnersAre DEF Unanswered
<1>20. Owned'
  <2>1. \A x, y \in Socks : owner'[x] = owner'[y] /\ owner'[x] # Free => x = y
    <3>1. ASSUME NEW x \in G, NEW y \in G, owner'[x] = owner'[y] PROVE x = y
      BY <1>16, <3>1
    <3>2. ASSUME NEW x \in G, NEW y \in Socks, y \notin G, owner'[x] = owner'[y] PROVE FALSE
      <4>1. owner'[x].who = b /\ owner'[x].cell # 0
        BY <1>16
      <4>2. owner[y].who = b /\ owner[y].cell # 0
        BY <1>10, <3>2, <4>1
      <4> QED
        BY <1>3, <1>18, <4>2
    <3>3. ASSUME NEW x \in Socks, NEW y \in Socks, x \notin G, y \notin G,
                 owner'[x] = owner'[y], owner'[x] # Free
          PROVE  x = y
      BY <1>2, <1>10, <3>3 DEF Owned
    <3> QED
      BY <3>1, <3>2, <3>3
  <2>2. \A x \in Socks : owner'[x].who = NoBody => owner'[x] = Free
    <3>1. TAKE x \in Socks
    <3>2. x \in G => owner'[x].who # NoBody
      BY <1>3, <1>16, OwnersAre
    <3> QED
      BY <1>2, <1>10, <3>2 DEF Owned
  <2>3. \A x \in Socks : owner'[x] # Free => page'[owner'[x].who] # "away"
    <3>1. TAKE x \in Socks
    <3>2. HAVE owner'[x] # Free
    <3>3. x \in G => owner'[x].who = b
      BY <1>16
    <3>4. x \notin G => owner'[x].who \in Browsers /\ page[owner'[x].who] # "away"
      BY <1>2, <1>10, <3>2, TypesAre DEF Owned
    <3> QED
      BY <1>3, <1>13, <3>3, <3>4
  <2>4. \A x \in Socks : owner'[x].cell # 0 => map'[x] # 0
    BY <1>2, <1>3, <1>10, <1>11, OwnersAre DEF Owned
  <2>5. \A x, y \in Socks, c \in Browsers : Unanswered(c, x)' /\ owner'[y].who = c => y = x
    <3>1. TAKE x, y \in Socks, c \in Browsers
    <3>2. HAVE Unanswered(c, x)' /\ owner'[y].who = c
    <3>3. Unanswered(c, x) /\ c # b
      BY <1>19, <3>2
    <3>4. y \notin G
      BY <1>16, <3>2, <3>3
    <3>5. owner[y].who = c
      BY <1>10, <3>2, <3>4
    <3> QED
      BY <1>2, <3>3, <3>5 DEF Owned
  <2> QED
    BY <2>1, <2>2, <2>3, <2>4, <2>5 DEF Owned
<1>21. Queued'
  <2>1. \A x \in Socks, a \in {"web", "cgi"}, e \in {"read", "close"} :
           Letter(a, e, x) \in Posted' => Letter(a, e, x) \in Posted /\ owner'[x] = owner[x]
    BY <1>9, <1>10, <1>15
  <2>2. \A x \in Socks : Asks(x)' =>
           /\ owner'[x].cell = 0 /\ owner'[x] # Free
           /\ page'[owner'[x].who] \in {"asked", "left"}
    <3>1. TAKE x \in Socks
    <3>2. HAVE Asks(x)'
    <3>3. Letter("web", "read", x) \in Posted' /\ x # n
      BY <1>15, <3>2 DEF Asks, Letter
    <3>4. /\ Asks(x) /\ owner'[x] = owner[x]
          /\ owner[x].cell = 0 /\ owner[x] # Free /\ page[owner[x].who] \in {"asked", "left"}
      BY <1>2, <2>1, <3>3 DEF Asks, Queued
    <3>5. owner[x].who # b /\ owner[x].who \in Browsers
      BY <1>2, <1>18, <3>3, <3>4, TypesAre DEF Owned
    <3> QED
      BY <1>13, <3>4, <3>5
  <2>3. \A x \in Socks : Letter("web", "close", x) \in Posted' =>
           /\ kind' = "fresh"
           /\ owner'[x] # Free => owner'[x].cell = 0 /\ page'[owner'[x].who] = "left"
    <3>1. TAKE x \in Socks
    <3>2. HAVE Letter("web", "close", x) \in Posted'
    <3>3. /\ owner'[x] = owner[x] /\ kind = "fresh"
          /\ owner[x] # Free => owner[x].cell = 0 /\ page[owner[x].who] = "left"
      BY <1>2, <2>1, <3>2 DEF Queued
    <3>4. owner[x] # Free => owner[x].who \in Browsers
      BY <1>2, TypesAre DEF Owned
    <3> QED
      BY <1>1, <1>13, <3>3, <3>4
  <2>4. \A x \in Socks, e \in {"read", "close"} :
           Letter("cgi", e, x) \in Posted' => owner'[x].cell # 0
    BY <1>2, <2>1 DEF Queued
  <2>5. \A x \in Socks : Ends(x)' => host'[owner'[x].who][owner'[x].cell] = "ended"
    <3>1. TAKE x \in Socks
    <3>2. HAVE Ends(x)'
    <3>3. Letter("cgi", "close", x) \in Posted'
      BY <3>2 DEF Ends, Letter
    <3>4. owner'[x] = owner[x] /\ Ends(x) /\ owner[x].cell # 0
          /\ host[owner[x].who][owner[x].cell] = "ended"
      BY <1>2, <2>1, <3>3 DEF Queued, Ends
    <3>5. owner[x].who # b /\ owner[x].who \in Browsers \union {NoBody}
      BY <1>2, <1>3, <1>18, <3>4, TypesAre
    <3> QED
      BY <1>12, <3>4, <3>5
  <2> QED
    BY <2>2, <2>3, <2>4, <2>5 DEF Queued
<1>22. Recorded'
  <2>1. \A k, l \in Records :
           web'[k].websocket = web'[l].websocket /\ web'[k].websocket # NULL => k = l
    BY <1>2, <1>3, <1>14 DEF Recorded
  <2>2. \A c \in Browsers, x \in Socks, k \in Records :
           Unanswered(c, x)' /\ web'[k].websocket = x => kind' = "waiting" /\ Quiet(k)'
    <3>1. TAKE c \in Browsers, x \in Socks, k \in Records
    <3>2. HAVE Unanswered(c, x)' /\ web'[k].websocket = x
    <3>3. Unanswered(c, x) /\ x # n
      BY <1>19, <3>2
    <3>4. k # i /\ web'[k] = web[k]
      BY <1>14, <3>2, <3>3
    <3>5. kind = "waiting" /\ Quiet(k)
      BY <1>2, <3>2, <3>3, <3>4 DEF Recorded
    <3> QED
      BY <1>1, <3>4, <3>5 DEF Quiet
  <2>3. kind' = "fresh" =>
           \A k \in Records : web'[k].websocket # NULL => owner'[web'[k].websocket].cell = 0
    <3>1. HAVE kind' = "fresh"
    <3>2. TAKE k \in Records
    <3>3. HAVE web'[k].websocket # NULL
    <3>4. CASE k = i
      BY <1>3, <1>14, <1>17, <3>4
    <3>5. CASE k # i
      <4>1. web'[k].websocket = web[k].websocket /\ web[k].websocket \in Socks
            /\ owner[web[k].websocket].cell = 0
        BY <1>1, <1>2, <1>14, <3>1, <3>3, <3>5, TypesAre DEF Recorded
      <4>2. web[k].websocket \notin G
        BY <1>1, <1>9, <3>1
      <4> QED
        BY <1>10, <4>1, <4>2
    <3> QED
      BY <3>4, <3>5
  <2>4. kind' = "waiting" =>
           \A x \in Socks : owner'[x].cell # 0 =>
              web'[map'[x]].clients[owner'[x].cell] = [clifd |-> x, active |-> TRUE]
    <3>1. HAVE kind' = "waiting"
    <3>2. TAKE x \in Socks
    <3>3. HAVE owner'[x].cell # 0
    <3>4. CASE x \in G
      <4>1. owner'[x].cell \in want /\ x = new[owner'[x].cell]
        BY <1>16, <3>4
      <4>2. map'[x] = i
        BY <1>11, <3>4
      <4> QED
        BY <1>14, <4>1, <4>2
    <3>5. CASE x \notin G
      <4>1. owner'[x] = owner[x] /\ map'[x] = map[x]
        BY <1>10, <1>11, <3>5
      <4>2. map[x] # 0 /\ map[x] \in Records /\ owner[x].cell \in Cells
        BY <1>2, <3>3, <4>1, OwnersAre, TypesAre DEF Owned
      <4>3. web[map[x]].clients[owner[x].cell] = [clifd |-> x, active |-> TRUE]
        BY <1>1, <1>2, <3>1, <3>3, <4>1 DEF Recorded
      <4>4. map[x] # i
        BY <1>3, <4>2, <4>3 DEF Quiet
      <4> QED
        BY <1>14, <4>1, <4>2, <4>3, <4>4
    <3> QED
      BY <3>4, <3>5
  <2> QED
    BY <2>1, <2>2, <2>3, <2>4 DEF Recorded
<1>23. CellsRight'
  <2> SUFFICES ASSUME NEW k \in Records, NEW j \in Cells, web'[k].clients[j].active
               PROVE  /\ web'[k].clients[j].clifd # NULL /\ web'[k].websocket # NULL
                      /\ map'[web'[k].clients[j].clifd] = k
                      /\ owner'[web'[k].clients[j].clifd].cell = j
                      /\ owner'[web'[k].websocket] = BrowserOf(owner'[web'[k].clients[j].clifd].who)
    BY DEF CellsRight, BrowserOf
  <2>1. CASE k = i
    <3>1. j \in want /\ web'[k].clients[j].clifd = new[j]
      BY <1>14, <2>1
    <3>2. new[j] \in G /\ new[j] \in Socks /\ owner'[new[j]] = [who |-> b, cell |-> j]
      BY <1>8, <1>9, <1>10, <3>1
    <3> QED
      BY <1>3, <1>11, <1>14, <1>17, <2>1, <3>1, <3>2, OwnersAre
  <2>2. CASE k # i
    <3> DEFINE c == web[k].clients[j].clifd
               w == web[k].websocket
    <3>1. web'[k] = web[k] /\ web[k].clients[j].active
      BY <1>14, <2>2
    <3>2. /\ c # NULL /\ w # NULL /\ map[c] = k /\ owner[c].cell = j
          /\ owner[w] = BrowserOf(owner[c].who) /\ c \in Socks /\ w \in Socks
      BY <1>2, <3>1, TypesAre DEF CellsRight
    <3>3. owner[c] # Free /\ owner[c].who # NoBody
      BY <1>2, <3>2, OwnersAre DEF Owned
    <3>4. owner[w] # Free
      BY <3>2, <3>3, OwnersAre
    <3>5. c \notin G /\ w \notin G
      BY <1>9, <3>3, <3>4
    <3> QED
      BY <1>10, <1>11, <3>1, <3>2, <3>5
  <2> QED
    BY <2>1, <2>2
<1>24. ServedHave'
  <2> SUFFICES ASSUME NEW c \in Browsers, page'[c] = "served"
               PROVE  \E k \in Records : PageOf(c, k)'
    BY DEF ServedHave
  <2>1. CASE c = b
    <3> PICK k \in Records : k = i
      BY <1>3
    <3>1. \A j \in Cells : j \in want <=> host'[c][j] # "none"
      BY <1>7, <1>12, <2>1
    <3>2. \A j \in Cells : j \in want <=> web'[k].clients[j].active
      BY <1>14
    <3>3. \A j \in Cells : host'[c][j] # "ended"
      BY <1>7, <1>12, <2>1 DEF Answers
    <3>4. web'[k].websocket # NULL /\ owner'[web'[k].websocket] = BrowserOf(c)
      BY <1>3, <1>14, <1>17, <2>1, OwnersAre
    <3>5. PageOf(c, k)'
      BY <3>1, <3>2, <3>3, <3>4 DEF PageOf, Quiet, BrowserOf
    <3> QED
      BY <3>5
  <2>2. CASE c # b
    <3>1. page[c] = "served"
      BY <1>13, <2>2
    <3>2. PICK k \in Records : PageOf(c, k)
      BY <1>2, <3>1 DEF ServedHave
    <3>3. web[k].websocket # NULL /\ owner[web[k].websocket] = BrowserOf(c)
          /\ web[k].websocket \in Socks
      BY <1>2, <3>2, TypesAre DEF PageOf
    <3>4. k # i
      BY <1>3, <2>2, <3>3, OwnersAre
    <3>5. web'[k] = web[k] /\ owner'[web[k].websocket] = owner[web[k].websocket]
      BY <1>9, <1>10, <1>14, <3>3, <3>4, OwnersAre
    <3>6. host'[c] = host[c]
      BY <1>12, <2>2
    <3>7. \A m \in Socks : Ends(m) => Ends(m)'
      BY <1>1, <1>15, LetterParts DEF Ends, Letter
    <3>8. \A j \in Cells : web[k].clients[j].active => web[k].clients[j].clifd \in Socks
      BY <1>2, TypesAre DEF CellsRight
    <3>9. Quiet(k)' = Quiet(k)
      BY <3>5 DEF Quiet
    <3>10. PageOf(c, k)'
      BY <3>2, <3>3, <3>5, <3>6, <3>7, <3>8, <3>9 DEF PageOf, BrowserOf
    <3> QED
      BY <3>10
  <2> QED
    BY <2>1, <2>2
<1>25. map' \in [Socks -> 0..MaxConn] /\ owner' \in [Socks -> Owners]
  <2>1. map' \in [Socks -> 0..MaxConn]
    BY <1>2, <1>3, <1>5, OwnersAre DEF WinTypeOK, Entered
  <2>2. \A c \in Socks : owner'[c] \in Owners
    <3>1. \A j \in want : [who |-> b, cell |-> j] \in Owners
      BY <1>3, <1>7, OwnersAre DEF Owners
    <3> QED
      BY <1>2, <1>10, <1>16, <3>1 DEF WinTypeOK
  <2>3. DOMAIN owner' = Socks /\ owner' = [c \in DOMAIN owner' |-> owner'[c]]
    BY <1>5
  <2> QED
    BY <2>1, <2>2, <2>3
<1>26. host' \in [Browsers \union {NoBody} -> [Cells -> Answers \union {"ended"}]]
  BY <1>2, <1>4a, <1>5, <1>7 DEF WinTypeOK
<1>27. page' \in [Browsers -> {"away", "accepted", "asked", "served", "done", "left"}]
  BY <1>2, <1>5 DEF WinTypeOK
<1>28. WinTypeOK' /\ kind' # "any"
  BY <1>1, <1>2, <1>14, <1>15, <1>25, <1>26, <1>27 DEF WinIInv, WinTypeOK
<1> QED
  BY <1>15, <1>20, <1>21, <1>22, <1>23, <1>24, <1>28 DEF WinIInv

-----------------------------------------------------------------------------
(* Browsers and hosts.                                                     *)

(* A message is posted.                                                    *)
LEMMA PostedOne ==
    ASSUME WinIInv, NEW m \in Message, queue' = Append(queue, m),
           web' = web, map' = map, owner' = owner, kind' = kind,
           m.about = "web" => m.event = "close" \/ \E b \in Browsers : owner[m.sock] = BrowserOf(b) /\ page[b] = "accepted",
           m.about = "cgi" => ~Ends(m.sock),
           \A b \in Browsers : page'[b] \in {"away", "accepted", "served"} => page'[b] = page[b]
    PROVE  /\ queue' \in Seq(Message) /\ OrderlyIn(queue)'
           /\ \A x : x \in Posted' <=> x \in Posted \/ x = m
           /\ Owned' /\ Recorded' /\ CellsRight'
           /\ host' = host => ServedHave'
<1>1. WinTypeOK /\ Owned /\ Queued /\ Recorded /\ CellsRight /\ ServedHave
  BY DEF WinIInv
<1>2. queue \in Seq(Message) /\ OrderlyIn(queue) /\ m.sock \in Socks
      /\ m = Letter(m.about, m.event, m.sock)
  BY <1>1, LetterParts DEF WinIInv, WinTypeOK
<1>3. ASSUME NEW b \in Browsers, owner[m.sock] = BrowserOf(b), page[b] = "accepted"
      PROVE  ~Asks(m.sock)
  BY <1>1, <1>2, <1>3, OwnersAre DEF Queued
<1>4. m.about = "web" => m.event = "close" \/ m \notin Posted
  <2>1. ASSUME m.about = "web", m.event # "close"
        PROVE  m \notin Posted
    <3>1. m = Letter("web", "read", m.sock)
      BY <1>2, <2>1, LetterParts
    <3> QED
      BY <1>3, <2>1, <3>1 DEF Asks
  <2> QED
    BY <2>1
<1>5. /\ queue' \in Seq(Message) /\ OrderlyIn(queue)'
      /\ \A x : x \in Posted' <=> x \in Posted \/ x = m
  <2>1. Posted = In(queue) /\ Posted' = In(queue')
    BY DEF Posted, In
  <2>2. OrderlyIn(queue') => OrderlyIn(queue)'
    BY DEF OrderlyIn
  <2>3. m.about = "cgi" => Letter("cgi", "close", m.sock) \notin Posted
    BY DEF Ends
  <2> QED
    BY <1>2, <1>4, <2>1, <2>2, <2>3, Added
<1>6. \A c \in Browsers, x \in Socks : Unanswered(c, x)' => Unanswered(c, x)
  <2>1. TAKE c \in Browsers, x \in Socks
  <2>2. HAVE Unanswered(c, x)'
  <2>3. owner[x] = BrowserOf(c) /\ (page'[c] = "accepted" \/ Letter("web", "read", x) \in Posted')
    BY <2>2 DEF Unanswered, Asks, BrowserOf, Letter
  <2>4. CASE page'[c] = "accepted" \/ Letter("web", "read", x) \in Posted
    BY <2>3, <2>4 DEF Unanswered, Asks
  <2>5. CASE Letter("web", "read", x) = m
    <3>1. m.about = "web" /\ m.event = "read" /\ m.sock = x
      BY <2>5, LetterParts
    <3>2. PICK b \in Browsers : owner[x] = BrowserOf(b) /\ page[b] = "accepted"
      BY <3>1
    <3>3. b = c
      BY <2>3, <3>2 DEF BrowserOf
    <3> QED
      BY <3>2, <3>3 DEF Unanswered
  <2> QED
    BY <1>5, <2>3, <2>4, <2>5
<1>7. Owned'
  <2>1. \A x \in Socks : owner[x] # Free => owner[x].who \in Browsers
    BY <1>1, TypesAre DEF Owned
  <2>2. \A x \in Socks : owner'[x] # Free => page'[owner'[x].who] # "away"
    BY <1>1, <2>1 DEF Owned
  <2> QED
    BY <1>1, <1>6, <2>2 DEF Owned
<1>8. Recorded'
  <2>1. \A k \in Records : Quiet(k) => Quiet(k)'
    BY DEF Quiet
  <2> QED
    BY <1>1, <1>6, <2>1 DEF Recorded
<1>9. CellsRight'
  BY <1>1 DEF CellsRight, BrowserOf
<1>10. ASSUME host' = host PROVE ServedHave'
  <2>1. \A x \in Socks : Ends(x) => Ends(x)'
    BY <1>5 DEF Ends, Letter
  <2>2. \A k \in Records, j \in Cells : web[k].clients[j].active => web[k].clients[j].clifd \in Socks
    BY <1>1, TypesAre DEF CellsRight
  <2>3. ASSUME NEW b \in Browsers, NEW k \in Records, PageOf(b, k)
        PROVE  PageOf(b, k)'
    <3>1. Quiet(k)' = Quiet(k)
      BY DEF Quiet
    <3> QED
      BY <1>10, <2>1, <2>2, <2>3, <3>1 DEF PageOf, BrowserOf
  <2> QED
    BY <1>1, <2>3 DEF ServedHave
<1> QED
  BY <1>5, <1>7, <1>8, <1>9, <1>10

LEMMA AskStep ==
    ASSUME WinIInv, NEW b \in Browsers, NEW r \in Queries, Ask(b, r)
    PROVE  WinIInv'
<1>1. PICK n \in Socks : /\ owner[n] = BrowserOf(b)
                         /\ queue' = Append(queue, Letter("web", "read", n))
                         /\ unread' = unread \union {n}
  BY DEF Ask, Post, BrowserOf, Letter
<1>2. /\ page[b] = "accepted" /\ page' = [page EXCEPT ![b] = "asked"]
      /\ asked' = [asked EXCEPT ![b] = r]
      /\ kind' = kind /\ web' = web /\ map' = map /\ owner' = owner /\ host' = host /\ overrun' = overrun
  BY DEF Ask
<1> DEFINE m == Letter("web", "read", n)
<1>3. WinTypeOK /\ Owned /\ Queued
  BY DEF WinIInv
<1>4. m \in Message /\ m.about = "web" /\ m.event = "read" /\ m.sock = n
  BY LetterParts
<1> HIDE DEF m
<1>5. \A c \in Browsers : page'[c] = IF c = b THEN "asked" ELSE page[c]
  BY <1>2, <1>3 DEF WinTypeOK
<1>6. /\ queue' \in Seq(Message) /\ OrderlyIn(queue)'
      /\ \A x : x \in Posted' <=> x \in Posted \/ x = m
      /\ Owned' /\ Recorded' /\ CellsRight' /\ ServedHave'
  <2>1. \A c \in Browsers : page'[c] \in {"away", "accepted", "served"} => page'[c] = page[c]
    BY <1>5
  <2>2. m.about = "web" => m.event = "close" \/ \E c \in Browsers : owner[m.sock] = BrowserOf(c) /\ page[c] = "accepted"
    BY <1>1, <1>2, <1>4
  <2>3. queue' = Append(queue, m)
    BY <1>1 DEF m
  <2>4. m.about = "cgi" => ~Ends(m.sock)
    BY <1>4
  <2> QED
    BY <1>2, <1>4, <2>1, <2>2, <2>3, <2>4, PostedOne
<1>7. \A x \in Socks : owner[x] # Free => owner[x].who \in Browsers
  BY <1>3, TypesAre DEF Owned
<1>8. Queued'
  <2>1. \A a, e, x : Letter(a, e, x) \in Posted' =>
           Letter(a, e, x) \in Posted \/ (a = "web" /\ e = "read" /\ x = n)
    BY <1>6 DEF Letter, m
  <2>2. owner[n].who = b /\ owner[n].cell = 0 /\ owner[n] # Free
    BY <1>1, OwnersAre
  <2>3. \A x \in Socks : Asks(x)' =>
           /\ owner'[x].cell = 0 /\ owner'[x] # Free
           /\ page'[owner'[x].who] \in {"asked", "left"}
    <3>1. TAKE x \in Socks
    <3>2. HAVE Asks(x)'
    <3>3. Letter("web", "read", x) \in Posted'
      BY <3>2 DEF Asks, Letter
    <3>4. Asks(x) \/ x = n
      BY <2>1, <3>3 DEF Asks
    <3> QED
      BY <1>2, <1>3, <1>5, <1>7, <2>2, <3>4 DEF Queued
  <2>4. \A x \in Socks : Letter("web", "close", x) \in Posted' =>
           /\ kind' = "fresh"
           /\ owner'[x] # Free => owner'[x].cell = 0 /\ page'[owner'[x].who] = "left"
    BY <1>2, <1>3, <1>5, <1>7, <2>1 DEF Queued
  <2>5. \A x \in Socks, e \in {"read", "close"} :
           Letter("cgi", e, x) \in Posted' => owner'[x].cell # 0
    BY <1>2, <1>3, <2>1 DEF Queued
  <2>6. \A x \in Socks : Ends(x)' => host'[owner'[x].who][owner'[x].cell] = "ended"
    <3>1. \A x \in Socks : Ends(x)' => Ends(x)
      BY <2>1 DEF Ends, Letter
    <3> QED
      BY <1>2, <1>3, <3>1 DEF Queued
  <2> QED
    BY <2>3, <2>4, <2>5, <2>6 DEF Queued
<1>9. asked' \in [Browsers -> AllQueries] /\ unread' \subseteq Socks
      /\ page' \in [Browsers -> {"away", "accepted", "asked", "served", "done", "left"}]
  BY <1>1, <1>2, <1>3, WinSockServerAssumption DEF WinTypeOK
<1>10. WinTypeOK' /\ kind' # "any"
  BY <1>2, <1>3, <1>6, <1>9 DEF WinIInv, WinTypeOK
<1> QED
  BY <1>6, <1>8, <1>10 DEF WinIInv

LEMMA LeaveStep ==
    ASSUME WinIInv, NEW b \in Browsers, LeaveBrowser(b)
    PROVE  WinIInv'
<1>1. PICK n \in Socks : owner[n] = BrowserOf(b) /\ queue' = Append(queue, Letter("web", "close", n))
  BY DEF LeaveBrowser, Post, BrowserOf, Letter
<1>2. /\ kind # "waiting" /\ page[b] \in {"accepted", "asked", "served"}
      /\ page' = [page EXCEPT ![b] = "left"]
      /\ kind' = kind /\ web' = web /\ map' = map /\ owner' = owner /\ asked' = asked
      /\ host' = host /\ unread' = unread /\ overrun' = overrun
  BY DEF LeaveBrowser
<1> DEFINE m == Letter("web", "close", n)
<1>3. WinTypeOK /\ Owned /\ Queued
  BY DEF WinIInv
<1>4. m \in Message /\ m.about = "web" /\ m.event = "close" /\ m.sock = n
  BY LetterParts
<1> HIDE DEF m
<1>5. \A c \in Browsers : page'[c] = IF c = b THEN "left" ELSE page[c]
  BY <1>2, <1>3 DEF WinTypeOK
<1>6. /\ queue' \in Seq(Message) /\ OrderlyIn(queue)'
      /\ \A x : x \in Posted' <=> x \in Posted \/ x = m
      /\ Owned' /\ Recorded' /\ CellsRight' /\ ServedHave'
  <2>1. \A c \in Browsers : page'[c] \in {"away", "accepted", "served"} => page'[c] = page[c]
    BY <1>5
  <2>2. queue' = Append(queue, m)
    BY <1>1 DEF m
  <2>3. m.about = "cgi" => ~Ends(m.sock)
    BY <1>4
  <2> QED
    BY <1>2, <1>4, <2>1, <2>2, <2>3, PostedOne
<1>7. \A x \in Socks : owner[x] # Free => owner[x].who \in Browsers
  BY <1>3, TypesAre DEF Owned
<1>8. Queued'
  <2>1. \A a, e, x : Letter(a, e, x) \in Posted' =>
           Letter(a, e, x) \in Posted \/ (a = "web" /\ e = "close" /\ x = n)
    BY <1>6 DEF Letter, m
  <2>2. owner[n].who = b /\ owner[n].cell = 0
    BY <1>1, OwnersAre
  <2>3. kind = "fresh"
    BY <1>2, <1>3, WinSockServerAssumption DEF WinIInv, WinTypeOK, AllKinds
  <2>4. \A x \in Socks : Asks(x)' =>
           /\ owner'[x].cell = 0 /\ owner'[x] # Free
           /\ page'[owner'[x].who] \in {"asked", "left"}
    <3>1. \A x \in Socks : Asks(x)' => Asks(x)
      BY <2>1 DEF Asks, Letter
    <3> QED
      BY <1>2, <1>3, <1>5, <1>7, <3>1 DEF Queued
  <2>5. \A x \in Socks : Letter("web", "close", x) \in Posted' =>
           /\ kind' = "fresh"
           /\ owner'[x] # Free => owner'[x].cell = 0 /\ page'[owner'[x].who] = "left"
    BY <1>2, <1>3, <1>5, <1>7, <2>1, <2>2, <2>3 DEF Queued
  <2>6. \A x \in Socks, e \in {"read", "close"} :
           Letter("cgi", e, x) \in Posted' => owner'[x].cell # 0
    BY <1>2, <1>3, <2>1 DEF Queued
  <2>7. \A x \in Socks : Ends(x)' => host'[owner'[x].who][owner'[x].cell] = "ended"
    <3>1. \A x \in Socks : Ends(x)' => Ends(x)
      BY <2>1 DEF Ends, Letter
    <3> QED
      BY <1>2, <1>3, <3>1 DEF Queued
  <2> QED
    BY <2>4, <2>5, <2>6, <2>7 DEF Queued
<1>9. page' \in [Browsers -> {"away", "accepted", "asked", "served", "done", "left"}]
  BY <1>2, <1>3 DEF WinTypeOK
<1>10. WinTypeOK' /\ kind' # "any"
  BY <1>2, <1>3, <1>6, <1>9 DEF WinIInv, WinTypeOK
<1> QED
  BY <1>6, <1>8, <1>10 DEF WinIInv

LEMMA TalkStep ==
    ASSUME WinIInv, NEW n \in Socks, Talk(n)
    PROVE  WinIInv'
<1> DEFINE m == Letter("cgi", "read", n)
<1>1. /\ owner[n].cell # 0 /\ host[owner[n].who][owner[n].cell] = "on"
      /\ queue' = Append(queue, m) /\ unread' = unread \union {n}
      /\ kind' = kind /\ web' = web /\ map' = map /\ owner' = owner /\ page' = page
      /\ asked' = asked /\ host' = host /\ overrun' = overrun
  BY DEF Talk, Post, Letter
<1>2. WinTypeOK /\ Owned /\ Queued
  BY DEF WinIInv
<1>3. m \in Message /\ m.about = "cgi" /\ m.event = "read" /\ m.sock = n
  BY LetterParts
<1> HIDE DEF m
<1>4. /\ queue' \in Seq(Message) /\ OrderlyIn(queue)'
      /\ \A x : x \in Posted' <=> x \in Posted \/ x = m
      /\ Owned' /\ Recorded' /\ CellsRight' /\ ServedHave'
  <2>1. m.about = "cgi" => ~Ends(m.sock)
    BY <1>1, <1>2, <1>3 DEF Queued
  <2> QED
    BY <1>1, <1>3, <2>1, PostedOne
<1>5. Queued'
  <2>1. \A a, e, x : Letter(a, e, x) \in Posted' =>
           Letter(a, e, x) \in Posted \/ (a = "cgi" /\ e = "read" /\ x = n)
    BY <1>4 DEF Letter, m
  <2>2. \A x \in Socks : (Asks(x)' => Asks(x)) /\ (Ends(x)' => Ends(x))
    BY <2>1 DEF Asks, Ends, Letter
  <2>3. \A x \in Socks, e \in {"read", "close"} :
           Letter("cgi", e, x) \in Posted' => owner'[x].cell # 0
    BY <1>1, <1>2, <2>1 DEF Queued
  <2>4. \A x \in Socks : Letter("web", "close", x) \in Posted' => Letter("web", "close", x) \in Posted
    BY <2>1
  <2> QED
    BY <1>1, <1>2, <2>2, <2>3, <2>4 DEF Queued
<1>6. WinTypeOK' /\ kind' # "any"
  BY <1>1, <1>2, <1>4 DEF WinIInv, WinTypeOK
<1> QED
  BY <1>4, <1>5, <1>6 DEF WinIInv

LEMMA HangUpStep ==
    ASSUME WinIInv, NEW n \in Socks, HangUp(n)
    PROVE  WinIInv'
<1> DEFINE m == Letter("cgi", "close", n)
           b == owner[n].who
           j == owner[n].cell
<1>1. /\ j # 0 /\ host[b][j] = "on"
      /\ queue' = Append(queue, m) /\ host' = [host EXCEPT ![b][j] = "ended"]
      /\ kind' = kind /\ web' = web /\ map' = map /\ owner' = owner /\ page' = page
      /\ asked' = asked /\ unread' = unread /\ overrun' = overrun
  BY DEF HangUp, Post, Letter
<1>2. WinTypeOK /\ Owned /\ Queued /\ CellsRight /\ ServedHave
  BY DEF WinIInv
<1>3. m \in Message /\ m.about = "cgi" /\ m.event = "close" /\ m.sock = n
  BY LetterParts
<1>4. b = owner[n].who /\ j = owner[n].cell /\ b \in Browsers \union {NoBody} /\ j \in Cells
  BY <1>1, <1>2, TypesAre, OwnersAre
<1> HIDE DEF m, b, j
<1>5. /\ queue' \in Seq(Message) /\ OrderlyIn(queue)'
      /\ \A x : x \in Posted' <=> x \in Posted \/ x = m
      /\ Owned' /\ Recorded' /\ CellsRight'
  <2>1. m.about = "cgi" => ~Ends(m.sock)
    BY <1>1, <1>2, <1>3, <1>4 DEF Queued
  <2> QED
    BY <1>1, <1>3, <2>1, PostedOne
<1>6. /\ host' \in [Browsers \union {NoBody} -> [Cells -> Answers \union {"ended"}]]
      /\ host'[b][j] = "ended"
      /\ \A c \in Browsers \union {NoBody} : c # b => host'[c] = host[c]
      /\ \A k \in Cells : k # j => host'[b][k] = host[b][k]
  <2>1. host \in [Browsers \union {NoBody} -> [Cells -> Answers \union {"ended"}]]
    BY <1>2 DEF WinTypeOK
  <2> DEFINE hs == [host[b] EXCEPT ![j] = "ended"]
  <2>2. /\ hs \in [Cells -> Answers \union {"ended"}] /\ hs[j] = "ended"
        /\ \A k \in Cells : k # j => hs[k] = host[b][k]
    BY <1>4, <2>1
  <2>3. host' = [host EXCEPT ![b] = hs]
    BY <1>1
  <2> HIDE DEF hs
  <2> QED
    BY <1>4, <2>1, <2>2, <2>3
<1>7. \A c \in Browsers \union {NoBody}, k \in Cells :
          (c = b /\ k = j) \/ host'[c][k] = host[c][k]
  BY <1>6
<1>8. Queued'
  <2>1. \A a, e, x : Letter(a, e, x) \in Posted' =>
           Letter(a, e, x) \in Posted \/ (a = "cgi" /\ e = "close" /\ x = n)
    BY <1>5 DEF Letter, m
  <2>2. \A x \in Socks : Asks(x)' => Asks(x)
    BY <2>1 DEF Asks, Letter
  <2>3. \A x \in Socks, e \in {"read", "close"} :
           Letter("cgi", e, x) \in Posted' => owner'[x].cell # 0
    BY <1>1, <1>2, <1>4, <2>1 DEF Queued
  <2>4. \A x \in Socks : Letter("web", "close", x) \in Posted' => Letter("web", "close", x) \in Posted
    BY <2>1
  <2>5. \A x \in Socks : Ends(x)' => host'[owner'[x].who][owner'[x].cell] = "ended"
    <3>1. TAKE x \in Socks
    <3>2. HAVE Ends(x)'
    <3>3. Ends(x) \/ x = n
      BY <2>1, <3>2 DEF Ends, Letter
    <3>4. CASE Ends(x)
      <4>1. owner[x].cell # 0 /\ host[owner[x].who][owner[x].cell] = "ended"
        BY <1>2, <3>4 DEF Queued, Ends
      <4>2. owner[x].who \in Browsers \union {NoBody} /\ owner[x].cell \in Cells
        BY <1>2, <4>1, TypesAre, OwnersAre
      <4> QED
        BY <1>1, <1>6, <1>7, <4>1, <4>2
    <3>5. CASE x = n
      BY <1>1, <1>4, <1>6, <3>5
    <3> QED
      BY <3>3, <3>4, <3>5
  <2> QED
    BY <1>1, <1>2, <2>2, <2>3, <2>4, <2>5 DEF Queued
<1>9. ServedHave'
  <2>1. \A x \in Socks : Ends(x) => Ends(x)'
    BY <1>5 DEF Ends, Letter
  <2>2. ASSUME NEW c \in Browsers, NEW i \in Records, PageOf(c, i)
        PROVE  PageOf(c, i)'
    <3>1. Quiet(i)' = Quiet(i)
      BY <1>1 DEF Quiet
    <3>2. \A k \in Cells : host'[c][k] \in {"on", "refused"} => web'[i].clients[k].active
      BY <1>1, <1>6, <1>7, <2>2 DEF PageOf
    <3>3. \A k \in Cells : web'[i].clients[k].active =>
             host'[c][k] # "none" /\ (host'[c][k] = "ended" => Ends(web[i].clients[k].clifd)')
      <4>1. TAKE k \in Cells
      <4>2. HAVE web'[i].clients[k].active
      <4> DEFINE d == web[i].clients[k].clifd
      <4>3. /\ web[i].clients[k].active /\ d \in Socks /\ d # NULL
            /\ owner[d].cell = k /\ owner[web[i].websocket] = BrowserOf(owner[d].who)
        BY <1>1, <1>2, <4>2, TypesAre DEF CellsRight
      <4>4. host[c][k] # "none" /\ (host[c][k] = "ended" => Ends(d))
        BY <2>2, <4>3 DEF PageOf
      <4>5. Ends(d) => Ends(d)'
        BY <1>1, <1>5, <4>3 DEF Ends, Letter
      <4>6. CASE c = b /\ k = j
        <5>1. owner[d].who = b
          BY <2>2, <4>3, <4>6 DEF PageOf, BrowserOf
        <5>2. owner[d] \in Owners /\ owner[n] \in Owners
          BY <1>2, <4>3, TypesAre
        <5>3. owner[d] = owner[n] /\ owner[n] # Free
          <6>1. \A o, p \in Owners : o.who = p.who /\ o.cell = p.cell => o = p
            BY DEF Owners
          <6>2. owner[n].cell # Free.cell
            BY <1>1, <1>4, OwnersAre
          <6> QED
            BY <1>4, <4>3, <4>6, <5>1, <5>2, <6>1, <6>2
        <5>4. d = n
          BY <1>2, <4>3, <5>3 DEF Owned
        <5>5. Letter("cgi", "close", d) \in Posted'
          BY <1>5, <5>4 DEF m
        <5>6. Ends(d)'
          BY <1>1, <5>5 DEF Ends, Letter
        <5> QED
          BY <1>6, <4>6, <5>6
      <4>7. CASE ~(c = b /\ k = j)
        BY <1>7, <4>4, <4>5, <4>7
      <4> QED
        BY <4>6, <4>7
    <3>4. Quiet(i) => \A k \in Cells : host'[c][k] = "none"
      <4>1. HAVE Quiet(i)
      <4>2. \A k \in Cells : host[c][k] = "none"
        BY <2>2, <4>1 DEF PageOf
      <4>3. c # b
        BY <1>1, <1>4, <4>2
      <4> QED
        BY <1>6, <4>2, <4>3
    <3> QED
      BY <1>1, <2>2, <3>1, <3>2, <3>3, <3>4 DEF PageOf, BrowserOf
  <2> QED
    BY <1>1, <1>2, <2>2 DEF ServedHave
<1>10. WinTypeOK' /\ kind' # "any"
  BY <1>1, <1>2, <1>5, <1>6 DEF WinIInv, WinTypeOK
<1> QED
  BY <1>5, <1>8, <1>9, <1>10 DEF WinIInv

LEMMA AcceptStep ==
    ASSUME WinIInv, NEW b \in Browsers, AcceptBrowser(b)
    PROVE  WinIInv'
<1>1. PICK n \in Unused : owner' = [owner EXCEPT ![n] = BrowserOf(b)]
  BY DEF AcceptBrowser, BrowserOf
<1>2. /\ page[b] = "away" /\ page' = [page EXCEPT ![b] = "accepted"] /\ queue' = queue
      /\ kind' = kind /\ web' = web /\ map' = map /\ asked' = asked
      /\ host' = host /\ unread' = unread /\ overrun' = overrun
  BY DEF AcceptBrowser
<1>3. WinTypeOK /\ Owned /\ Queued /\ Recorded /\ CellsRight /\ ServedHave
  BY DEF WinIInv
<1>4. /\ n \in Socks /\ owner[n] = Free
      /\ \A a, e : Letter(a, e, n) \in Posted => ~(a \in {"web", "cgi"} /\ e \in {"read", "close"})
      /\ kind = "fresh" => \A i \in Records : web[i].websocket # n
  BY UnusedIs
<1>5. owner'[n] = BrowserOf(b) /\ \A x \in Socks : x # n => owner'[x] = owner[x]
  BY <1>1, <1>3, <1>4 DEF WinTypeOK
<1>6. page'[b] = "accepted" /\ \A c \in Browsers : c # b => page'[c] = page[c]
  BY <1>2, <1>3 DEF WinTypeOK
<1>7. \A x \in Socks : owner[x].who # b
  BY <1>2, <1>3, OwnersAre DEF Owned
<1>8. owner'[n].who = b /\ owner'[n].cell = 0 /\ owner'[n] # Free
  BY <1>5, OwnersAre
<1>9. Posted' = Posted
  BY <1>2 DEF Posted, In
<1>10. \A a \in {"web", "cgi"}, e \in {"read", "close"}, x \in Socks :
          Letter(a, e, x) \in Posted' => Letter(a, e, x) \in Posted /\ x # n
  BY <1>4, <1>9
<1>11. \A x \in Socks : /\ Asks(x)' => Asks(x) /\ x # n
                        /\ Ends(x)' => Ends(x) /\ x # n
  BY <1>10 DEF Asks, Ends, Letter
<1>12. \A c \in Browsers, x \in Socks : Unanswered(c, x)' =>
          (x = n /\ c = b) \/ (x # n /\ c # b /\ Unanswered(c, x))
  <2>1. TAKE c \in Browsers, x \in Socks
  <2>2. HAVE Unanswered(c, x)'
  <2>3. owner'[x] = BrowserOf(c) /\ (page'[c] = "accepted" \/ Asks(x)')
    BY <2>2 DEF Unanswered, BrowserOf
  <2>4. owner'[x].who = c
    BY <2>3, OwnersAre
  <2>5. x = n => c = b
    BY <1>8, <2>4
  <2>6. x # n => c # b /\ owner[x] = BrowserOf(c)
    BY <1>5, <1>7, <2>3, <2>4
  <2> QED
    BY <1>6, <1>11, <2>3, <2>5, <2>6 DEF Unanswered
<1>13. \A x \in Socks : owner[x] # Free => owner[x].who \in Browsers
  BY <1>3, TypesAre DEF Owned
<1>14. Owned'
  <2>1. \A x, y \in Socks : owner'[x] = owner'[y] /\ owner'[x] # Free => x = y
    BY <1>3, <1>5, <1>7, <1>8 DEF Owned
  <2>2. \A x \in Socks : owner'[x].who = NoBody => owner'[x] = Free
    BY <1>3, <1>5, <1>8, OwnersAre DEF Owned
  <2>3. \A x \in Socks : owner'[x] # Free => page'[owner'[x].who] # "away"
    BY <1>3, <1>5, <1>6, <1>7, <1>8, <1>13 DEF Owned
  <2>4. \A x \in Socks : owner'[x].cell # 0 => map'[x] # 0
    BY <1>2, <1>3, <1>5, <1>8 DEF Owned
  <2>5. \A x, y \in Socks, c \in Browsers : Unanswered(c, x)' /\ owner'[y].who = c => y = x
    BY <1>3, <1>5, <1>7, <1>8, <1>12 DEF Owned
  <2> QED
    BY <2>1, <2>2, <2>3, <2>4, <2>5 DEF Owned
<1>15. Queued'
  <2>1. \A x \in Socks : Asks(x)' =>
           /\ owner'[x].cell = 0 /\ owner'[x] # Free
           /\ page'[owner'[x].who] \in {"asked", "left"}
    BY <1>3, <1>5, <1>6, <1>7, <1>11, <1>13 DEF Queued
  <2>2. \A x \in Socks : Letter("web", "close", x) \in Posted' =>
           /\ kind' = "fresh"
           /\ owner'[x] # Free => owner'[x].cell = 0 /\ page'[owner'[x].who] = "left"
    BY <1>2, <1>3, <1>5, <1>6, <1>7, <1>10, <1>13 DEF Queued
  <2>3. \A x \in Socks, e \in {"read", "close"} :
           Letter("cgi", e, x) \in Posted' => owner'[x].cell # 0
    BY <1>3, <1>5, <1>10 DEF Queued
  <2>4. \A x \in Socks : Ends(x)' => host'[owner'[x].who][owner'[x].cell] = "ended"
    BY <1>2, <1>3, <1>5, <1>11 DEF Queued
  <2> QED
    BY <2>1, <2>2, <2>3, <2>4 DEF Queued
<1>16. \A i \in Records, j \in Cells : web[i].clients[j].active =>
          /\ web[i].clients[j].clifd \in Socks /\ web[i].websocket \in Socks
          /\ web[i].clients[j].clifd # n /\ web[i].websocket # n
  <2>1. TAKE i \in Records, j \in Cells
  <2>2. HAVE web[i].clients[j].active
  <2> DEFINE c == web[i].clients[j].clifd
             w == web[i].websocket
  <2>3. /\ c \in Socks /\ w \in Socks /\ owner[c].cell = j /\ owner[w] = BrowserOf(owner[c].who)
    BY <1>3, <2>2, TypesAre DEF CellsRight
  <2>4. owner[c] # Free /\ owner[c].who \in Browsers
    BY <1>13, <2>3, OwnersAre
  <2>5. owner[w] # Free
    BY <2>3, <2>4, OwnersAre
  <2> QED
    BY <1>4, <2>3, <2>4, <2>5
<1>17. Recorded'
  <2>1. \A k \in Records : Quiet(k) => Quiet(k)'
    BY <1>2 DEF Quiet
  <2>2. \A c \in Browsers, x \in Socks, k \in Records :
           Unanswered(c, x)' /\ web'[k].websocket = x => kind' = "waiting" /\ Quiet(k)'
    <3>1. TAKE c \in Browsers, x \in Socks, k \in Records
    <3>2. HAVE Unanswered(c, x)' /\ web'[k].websocket = x
    <3>3. CASE x = n
      <4>1. kind = "waiting"
        BY <1>2, <1>3, <1>4, <3>2, <3>3, WinSockServerAssumption DEF WinIInv, WinTypeOK, AllKinds
      <4>2. Quiet(k)
        BY <1>2, <1>16, <3>2, <3>3 DEF Quiet
      <4> QED
        BY <1>2, <2>1, <4>1, <4>2
    <3>4. CASE x # n
      BY <1>2, <1>3, <1>12, <2>1, <3>2, <3>4 DEF Recorded
    <3> QED
      BY <3>3, <3>4
  <2>3. kind' = "fresh" =>
           \A k \in Records : web'[k].websocket # NULL => owner'[web'[k].websocket].cell = 0
    <3>1. \A k \in Records : web[k].websocket # NULL => web[k].websocket \in Socks
      BY <1>3, TypesAre
    <3> QED
      BY <1>2, <1>3, <1>5, <1>8, <3>1 DEF Recorded
  <2>4. kind' = "waiting" =>
           \A x \in Socks : owner'[x].cell # 0 =>
              web'[map'[x]].clients[owner'[x].cell] = [clifd |-> x, active |-> TRUE]
    BY <1>2, <1>3, <1>5, <1>8 DEF Recorded
  <2> QED
    BY <1>2, <1>3, <2>2, <2>3, <2>4 DEF Recorded
<1>18. CellsRight'
  BY <1>2, <1>3, <1>5, <1>16 DEF CellsRight, BrowserOf
<1>19. ServedHave'
  <2> SUFFICES ASSUME NEW c \in Browsers, page'[c] = "served"
               PROVE  \E k \in Records : PageOf(c, k)'
    BY DEF ServedHave
  <2>1. page[c] = "served" /\ c # b
    BY <1>6
  <2>2. PICK k \in Records : PageOf(c, k)
    BY <1>3, <2>1 DEF ServedHave
  <2>3. web[k].websocket # NULL /\ web[k].websocket \in Socks /\ owner[web[k].websocket] = BrowserOf(c)
    BY <1>3, <2>2, TypesAre DEF PageOf
  <2>4. owner'[web[k].websocket] = BrowserOf(c)
    BY <1>4, <1>5, <2>3, OwnersAre
  <2>5. \A x \in Socks : Ends(x) => Ends(x)'
    BY <1>9 DEF Ends, Letter
  <2>6. Quiet(k)' = Quiet(k)
    BY <1>2 DEF Quiet
  <2>7. PageOf(c, k)'
    BY <1>2, <1>16, <2>2, <2>3, <2>4, <2>5, <2>6 DEF PageOf, BrowserOf
  <2> QED
    BY <2>7
<1>20. owner' \in [Socks -> Owners]
       /\ page' \in [Browsers -> {"away", "accepted", "asked", "served", "done", "left"}]
  BY <1>1, <1>2, <1>3, OwnersAre DEF WinTypeOK
<1>21. WinTypeOK' /\ kind' # "any" /\ OrderlyIn(queue)'
  BY <1>2, <1>3, <1>20 DEF WinIInv, WinTypeOK, OrderlyIn
<1> QED
  BY <1>14, <1>15, <1>17, <1>18, <1>19, <1>21 DEF WinIInv

-----------------------------------------------------------------------------
(* The theorems.                                                           *)

LEMMA WinInitHolds == WinInit /\ kind # "any" => WinIInv
<1> SUFFICES ASSUME WinInit, kind # "any" PROVE WinIInv
  OBVIOUS
<1>1. /\ \A n \in Socks : owner[n] = Free /\ map[n] = 0
      /\ queue = <<>> /\ Posted = {}
      /\ \A b \in Browsers : page[b] = "away"
      /\ \A i \in Records : web[i].websocket = NULL
      /\ \A i \in Records, j \in Cells : ~web[i].clients[j].active
  BY DEF WinInit, NoClient, Posted, In
<1>2. WinTypeOK
  <2>1. [websocket |-> NULL, clients |-> [j \in Cells |-> NoClient]] \in
           [websocket : Socks \union {NULL}, clients : [Cells -> Client]]
    BY DEF NoClient, Client
  <2>2. web \in [Records -> [websocket : Socks \union {NULL}, clients : [Cells -> Client]]]
    BY <2>1 DEF WinInit
  <2>3. map \in [Socks -> 0..MaxConn] /\ owner \in [Socks -> Owners]
    BY OwnersAre DEF WinInit
  <2>4. Nothing \in AllQueries
    BY DEF Nothing, AllQueries, Answers
  <2>5. asked \in [Browsers -> AllQueries]
    BY <2>4 DEF WinInit
  <2>6. host \in [Browsers \union {NoBody} -> [Cells -> Answers \union {"ended"}]]
    BY DEF WinInit, Answers
  <2>7. page \in [Browsers -> {"away", "accepted", "asked", "served", "done", "left"}]
    BY DEF WinInit
  <2>8. kind \in Kinds /\ unread \subseteq Socks /\ overrun \in BOOLEAN
    BY DEF WinInit
  <2>9. queue \in Seq(Message)
    BY <1>1
  <2> QED
    BY <2>2, <2>3, <2>5, <2>6, <2>7, <2>8, <2>9 DEF WinTypeOK
<1>3. Owned
  BY <1>1, OwnersAre DEF Owned, Unanswered
<1>4. Queued
  BY <1>1 DEF Queued, Asks, Ends
<1>5. OrderlyIn(queue)
  BY <1>1 DEF OrderlyIn
<1>6. Recorded
  BY <1>1, OwnersAre DEF Recorded, Unanswered
<1>7. CellsRight
  BY <1>1 DEF CellsRight
<1>8. ServedHave
  BY <1>1 DEF ServedHave
<1> QED
  BY <1>2, <1>3, <1>4, <1>5, <1>6, <1>7, <1>8 DEF WinIInv

LEMMA WinStepHolds == WinIInv /\ [WinNext]_win_vars => WinIInv'
<1> SUFFICES ASSUME WinIInv, [WinNext]_win_vars PROVE WinIInv'
  OBVIOUS
<1>1. CASE Window
  BY <1>1, OverrunStep, AnswerPageStep, StartBatchStep, WebCloseStep, CgiReadStep, CgiCloseStep DEF Window
<1>2. CASE World
  BY <1>2, AcceptStep, LeaveStep, AskStep, TalkStep, HangUpStep DEF World
<1>3. CASE UNCHANGED win_vars
  <2>1. /\ kind' = kind /\ web' = web /\ map' = map /\ owner' = owner /\ queue' = queue /\ page' = page
        /\ asked' = asked /\ host' = host /\ unread' = unread /\ overrun' = overrun
    BY <1>3 DEF win_vars
  <2>2. Posted' = Posted
    BY <2>1 DEF Posted, In
  <2>3. \A n \in Socks : (Asks(n)' <=> Asks(n)) /\ (Ends(n)' <=> Ends(n))
    BY <2>2 DEF Asks, Ends, Letter
  <2>4. \A b \in Browsers, n \in Socks : Unanswered(b, n)' <=> Unanswered(b, n)
    BY <2>1, <2>3 DEF Unanswered, BrowserOf
  <2>5. \A i \in Records : Quiet(i)' <=> Quiet(i)
    BY <2>1 DEF Quiet
  <2>6. WinTypeOK' /\ OrderlyIn(queue)'
    BY <2>1 DEF WinIInv, WinTypeOK, OrderlyIn
  <2>7. Owned'
    BY <2>1, <2>4 DEF WinIInv, Owned
  <2>8. Queued'
    BY <2>1, <2>2, <2>3 DEF WinIInv, Queued
  <2>9. Recorded'
    BY <2>1, <2>4, <2>5 DEF WinIInv, Recorded
  <2>10. CellsRight'
    BY <2>1 DEF WinIInv, CellsRight, BrowserOf
  <2>11. ServedHave'
    <3>1. \A i \in Records, j \in Cells : web[i].clients[j].active => web[i].clients[j].clifd \in Socks
      BY TypesAre DEF WinIInv, CellsRight
    <3>2. \A b \in Browsers, i \in Records : PageOf(b, i) => PageOf(b, i)'
      BY <2>1, <2>3, <2>5, <3>1 DEF PageOf, BrowserOf
    <3> QED
      BY <2>1, <3>2 DEF WinIInv, ServedHave
  <2> QED
    BY <2>1, <2>6, <2>7, <2>8, <2>9, <2>10, <2>11 DEF WinIInv
<1> QED
  BY <1>1, <1>2, <1>3 DEF WinNext

(* The inductive invariant holds of the behaviours in which browsers wait, *)
(* and of those in which no number is given out that the server knows.     *)
THEOREM WinInductiveInvariant == WinSpec /\ kind # "any" => []WinIInv
<1>1. ASSUME WinIInv, [WinNext]_win_vars PROVE WinIInv'
  BY <1>1, WinStepHolds
<1> QED
  BY <1>1, WinInitHolds, PTL DEF WinSpec

(* What the handlers keep in the records, the map and the queue is of its  *)
(* type, whatever message they take next.                                  *)
THEOREM WinTypeCorrect == WinSpec /\ kind # "any" => []WinTypeOK
<1>1. WinIInv => WinTypeOK
  BY DEF WinIInv
<1> QED
  BY <1>1, WinInductiveInvariant, PTL

(* What a host says appears in its own cell of the page that asked for it, *)
(* and no message is about a number web_clifd_map lacks (NP_hw3.cpp,       *)
(* 564-571 and 606-613).                                                   *)
THEOREM OwnPages == WinSpec /\ kind # "any" => []OwnPage
<1>1. WinIInv => OwnPage
  <2> SUFFICES ASSUME WinIInv PROVE OwnPage
    OBVIOUS
  <2>1. WinTypeOK /\ Owned /\ Queued /\ CellsRight
    BY DEF WinIInv
  <2>2. ASSUME NEW k \in DOMAIN queue, queue[k].about = "cgi"
        PROVE  map[queue[k].sock] # 0
    <3>1. queue[k] \in Message
      BY <2>1 DEF WinTypeOK
    <3>2. /\ queue[k].sock \in Socks /\ queue[k].event \in {"read", "close"}
          /\ Letter("cgi", queue[k].event, queue[k].sock) \in Posted
      BY <2>2, <3>1, LetterParts DEF Posted, In
    <3> QED
      BY <2>1, <3>2 DEF Queued, Owned
  <2>3. ASSUME NEW i \in Records, NEW j \in Cells, web[i].clients[j].active
        PROVE  /\ web[i].clients[j].clifd # NULL /\ web[i].websocket # NULL
               /\ map[web[i].clients[j].clifd] = i
               /\ owner[web[i].clients[j].clifd].cell = j
               /\ owner[web[i].websocket] = [who |-> owner[web[i].clients[j].clifd].who, cell |-> 0]
    BY <2>1, <2>3 DEF CellsRight, BrowserOf
  <2> QED
    BY <2>2, <2>3 DEF OwnPage
<1> QED
  BY <1>1, WinInductiveInvariant, PTL

(* A page all of whose hosts have ended is closed, or a message that is    *)
(* posted will close it (check_end, NP_hw3.cpp): no end is missed.         *)
THEOREM PagesEnd == WinSpec /\ kind # "any" => []PageEnds
<1>1. WinIInv => PageEnds
  <2> SUFFICES ASSUME WinIInv, NEW b \in Browsers, page[b] = "served",
                      \E j \in Cells : host[b][j] # "none",
                      \A j \in Cells : host[b][j] \in {"none", "ended"}
               PROVE  Announced(b)
    BY DEF PageEnds
  <2>1. WinTypeOK /\ CellsRight /\ ServedHave
    BY DEF WinIInv
  <2>2. PICK i \in Records : PageOf(b, i)
    BY <2>1 DEF ServedHave
  <2>3. PICK j \in Cells : web[i].clients[j].active
    BY <2>2 DEF PageOf, Quiet
  <2> DEFINE c == web[i].clients[j].clifd
  <2>4. Ends(c)
    BY <2>2, <2>3 DEF PageOf
  <2>5. owner[c].who = b
    <3>1. BrowserOf(b) = BrowserOf(owner[c].who)
      BY <2>1, <2>2, <2>3 DEF PageOf, CellsRight
    <3> QED
      BY <3>1 DEF BrowserOf
  <2> HIDE DEF c
  <2>6. PICK k \in DOMAIN queue : queue[k] = Letter("cgi", "close", c)
    BY <2>4 DEF Ends, Posted, In
  <2>7. queue[k].about = "cgi" /\ queue[k].event = "close" /\ owner[queue[k].sock].who = b
    BY <2>5, <2>6, LetterParts
  <2> QED
    BY <2>7 DEF Announced
<1> QED
  BY <1>1, WinInductiveInvariant, PTL

(* A handler that closes a page closes it because its last host has ended. *)
LEMMA WholeStep ==
    ASSUME WinIInv, WinNext, NEW b \in Browsers, page[b] = "served", page'[b] = "done",
           NEW j \in Cells, host[b][j] = "on"
    PROVE  FALSE
<1>1. WinTypeOK /\ Owned /\ Queued /\ Recorded /\ CellsRight /\ ServedHave
  BY DEF WinIInv
<1>2. \A S : Closes(S) => \E m \in S \ {NULL} : m \in Socks /\ owner[m] = BrowserOf(b)
  BY DEF Closes
<1>3. CASE Overrun \/ CgiRead
  BY <1>3 DEF Overrun, CgiRead
<1>4. CASE AnswerPage
  <2> DEFINE n == Head(queue).sock
  <2>1. Is("web", "read") /\ Shut({n}) /\ queue' = Tail(queue) /\ queue # <<>>
        /\ kind' = kind /\ map' = map /\ host' = host
    BY <1>4 DEF AnswerPage, Is
  <2>2. n \in Socks /\ page[owner[n].who] \in {"asked", "left"}
    BY <2>1, AskedBy
  <2> HIDE DEF n
  <2>3. Closes({n})
    BY <1>1, <2>1, <2>2, ShutIs
  <2> QED
    BY <1>2, <2>2, <2>3, OwnersAre
<1>5. CASE StartBatch
  <2>1. \E c : page' = [a \in Browsers |-> IF a = c /\ page[a] = "asked" THEN "served" ELSE page[a]]
    BY <1>5 DEF StartBatch
  <2> QED
    BY <2>1
<1>6. CASE WebClose
  <2> DEFINE n == Head(queue).sock
  <2>1. /\ Shut({n}) \/ page' = page
        /\ queue' = Tail(queue) /\ queue # <<>> /\ kind' = kind /\ map' = map /\ host' = host
        /\ Head(queue).about = "web" /\ Head(queue).event = "close"
    BY <1>6 DEF WebClose, Is
  <2>2. n \in Socks /\ Letter("web", "close", n) \in Posted
    BY <2>1, TakenHere
  <2> HIDE DEF n
  <2>3. Closes({n})
    BY <1>1, <2>1, <2>2, ShutIs
  <2>4. owner[n] = BrowserOf(b)
    BY <1>2, <2>3
  <2> QED
    BY <1>1, <2>2, <2>4, OwnersAre DEF Queued
<1>7. CASE CgiClose
  <2> DEFINE n == Head(queue).sock
             i == map[n]
             W == Working(i, n)
             w == web[i].websocket
             e == check_end(i, W)
             S == (IF W # {} THEN {n} ELSE {}) \union (IF e THEN {w} ELSE {})
  <2>1. /\ map[n] # 0 /\ Shut(S) /\ queue' = Tail(queue) /\ queue # <<>>
        /\ kind' = kind /\ map' = map /\ host' = host
        /\ Head(queue).about = "cgi" /\ Head(queue).event = "close"
    BY <1>7 DEF CgiClose, Is
  <2>2. n \in Socks /\ Letter("cgi", "close", n) \in Posted
    BY <2>1, TakenHere
  <2>3. /\ i \in Records /\ w = web[i].websocket /\ w \in Socks \union {NULL}
        /\ \A k \in Cells : k \in W <=> web[i].clients[k] = [clifd |-> n, active |-> TRUE]
        /\ e <=> \A k \in Cells : web[i].clients[k].active => k \in W
    BY <1>1, <2>1, <2>2, TypesAre, OwnersAre DEF Working, check_end
  <2> HIDE DEF n, i, W, w, e
  <2>4. \A m \in S : (m = n) \/ (m = w /\ e)
    <3>1. CASE e
      BY <3>1
    <3>2. CASE ~e
      BY <3>2
    <3> QED
      BY <3>1, <3>2
  <2> HIDE DEF S
  <2>5. Closes(S)
    <3>1. S \subseteq Socks \union {NULL}
      BY <2>2, <2>3, <2>4
    <3> QED
      BY <1>1, <2>1, <3>1, ShutIs
  <2>6. owner[n].cell # 0 /\ host[owner[n].who][owner[n].cell] = "ended"
    BY <1>1, <2>2 DEF Queued, Ends
  <2>7. w \in Socks /\ owner[w] = BrowserOf(b) /\ e
    BY <1>2, <2>4, <2>5, <2>6, OwnersAre
  <2>8. PICK k \in Records : PageOf(b, k)
    BY <1>1 DEF ServedHave
  <2>9. web[k].websocket \in Socks /\ owner[web[k].websocket] = BrowserOf(b) /\ web[k].clients[j].active
    BY <1>1, <2>8, TypesAre DEF PageOf
  <2>10. web[k].websocket = w /\ w # NULL
    BY <1>1, <2>7, <2>9, OwnersAre DEF Owned
  <2>11. k = i
    BY <1>1, <2>3, <2>10 DEF Recorded
  <2>12. web[i].clients[j] = [clifd |-> n, active |-> TRUE]
    BY <2>3, <2>7, <2>9, <2>11
  <2>13. web[i].clients[j].active /\ web[i].clients[j].clifd = n
    BY <2>12
  <2>14. owner[n].cell = j /\ owner[w] = BrowserOf(owner[n].who)
    BY <1>1, <2>3, <2>13 DEF CellsRight
  <2>15. owner[n].who = b
    BY <2>7, <2>14 DEF BrowserOf
  <2> QED
    BY <2>6, <2>14, <2>15
<1>8. CASE World
  <2>1. ASSUME NEW a \in Browsers, AcceptBrowser(a) \/ LeaveBrowser(a) \/ \E r \in Queries : Ask(a, r)
        PROVE  page'[b] \in {page[b], "accepted", "left", "asked"}
    BY <1>1, <2>1 DEF AcceptBrowser, LeaveBrowser, Ask, WinTypeOK
  <2>2. ASSUME NEW n \in Socks, Talk(n) \/ HangUp(n)
        PROVE  page' = page
    BY <2>2 DEF Talk, HangUp
  <2> QED
    BY <1>8, <2>1, <2>2 DEF World
<1> QED
  BY <1>3, <1>4, <1>5, <1>6, <1>7, <1>8 DEF WinNext, Window

(* A page is closed only when none of its hosts is still there: no late    *)
(* message about another page, or about a number that was another's, cuts  *)
(* it off.                                                                 *)
THEOREM PagesWhole == WinSpec /\ kind # "any" => PageWhole
<1>1. ASSUME WinIInv, [WinNext]_win_vars
      PROVE  [\A b \in Browsers : page[b] = "served" /\ page'[b] = "done" =>
                 \A j \in Cells : host[b][j] # "on"]_win_vars
  <2>1. CASE WinNext
    BY <1>1, <2>1, WholeStep
  <2>2. CASE UNCHANGED win_vars
    BY <2>2
  <2> QED
    BY <1>1, <2>1, <2>2
<1> QED
  BY <1>1, WinInductiveInvariant, PTL DEF WinSpec, PageWhole
=============================================================================
