---------------------------- MODULE HttpServer -----------------------------
(***************************************************************************)
(* The HTTP server (Project3/Part2_HTTPServer): ForkServer, whose second   *)
(* child reads one request, looks for what it asks for, and answers with a *)
(* file or with what a CGI program writes.                                 *)
(*                                                                         *)
(* Directory and files are not modelled: a file may be there or not, be    *)
(* readable or not, each time it is looked at, and be gone when it is      *)
(* opened.  Of an answer only its status line is kept.                     *)
(***************************************************************************)
EXTENDS ForkServer, Sequences

VARIABLES
    sent,       \* sent[c]: the request of the browser, if it has sent one
    left,       \* the browsers that have closed their end
    request,    \* request[c]: what parseRequest has made of it
    reply       \* reply[c]: the status lines written to the browser

httpVars == <<sent, left, request, reply>>
vars     == <<serverVars, httpVars>>

(* A method, and what getContentType says of the path.                     *)
Requests  == [method : {"GET", "other"}, type : {"text/cgi", "file", "none"}]
NoRequest == [method |-> "none", type |-> "none"]

Init ==
    /\ ServerInit
    /\ sent = [c \in Conns |-> NoRequest]
    /\ left = {}
    /\ request = [c \in Conns |-> NoRequest]
    /\ reply = [c \in Conns |-> <<>>]

-----------------------------------------------------------------------------
(* Browsers.                                                               *)

Send(c, r) ==
    /\ conn[c] # "away" /\ c \notin left /\ sent[c] = NoRequest
    /\ sent' = [sent EXCEPT ![c] = r]
    /\ UNCHANGED <<serverVars, left, request, reply>>

Leave(c) ==
    /\ conn[c] # "away" /\ c \notin left
    /\ left' = left \union {c}
    /\ UNCHANGED <<serverVars, sent, request, reply>>

-----------------------------------------------------------------------------
(* The second child.                                                       *)

At(c, l) == pc[Second(c)] = l
Goto(c, l) == pc' = [pc EXCEPT ![Second(c)] = l] /\ UNCHANGED fds

Status(c, s) == reply' = [reply EXCEPT ![c] = Append(@, s)]

(* The browser is gone: write may end the process (SIGPIPE).               *)
Struck(c) ==
    /\ c \in left
    /\ Exit(Second(c))
    /\ UNCHANGED reply

(* If nothing is read, the request is what the stack held, or the functions *)
(* that are called on it fail.                                             *)
parseRequest(c) ==
    /\ At(c, "serve")
    /\ \/ /\ sent[c] # NoRequest
          /\ request' = [request EXCEPT ![c] = sent[c]]
          /\ Goto(c, "check")
       \/ /\ sent[c] = NoRequest /\ c \in left
          /\ \/ /\ \E r \in Requests : request' = [request EXCEPT ![c] = r]
                /\ Goto(c, "check")
             \/ Exit(Second(c)) /\ UNCHANGED request
    /\ UNCHANGED <<clifd, conn, sent, left, reply>>

(* (Changed by a mutation: the process does not end after an error.)       *)
checkResource_goes_on(c) ==
    /\ At(c, "check")
    /\ \/ (\E s \in {404, 403} : Status(c, s)) /\ Goto(c, "handle")
       \/ Goto(c, "handle") /\ UNCHANGED reply
    /\ UNCHANGED <<clifd, conn, sent, left, request>>

checkResource(c) ==
    /\ At(c, "check")
    /\ \/ \E s \in {404, 403} : Status(c, s) /\ Exit(Second(c))
       \/ Struck(c)
       \/ Goto(c, "handle") /\ UNCHANGED reply
    /\ UNCHANGED <<clifd, conn, sent, left, request>>

(* A method that is not GET is not answered.                               *)
handleRequest(c) ==
    /\ At(c, "handle")
    /\ \/ request[c].method # "GET" /\ Exit(Second(c)) /\ UNCHANGED reply
       \/ /\ request[c].method = "GET"
          /\ \/ Struck(c)
             \/ /\ Status(c, 200)
                /\ \/ request[c].type = "none" /\ Exit(Second(c))
                   \/ request[c].type = "file" /\ Goto(c, "send")
                   \/ request[c].type = "text/cgi" /\ Goto(c, "fork")
    /\ UNCHANGED <<clifd, conn, sent, left, request>>

(* The loop that reads the file, up to its end or until it fails.          *)
SendFile(c) ==
    /\ At(c, "send")
    /\ Exit(Second(c))
    /\ UNCHANGED <<clifd, conn, httpVars>>

ForkCgi(c) ==
    /\ At(c, "fork")
    /\ \/ Fork(Second(c), Third(c), "exec", "closefd")
       \/ ~Room /\ Exit(Second(c))
    /\ UNCHANGED <<clifd, conn, httpVars>>

(* The connection is left to the program.                                  *)
CloseOwn(c) ==
    /\ At(c, "closefd")
    /\ fds' = [fds EXCEPT ![Second(c)] = @ \ {c}]
    /\ pc' = [pc EXCEPT ![Second(c)] = "wait"]
    /\ UNCHANGED <<clifd, conn, httpVars>>

WaitCgi(c) ==
    /\ At(c, "wait") /\ pc[Third(c)] = "zombie"
    /\ pc' = [pc EXCEPT ![Second(c)] = "exit", ![Third(c)] = "reaped"]
    /\ UNCHANGED <<fds, clifd, conn, httpVars>>

ExitSecond(c) ==
    /\ At(c, "exit")
    /\ Exit(Second(c))
    /\ UNCHANGED <<clifd, conn, httpVars>>

-----------------------------------------------------------------------------
(* The third process: execl, or main to its end if that fails.             *)

Execute(c) ==
    /\ pc[Third(c)] = "exec"
    /\ \/ pc' = [pc EXCEPT ![Third(c)] = "run"] /\ UNCHANGED fds
       \/ Exit(Third(c))
    /\ UNCHANGED <<clifd, conn, httpVars>>

EndProgram(c) ==
    /\ pc[Third(c)] = "run"
    /\ Exit(Third(c))
    /\ UNCHANGED <<clifd, conn, httpVars>>

-----------------------------------------------------------------------------
startServer == start_server /\ UNCHANGED httpVars

Serve(c) ==
    \/ Children(c) /\ UNCHANGED httpVars
    \/ parseRequest(c) \/ checkResource(c) \/ handleRequest(c) \/ SendFile(c)
    \/ ForkCgi(c) \/ CloseOwn(c) \/ WaitCgi(c) \/ ExitSecond(c) \/ Execute(c)

Browser(c) ==
    \/ Connect(c) /\ UNCHANGED httpVars
    \/ Leave(c) \/ \E r \in Requests : Send(c, r)

Next == startServer \/ \E c \in Conns : Serve(c) \/ EndProgram(c) \/ Browser(c)

Spec == Init /\ [][Next]_vars

(* Every process goes on.  Browsers and programs may take for ever.        *)
FairSpec == Spec /\ WF_vars(startServer) /\ \A c \in Conns : WF_vars(Serve(c))

-----------------------------------------------------------------------------
(* Properties.                                                             *)

TypeOK ==
    /\ pc \in [Procs -> Ended \union {"zombie", "accept", "fork", "close", "wait", "exit", "serve",
                          "check", "handle", "send", "closefd", "exec", "run"}]
    /\ fds \in [Procs -> SUBSET (Conns \union {Listen})]
    /\ clifd \in Conns \union {NoConn}
    /\ conn \in [Conns -> {"away", "queued", "accepted"}]
    /\ {sent[c] : c \in Conns} \union {request[c] : c \in Conns} \subseteq Requests \union {NoRequest}
    /\ left \subseteq Conns
    /\ \A c \in Conns : reply[c] \in {<<>>, <<200>>, <<403>>, <<404>>}

(* A process made for a connection holds that connection and no other, and *)
(* no process that serves one holds the socket that listens; none of those *)
(* that have ended holds anything.  So a browser sees the end of its answer *)
(* when its own processes are over, whatever else is being served, and a   *)
(* new server can take the port.                                           *)
OwnConnection ==
    /\ fds[Server] \subseteq {Listen} \union (IF pc[Server] \in {"fork", "close"} THEN {clifd} ELSE {})
    /\ \A c \in Conns :
          /\ fds[First(c)] \subseteq {c, Listen}
          /\ fds[Second(c)] \subseteq {c} \union (IF pc[Second(c)] = "close" THEN {Listen} ELSE {})
          /\ fds[Third(c)] \subseteq {c}
    /\ \A p \in Procs : pc[p] \in Ended \union {"zombie"} => fds[p] = {}

(* A process that has exited and that nobody has waited for is the child   *)
(* of one that is about to wait for it, or to exit: no zombie stays, though *)
(* the server waits for the first child only (Project1 netshell.c, 98).    *)
NoZombies ==
    \A c \in Conns :
        /\ pc[First(c)] = "zombie" => clifd = c /\ pc[Server] \in {"close", "wait"}
        /\ pc[Second(c)] = "zombie" => pc[First(c)] = "exit"
        /\ pc[Third(c)] = "zombie" => pc[Second(c)] \in {"closefd", "wait"}

(* However long other browsers and programs take, a browser that waits to  *)
(* be accepted is, unless the server has died for want of processes; and   *)
(* then it is answered and its connection ends, unless it is up to the     *)
(* browser itself, or to its program, or no process could be made for it.  *)
Over(c) == \A p \in Procs : c \notin fds[p]

Answered(c) ==
    reply[c] # <<>> \/ request[c].method = "other" \/ c \in left \/ pc[Second(c)] = "none"

EveryoneServed ==
    \A c \in Conns :
        /\ conn[c] = "queued" ~> conn[c] = "accepted" \/ pc[Server] = "dead"
        /\ conn[c] = "accepted" ~> \/ Over(c) /\ Answered(c)
                                   \/ sent[c] = NoRequest /\ c \notin left
                                   \/ pc[Third(c)] = "run"
=============================================================================
