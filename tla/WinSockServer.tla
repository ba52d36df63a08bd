--------------------------- MODULE WinSockServer ---------------------------
(***************************************************************************)
(* The HTTP server with its batch client built in (Project3/Part3_WinSock) *)
(* is one thread that handles the messages of a window.  Winsock posts a   *)
(* message when a browser connects, when a socket has something to read    *)
(* and when its other end has closed; a handler runs to its end before the *)
(* next message is looked at, so that a message may speak of a socket that *)
(* has been closed since, and whose number has been given out again.       *)
(*                                                                         *)
(* The numbers of sockets are the keys of everything: web[i].websocket,    *)
(* web[i].clients[j].clifd and web_clifd_map.                              *)
(*                                                                         *)
(* What is sent and shown is left out, but for who gets it; the batch      *)
(* files too: a host answers what it likes, whatever it has been sent.     *)
(***************************************************************************)
EXTENDS Naturals, Sequences, FiniteSets

CONSTANTS
    Browsers,   \* connections from browsers, one request each
    NoBody,     \* the owner of a number that is not in use
    MaxConn,    \* MAXCONN, the length of web[]
    MaxCell,    \* MAX_CLIENTS, the hosts of a page
    Socks,      \* the numbers of sockets
    NULL,       \* no socket
    Queries,    \* what browsers ask for
    Kinds       \* the kinds of behaviours, see AllKinds

Records == 1..MaxConn
Cells == 1..MaxCell

(* A page of the server, and the cells of it that have a host, each with   *)
(* how that answers when it is connected to.                               *)
Answers    == {"none", "on", "refused"}
AllQueries == [path : {"form_get.htm", "hw3.cgi", "other"}, hosts : [Cells -> Answers]]

(* "waiting": browsers wait until the server closes their connection.      *)
(* "fresh": the system gives out no number that the server still knows.    *)
(* "any": neither.                                                         *)
AllKinds == {"waiting", "fresh", "any"}

ASSUME WinSockServerAssumption ==
    /\ NoBody \notin Browsers
    /\ NULL \notin Socks
    /\ {MaxConn, MaxCell} \subseteq Nat \ {0}
    /\ Queries \subseteq AllQueries
    /\ Kinds \subseteq AllKinds

VARIABLES
    kind,       \* the kind of this behaviour
    web,        \* web[i]: websocket and clients
    map,        \* map[c]: web_clifd_map.at(c), 0 if there is nothing
    owner,      \* owner[n]: what the socket number n is, see Owners
    queue,      \* the messages posted to the window
    page,       \* page[b]: how far the browser b has come
    asked,      \* asked[b]: what it asks for
    host,       \* host[b][j]: the host in cell j of its page, also if nobody asks
    unread,     \* the numbers of sockets from which something can be read
    overrun     \* the record after the last one has been written to

win_vars == <<kind, web, map, owner, queue, page, asked, host, unread, overrun>>


Client   == [clifd : Socks \union {NULL}, active : BOOLEAN]
NoClient == [clifd |-> NULL, active |-> FALSE]

(* The socket of a browser has the cell 0.                                 *)
Owners == [who : Browsers \union {NoBody}, cell : 0..MaxCell]
Free   == [who |-> NoBody, cell |-> 0]

Message == [about : {"web", "cgi"}, event : {"read", "close"}, sock : Socks]
Post(a, e, n) == queue' = Append(queue, [about |-> a, event |-> e, sock |-> n])

Nothing == [path |-> "other", hosts |-> [j \in Cells |-> "none"]]

WinInit ==
    /\ kind \in Kinds
    /\ web = [i \in Records |-> [websocket |-> NULL, clients |-> [j \in Cells |-> NoClient]]]
    /\ map = [c \in Socks |-> 0]
    /\ owner = [n \in Socks |-> Free]
    /\ queue = <<>>
    /\ page = [b \in Browsers |-> "away"]
    /\ asked = [b \in Browsers |-> Nothing]
    /\ host = [b \in Browsers \union {NoBody} |-> [j \in Cells |-> "none"]]
    /\ unread = {}
    /\ overrun = FALSE

-----------------------------------------------------------------------------
(* Browsers and hosts.                                                     *)

Ask(b, r) ==
    /\ page[b] = "accepted"
    /\ \E n \in Socks :
          /\ owner[n] = [who |-> b, cell |-> 0]
          /\ Post("web", "read", n)
          /\ unread' = unread \union {n}
    /\ page' = [page EXCEPT ![b] = "asked"]
    /\ asked' = [asked EXCEPT ![b] = r]
    /\ UNCHANGED <<kind, web, map, owner, host, overrun>>

LeaveBrowser(b) ==
    /\ kind # "waiting" /\ page[b] \in {"accepted", "asked", "served"}
    /\ \E n \in Socks : owner[n] = [who |-> b, cell |-> 0] /\ Post("web", "close", n)
    /\ page' = [page EXCEPT ![b] = "left"]
    /\ UNCHANGED <<kind, web, map, owner, asked, host, unread, overrun>>

(* FD_READ is posted again only when what is there has been read, and      *)
(* FD_CLOSE when all has been read.                                        *)
Talk(n) ==
    LET o == owner[n]
    IN  /\ o.cell # 0 /\ n \notin unread
        /\ host[o.who][o.cell] = "on"
        /\ Post("cgi", "read", n)
        /\ unread' = unread \union {n}
        /\ UNCHANGED <<kind, web, map, owner, page, asked, host, overrun>>

HangUp(n) ==
    LET o == owner[n]
    IN  /\ o.cell # 0 /\ n \notin unread
        /\ host[o.who][o.cell] = "on"
        /\ Post("cgi", "close", n)
        /\ host' = [host EXCEPT ![o.who][o.cell] = "ended"]
        /\ UNCHANGED <<kind, web, map, owner, page, asked, unread, overrun>>

-----------------------------------------------------------------------------
(* The window.  A handler takes the first message.                         *)

Is(a, e) ==
    /\ ~overrun /\ queue # <<>>
    /\ Head(queue).about = a /\ Head(queue).event = e

(* closesocket: what has been posted stays in the queue.                   *)
Shut(S) ==
    /\ owner' = [n \in Socks |-> IF n \in S THEN Free ELSE owner[n]]
    /\ unread' = unread \ S
    /\ page' = [b \in Browsers |->
                  IF page[b] # "left" /\ \E n \in S \ {NULL} : owner[n] = [who |-> b, cell |-> 0]
                  THEN "done" ELSE page[b]]

(* The numbers the system may give out next.                               *)
Known  == {queue[k].sock : k \in DOMAIN queue}
          \union {web[i].websocket : i \in Records} \union {c \in Socks : map[c] # 0}
Unused == {n \in Socks : owner[n] = Free /\ (kind = "fresh" => n \notin Known)}

(* FD_ACCEPT.  When the browser connected makes no difference: its message *)
(* may have been posted between any two others.                            *)
AcceptBrowser(b) ==
    /\ ~overrun /\ page[b] = "away"
    /\ \E n \in Unused : owner' = [owner EXCEPT ![n] = [who |-> b, cell |-> 0]]
    /\ page' = [page EXCEPT ![b] = "accepted"]
    /\ UNCHANGED <<kind, web, map, queue, asked, host, unread, overrun>>

(* The record of a browser: the one that has its number, or the first with *)
(* none, or one past the end.                                              *)
Index(n) ==
    LET known == {i \in Records : web[i].websocket = n}
        idle  == {i \in Records : web[i].websocket = NULL}
        First(S) == CHOOSE i \in S : \A k \in S : i <= k
    IN  CASE known # {} -> First(known)
          [] known = {} /\ idle # {} -> First(idle)
          [] OTHER -> MaxConn + 1

(* What recv leaves in the request if there is nothing to receive is what  *)
(* the memory held.                                                        *)
Received(n) ==
    IF n \in unread /\ owner[n].cell = 0 THEN {asked[owner[n].who]} ELSE Queries

Overrun ==
    /\ Is("web", "read")
    /\ Index(Head(queue).sock) > MaxConn
    /\ overrun' = TRUE
    /\ queue' = Tail(queue)
    /\ UNCHANGED <<kind, web, map, owner, page, asked, host, unread>>

(* form_get.htm and whatever is not hw3.cgi.  After the form the record    *)
(* keeps the number of the socket that has been closed.                    *)
AnswerPage ==
    LET n == Head(queue).sock
        i == Index(n)
    IN  /\ Is("web", "read") /\ i <= MaxConn
        /\ \E r \in Received(n) :
              /\ r.path # "hw3.cgi"
              /\ web' = [web EXCEPT ![i].websocket = IF r.path = "other" THEN NULL ELSE n]
        /\ Shut({n})
        /\ queue' = Tail(queue)
        /\ UNCHANGED <<kind, map, asked, host, overrun>>

(* (Changed by a mutation: the index counted from one twice.)              *)
Entered_next(S, i) == [c \in Socks |-> IF c \in S THEN i + 1 ELSE map[c]]

(* connectServer enters the connections it makes for the record i.         *)
Entered(S, i) == [c \in Socks |-> IF c \in S THEN i ELSE map[c]]

(* hw3.cgi: parseQueryString, openBatchFile, connectServer and             *)
(* WSAAsyncSelect for each host.  A connection that is refused is not      *)
(* reported by any of the events that have been asked for.                 *)
StartBatch ==
    LET n == Head(queue).sock
        i == Index(n)
    IN  /\ Is("web", "read") /\ i <= MaxConn
        /\ \E r \in Received(n) :
              LET want == {j \in Cells : r.hosts[j] # "none"}
                  b    == IF owner[n].cell = 0 THEN owner[n].who ELSE NoBody
              IN  /\ r.path = "hw3.cgi"
                  /\ \E new \in [want -> Unused] :
                        /\ \A j, k \in want : j # k => new[j] # new[k]
                        /\ web' = [web EXCEPT ![i] =
                              [websocket |-> n,
                               clients |-> [j \in Cells |->
                                  IF j \in want THEN [clifd |-> new[j], active |-> TRUE]
                                  ELSE [web[i].clients[j] EXCEPT !.active = FALSE]]]]
                        /\ map' = Entered({new[j] : j \in want}, i)
                        /\ owner' = [c \in Socks |->
                              IF \E j \in want : new[j] = c
                              THEN [who |-> b, cell |-> CHOOSE j \in want : new[j] = c]
                              ELSE owner[c]]
                  /\ host' = [host EXCEPT ![b] = r.hosts]
                  /\ page' = [a \in Browsers |-> IF a = b /\ page[a] = "asked" THEN "served" ELSE page[a]]
        /\ unread' = unread \ {n}
        /\ queue' = Tail(queue)
        /\ UNCHANGED <<kind, asked, overrun>>

(* (Changed by a mutation: the cells are not cleared.)                     *)
WebClose_kept ==
    LET n == Head(queue).sock
        S == {i \in Records : web[i].websocket = n}
    IN  /\ Is("web", "close")
        /\ web' = [i \in Records |-> IF i \in S THEN [web[i] EXCEPT !.websocket = NULL] ELSE web[i]]
        /\ IF S # {} THEN Shut({n}) ELSE UNCHANGED <<owner, unread, page>>
        /\ queue' = Tail(queue)
        /\ UNCHANGED <<kind, map, asked, host, overrun>>

(* FD_CLOSE of a browser: its hosts are told to exit and are forgotten,    *)
(* their sockets stay open.                                                *)
WebClose ==
    LET n == Head(queue).sock
        S == {i \in Records : web[i].websocket = n}
    IN  /\ Is("web", "close")
        /\ web' = [i \in Records |->
                     IF i \in S THEN [websocket |-> NULL, clients |-> [j \in Cells |-> NoClient]]
                     ELSE web[i]]
        /\ IF S # {} THEN Shut({n}) ELSE UNCHANGED <<owner, unread, page>>
        /\ queue' = Tail(queue)
        /\ UNCHANGED <<kind, map, asked, host, overrun>>

(* The cells of the record i that work with the socket n.                  *)
Working(i, n) == {j \in Cells : web[i].clients[j] = [clifd |-> n, active |-> TRUE]}

CgiRead ==
    LET n == Head(queue).sock
    IN  /\ Is("cgi", "read") /\ map[n] # 0
        /\ unread' = IF Working(map[n], n) # {} THEN unread \ {n} ELSE unread
        /\ queue' = Tail(queue)
        /\ UNCHANGED <<kind, web, map, owner, page, asked, host, overrun>>

(* (Changed by a mutation: the record is looked at before it is cleared.)  *)
check_end_early(i, W) == \A j \in Cells : ~web[i].clients[j].active

(* (Changed by a mutation: the end of the first host ends the page.)       *)
check_end_first(i, W) == W # {}

(* No cell of the record i is active, once those of W have been cleared.   *)
check_end(i, W) == \A j \in Cells : web[i].clients[j].active => j \in W

(* The connection to the browser is closed when no cell is active, whoever *)
(* the record belongs to by now; it keeps the number of the socket.        *)
CgiClose ==
    LET n == Head(queue).sock
        i == map[n]
        W == Working(i, n)
    IN  /\ Is("cgi", "close") /\ map[n] # 0
        /\ web' = [web EXCEPT ![i].clients =
                      [j \in Cells |-> IF j \in W THEN NoClient ELSE @[j]]]
        /\ Shut((IF W # {} THEN {n} ELSE {}) \union (IF check_end(i, W) THEN {web[i].websocket} ELSE {}))
        /\ queue' = Tail(queue)
        /\ UNCHANGED <<kind, map, asked, host, overrun>>

-----------------------------------------------------------------------------
Window == Overrun \/ AnswerPage \/ StartBatch \/ WebClose \/ CgiRead \/ CgiClose

World ==
    \/ \E b \in Browsers : AcceptBrowser(b) \/ LeaveBrowser(b) \/ \E r \in Queries : Ask(b, r)
    \/ \E n \in Socks : Talk(n) \/ HangUp(n)

WinNext == Window \/ World

WinSpec == WinInit /\ [][WinNext]_win_vars

-----------------------------------------------------------------------------
(* Properties.                                                             *)

WinTypeOK ==
    /\ kind \in Kinds
    /\ web \in [Records -> [websocket : Socks \union {NULL}, clients : [Cells -> Client]]]
    /\ map \in [Socks -> 0..MaxConn]
    /\ owner \in [Socks -> Owners]
    /\ queue \in Seq(Message)
    /\ page \in [Browsers -> {"away", "accepted", "asked", "served", "done", "left"}]
    /\ asked \in [Browsers -> AllQueries]
    /\ host \in [Browsers \union {NoBody} -> [Cells -> Answers \union {"ended"}]]
    /\ unread \subseteq Socks
    /\ overrun \in BOOLEAN

(* What a host says appears in its own cell of the page that asked for it: *)
(* a cell at work has its own connection, its record the socket of the     *)
(* browser that asked for it, and the map the number of that record.  And  *)
(* a message is never about a number the map lacks: "at" would throw what  *)
(* no handler catches (NP_hw3.cpp, 564-571 and 606-613).                   *)
OwnPage ==
    /\ \A i \in Records, j \in Cells :
        LET c == web[i].clients[j].clifd
            w == web[i].websocket
        IN  web[i].clients[j].active =>
               /\ c # NULL /\ w # NULL
               /\ map[c] = i
               /\ owner[c].cell = j /\ owner[w] = [who |-> owner[c].who, cell |-> 0]
    /\ \A k \in DOMAIN queue : queue[k].about = "cgi" => map[queue[k].sock] # 0

(* A page all of whose hosts have ended is closed, or there is a message   *)
(* that will close it: no end of a connection is missed, although nothing  *)
(* but the last of them closes the page.                                   *)
Announced(b) ==
    \E k \in DOMAIN queue :
        LET m == queue[k]
        IN  m.about = "cgi" /\ m.event = "close" /\ owner[m.sock].who = b

PageEnds ==
    \A b \in Browsers :
        /\ page[b] = "served"
        /\ \E j \in Cells : host[b][j] # "none"
        /\ \A j \in Cells : host[b][j] \in {"none", "ended"}
        => Announced(b)

(* The server closes a page only when none of its hosts is still there: no *)
(* late message about another page, or a former socket, cuts it off.       *)
PageWhole ==
    [][\A b \in Browsers : page[b] = "served" /\ page'[b] = "done" =>
           \A j \in Cells : host[b][j] # "on"]_win_vars

-----------------------------------------------------------------------------
(* What a branch of the code takes for granted, and is not so.             *)

(* NP_hw3.cpp, 470-475: a browser for whom there is no record left is told *)
(* so ("FULL").  The condition of that branch is never true, and the       *)
(* record after the last is used instead.                                  *)
InBounds == ~overrun
=============================================================================
