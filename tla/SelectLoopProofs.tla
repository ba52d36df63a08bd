-------------------------- MODULE SelectLoopProofs --------------------------
(***************************************************************************)
(* The select loop for any number of clients and descriptors: the sets of  *)
(* select and the records of the clients stay those of each other, while   *)
(* clients come and go between the select and the end of the scan.         *)
(*                                                                         *)
(* What has to be known besides: the backlog holds the clients that wait,  *)
(* each once; the bit of the listening socket is set only while one waits; *)
(* and of the bits of a scan only the lowest can belong to a client whose  *)
(* input has been read, the one that is served.                            *)
(***************************************************************************)
EXTENDS SelectLoop, TLAPS

HeldHave == \A c \in Held : sock[c] \in Sockets

Queue ==
    /\ \A i \in 1..Len(backlog) : conn[backlog[i]] = "queued"
    /\ \A i, j \in 1..Len(backlog) : backlog[i] = backlog[j] => i = j
    /\ Listen \in todo => backlog # <<>>

Owners ==
    /\ pc = "select" => todo = {}
    /\ pc # "dead" =>
          \A fd \in todo \ {Listen} :
              \E c \in Held : /\ sock[c] = fd
                              /\ c \in inbox \union Closed \/ (pc = "serve" /\ At(fd))

Counted ==
    /\ pc \in {"select", "scan"} => pieces = 0
    /\ pc = "serve" /\ batch # "part" => pieces = 0
    /\ \A c \in Clients :
          pc = "serve" /\ Turn(c) /\ c \in inbox /\ pieces = MaxPieces => last[c] # "part"

IInv == TypeOK /\ WatchedAreHeld /\ HeldHave /\ Queue /\ Owners /\ Counted

-----------------------------------------------------------------------------
(* The lowest bit is one.                                                  *)
LEMMA OneTurn ==
    ASSUME IInv
    PROVE  /\ todo \subseteq Nat
           /\ \A fd, g : At(fd) /\ At(g) => fd = g
           /\ \A c, d \in Clients : Turn(c) /\ Turn(d) => c = d
  <1>1. todo \subseteq Nat
    BY SelectLoopAssumption DEF IInv, TypeOK, Listen
  <1>2. \A fd, g : At(fd) /\ At(g) => fd = g
    <2> SUFFICES ASSUME NEW fd, NEW g, At(fd), At(g) PROVE fd = g
      OBVIOUS
    <2>1. fd \in Nat /\ g \in Nat /\ fd <= g /\ g <= fd
      BY <1>1 DEF At
    <2> QED
      BY <2>1
  <1>3. \A c, d \in Clients : Turn(c) /\ Turn(d) => c = d
    BY <1>2 DEF Turn, IInv, WatchedAreHeld
  <1> QED
    BY <1>1, <1>2, <1>3

(* Steps of clients: nothing the server keeps changes, and whoever it has  *)
(* a socket of stays.                                                      *)
LEMMA ClientKeeps ==
    ASSUME IInv, UNCHANGED server,
           conn' \in [Clients -> {"away", "queued", "open", "closed"}],
           backlog' \in Seq(Clients), inbox' \subseteq Clients, last' \in [Clients -> Ends],
           manners' = manners, inbox \subseteq inbox', full' \subseteq Clients,
           Held' = Held, Closed \subseteq Closed',
           \A i \in 1..Len(backlog') : conn'[backlog'[i]] = "queued",
           \A i, j \in 1..Len(backlog') : backlog'[i] = backlog'[j] => i = j,
           backlog # <<>> => backlog' # <<>>,
           \A c \in Clients :
              pc = "serve" /\ Turn(c) /\ c \in inbox' /\ pieces = MaxPieces => last'[c] # "part"
    PROVE  IInv'
  <1>1. UNCHANGED <<sock, allfds, todo, batch, pieces, hit, pc>>
    BY DEF server
  <1>2. TypeOK'
    BY <1>1 DEF IInv, TypeOK
  <1>3. WatchedAreHeld' /\ HeldHave'
    BY <1>1 DEF IInv, WatchedAreHeld, HeldHave
  <1>4. Queue'
    BY <1>1 DEF IInv, Queue
  <1>5. \A fd : At(fd)' <=> At(fd)
    BY <1>1 DEF At
  <1>6. Owners'
    BY <1>1, <1>5 DEF IInv, Owners
  <1>7. \A c \in Clients : Turn(c)' <=> Turn(c)
    BY <1>1 DEF Turn, At
  <1>8. Counted'
    BY <1>1, <1>7 DEF IInv, Counted
  <1> QED
    BY <1>2, <1>3, <1>4, <1>6, <1>8 DEF IInv

LEMMA ConnectKeeps ==
    ASSUME IInv, NEW c \in Clients, Connect(c)
    PROVE  IInv'
  <1>1. /\ conn[c] = "away" /\ conn' = [conn EXCEPT ![c] = "queued"]
        /\ backlog' = Append(backlog, c) /\ UNCHANGED <<server, manners, full, inbox, last>>
        /\ backlog \in Seq(Clients) /\ conn \in [Clients -> {"away", "queued", "open", "closed"}]
    BY DEF Connect, IInv, TypeOK
  <1>2. \A d \in Clients : conn'[d] = IF d = c THEN "queued" ELSE conn[d]
    BY <1>1
  <1>3. Held' = Held /\ Closed' = Closed
    BY <1>1, <1>2 DEF Held, Closed
  <1>4. /\ Len(backlog) \in Nat /\ Len(backlog') = Len(backlog) + 1
        /\ \A i \in 1..Len(backlog) : backlog'[i] = backlog[i] /\ backlog[i] \in Clients
        /\ backlog'[Len(backlog) + 1] = c /\ backlog' # <<>>
        /\ backlog' \in Seq(Clients)
    BY <1>1
  <1>5. \A i \in 1..Len(backlog') : i \in 1..Len(backlog) \/ i = Len(backlog) + 1
    BY <1>4
  <1>6. \A i \in 1..Len(backlog') : conn'[backlog'[i]] = "queued"
    BY <1>1, <1>2, <1>4, <1>5 DEF IInv, Queue
  <1>7. \A i \in 1..Len(backlog) : backlog[i] # c
    BY <1>1 DEF IInv, Queue
  <1>8. \A i, j \in 1..Len(backlog') : backlog'[i] = backlog'[j] => i = j
    BY <1>4, <1>5, <1>7 DEF IInv, Queue
  <1>9. \A d \in Clients :
           pc = "serve" /\ Turn(d) /\ d \in inbox' /\ pieces = MaxPieces => last'[d] # "part"
    BY <1>1 DEF IInv, Counted
  <1>10. conn' \in [Clients -> {"away", "queued", "open", "closed"}]
         /\ inbox' \subseteq Clients /\ last' \in [Clients -> Ends]
        /\ full' \subseteq Clients
    BY <1>1 DEF IInv, TypeOK
  <1> QED
    BY <1>1, <1>3, <1>4, <1>6, <1>8, <1>9, <1>10, ClientKeeps

LEMMA SendKeeps ==
    ASSUME IInv, NEW c \in Clients, NEW end \in Ends, Send(c, end)
    PROVE  IInv'
  <1>1. /\ inbox' = inbox \union {c} /\ last' = [last EXCEPT ![c] = end]
        /\ UNCHANGED <<server, manners, full, conn, backlog>>
        /\ ~(end = "part" /\ pc = "serve" /\ Turn(c) /\ pieces = MaxPieces)
        /\ last \in [Clients -> Ends]
    BY DEF Send, IInv, TypeOK
  <1>2. Held' = Held /\ Closed' = Closed
    BY <1>1 DEF Held, Closed
  <1>3. \A d \in Clients : last'[d] = IF d = c THEN end ELSE last[d]
    BY <1>1
  <1>4. \A d \in Clients :
           pc = "serve" /\ Turn(d) /\ d \in inbox' /\ pieces = MaxPieces => last'[d] # "part"
    BY <1>1, <1>3 DEF IInv, Counted
  <1>5. /\ conn' \in [Clients -> {"away", "queued", "open", "closed"}]
        /\ backlog' \in Seq(Clients) /\ inbox' \subseteq Clients /\ last' \in [Clients -> Ends]
        /\ full' \subseteq Clients
    BY <1>1 DEF IInv, TypeOK
  <1>6. /\ \A i \in 1..Len(backlog') : conn'[backlog'[i]] = "queued"
        /\ \A i, j \in 1..Len(backlog') : backlog'[i] = backlog'[j] => i = j
    BY <1>1 DEF IInv, Queue
  <1> QED
    BY <1>1, <1>2, <1>4, <1>5, <1>6, ClientKeeps

LEMMA HangUpKeeps ==
    ASSUME IInv, NEW c \in Clients, HangUp(c)
    PROVE  IInv'
  <1>1. /\ conn[c] = "open" /\ conn' = [conn EXCEPT ![c] = "closed"]
        /\ full' = full \ {c} /\ UNCHANGED <<server, manners, backlog, inbox, last>>
        /\ conn \in [Clients -> {"away", "queued", "open", "closed"}]
    BY DEF HangUp, IInv, TypeOK
  <1>2. \A d \in Clients : conn'[d] = IF d = c THEN "closed" ELSE conn[d]
    BY <1>1
  <1>3. Held' = Held /\ Closed \subseteq Closed'
    BY <1>1, <1>2 DEF Held, Closed
  <1>4. \A i \in 1..Len(backlog) : backlog[i] \in Clients /\ backlog[i] # c
    BY <1>1 DEF IInv, TypeOK, Queue
  <1>5. /\ \A i \in 1..Len(backlog') : conn'[backlog'[i]] = "queued"
        /\ \A i, j \in 1..Len(backlog') : backlog'[i] = backlog'[j] => i = j
    BY <1>1, <1>2, <1>4 DEF IInv, Queue
  <1>6. \A d \in Clients :
           pc = "serve" /\ Turn(d) /\ d \in inbox' /\ pieces = MaxPieces => last'[d] # "part"
    BY <1>1 DEF IInv, Counted
  <1>7. /\ conn' \in [Clients -> {"away", "queued", "open", "closed"}]
        /\ backlog' \in Seq(Clients) /\ inbox' \subseteq Clients /\ last' \in [Clients -> Ends]
        /\ full' \subseteq Clients
    BY <1>1 DEF IInv, TypeOK
  <1> QED
    BY <1>1, <1>3, <1>5, <1>6, <1>7, ClientKeeps

LEMMA DrainKeeps ==
    ASSUME IInv, NEW c \in Clients, Drain(c)
    PROVE  IInv'
  <1>1. /\ full' = full \ {c}
        /\ UNCHANGED <<server, manners, conn, backlog, inbox, last>>
    BY DEF Drain, client
  <1>2. Held' = Held /\ Closed' = Closed
    BY <1>1 DEF Held, Closed
  <1>3. /\ conn' \in [Clients -> {"away", "queued", "open", "closed"}]
        /\ backlog' \in Seq(Clients) /\ inbox' \subseteq Clients /\ last' \in [Clients -> Ends]
        /\ full' \subseteq Clients
    BY <1>1 DEF IInv, TypeOK
  <1>4. \A d \in Clients :
           pc = "serve" /\ Turn(d) /\ d \in inbox' /\ pieces = MaxPieces => last'[d] # "part"
    BY <1>1 DEF IInv, Counted
  <1>5. /\ \A i \in 1..Len(backlog') : conn'[backlog'[i]] = "queued"
        /\ \A i, j \in 1..Len(backlog') : backlog'[i] = backlog'[j] => i = j
    BY <1>1 DEF IInv, Queue
  <1> QED
    BY <1>1, <1>2, <1>3, <1>4, <1>5, ClientKeeps

-----------------------------------------------------------------------------
(* Steps of the server.                                                    *)

LEMMA SelectKeeps ==
    ASSUME IInv, Select
    PROVE  IInv'
  <1>1. /\ pc = "select" /\ pc' = "scan" /\ todo' = allfds \cap Ready
        /\ UNCHANGED <<manners, conn, backlog, inbox, last, sock, allfds, batch, pieces, hit, full>>
    BY DEF Select, client
  <1>2. Held' = Held /\ Closed' = Closed
    BY <1>1 DEF Held, Closed
  <1>3. TypeOK'
    BY <1>1 DEF IInv, TypeOK
  <1>4. WatchedAreHeld' /\ HeldHave'
    BY <1>1, <1>2 DEF IInv, WatchedAreHeld, HeldHave
  <1>5. Queue'
    <2>1. \A c \in Held : sock[c] # Listen
      BY SelectLoopAssumption DEF IInv, HeldHave
    <2>2. Listen \in Ready => backlog # <<>>
      BY <2>1 DEF Ready
    <2> QED
      BY <1>1, <2>2 DEF IInv, Queue
  <1>6. Owners'
    <2>1. \A fd \in Ready \ {Listen} : \E c \in Held : sock[c] = fd /\ c \in inbox \union Closed
      BY DEF Ready
    <2> QED
      BY <1>1, <1>2, <2>1 DEF Owners
  <1>7. Counted'
    BY <1>1 DEF IInv, Counted
  <1> QED
    BY <1>3, <1>4, <1>5, <1>6, <1>7 DEF IInv

LEMMA AcceptKeeps ==
    ASSUME IInv, Accept
    PROVE  IInv'
  <1>1. PICK fd \in Sockets \ allfds :
           /\ sock' = [sock EXCEPT ![Head(backlog)] = fd]
           /\ allfds' = allfds \union {fd}
    BY DEF Accept
  <1>2. PICK c : c = Head(backlog)
    OBVIOUS
  <1>3. /\ pc = "scan" /\ Listen \in todo
        /\ conn' = [conn EXCEPT ![c] = "open"] /\ sock' = [sock EXCEPT ![c] = fd]
        /\ backlog' = Tail(backlog) /\ todo' = todo \ {Listen}
        /\ UNCHANGED <<manners, inbox, last, batch, pieces>>
        /\ pc' \in {"scan", "dead"} /\ hit' \subseteq hit \union Closed
        /\ full' \subseteq full \union Held \union {c}
    BY <1>1, <1>2 DEF Accept, At, Write
  <1>4. /\ backlog \in Seq(Clients) /\ backlog # <<>> /\ Len(backlog) \in Nat \ {0}
        /\ c \in Clients /\ conn[c] = "queued" /\ c = backlog[1]
        /\ conn \in [Clients -> {"away", "queued", "open", "closed"}]
        /\ sock \in [Clients -> Sockets \union {0}]
    BY <1>2, <1>3 DEF IInv, TypeOK, Queue
  <1>5. /\ \A d \in Clients : conn'[d] = IF d = c THEN "open" ELSE conn[d]
        /\ \A d \in Clients : sock'[d] = IF d = c THEN fd ELSE sock[d]
    BY <1>3, <1>4
  <1>6. c \notin Held /\ Held' = Held \union {c} /\ Closed' = Closed
    BY <1>4, <1>5 DEF Held, Closed
  <1>7. TypeOK'
    <2>1. backlog' \in Seq(Clients)
      BY <1>3, <1>4
    <2>2. hit' \subseteq Clients /\ full' \subseteq Clients
      BY <1>3, <1>4 DEF IInv, TypeOK, Closed, Held
    <2>3. conn' \in [Clients -> {"away", "queued", "open", "closed"}]
          /\ sock' \in [Clients -> Sockets \union {0}]
      BY <1>3, <1>4
    <2> QED
      BY <1>1, <1>3, <2>1, <2>2, <2>3 DEF IInv, TypeOK
  <1>8. WatchedAreHeld'
    <2>1. \A d \in Held : sock'[d] = sock[d] /\ sock[d] # fd /\ d \in Clients
      BY <1>1, <1>5, <1>6 DEF IInv, WatchedAreHeld, Held
    <2>2. sock'[c] = fd
      BY <1>4, <1>5
    <2>3. allfds' = {Listen} \union {sock'[d] : d \in Held'}
      BY <1>1, <1>6, <2>1, <2>2 DEF IInv, WatchedAreHeld
    <2>4. \A d, e \in Held' : sock'[d] = sock'[e] => d = e
      BY <1>6, <2>1, <2>2 DEF IInv, WatchedAreHeld
    <2> QED
      BY <2>3, <2>4 DEF WatchedAreHeld
  <1>9. HeldHave'
    BY <1>1, <1>4, <1>5, <1>6 DEF IInv, HeldHave, Held
  <1>10. Queue'
    <2>1. /\ Len(backlog') = Len(backlog) - 1
          /\ \A i \in 1..Len(backlog') : /\ backlog'[i] = backlog[i + 1]
                                         /\ i + 1 \in 1..Len(backlog) /\ i + 1 # 1
      BY <1>3, <1>4
    <2>2. \A i \in 1..Len(backlog') : backlog'[i] # c /\ backlog'[i] \in Clients
      BY <1>4, <2>1 DEF IInv, Queue
    <2>3. \A i \in 1..Len(backlog') : conn'[backlog'[i]] = "queued"
      BY <1>5, <2>1, <2>2 DEF IInv, Queue
    <2>4. \A i, j \in 1..Len(backlog') : backlog'[i] = backlog'[j] => i = j
      <3>1. \A i, j \in 1..Len(backlog) : backlog[i] = backlog[j] => i = j
        BY DEF IInv, Queue
      <3>2. \A i, j \in 1..Len(backlog') : i + 1 = j + 1 => i = j
        OBVIOUS
      <3> QED
        BY <2>1, <3>1, <3>2
    <2> QED
      BY <1>3, <2>3, <2>4 DEF Queue
  <1>11. Owners'
    BY <1>3, <1>5, <1>6 DEF IInv, Owners, Held
  <1>12. Counted'
    BY <1>3 DEF IInv, Counted
  <1> QED
    BY <1>7, <1>8, <1>9, <1>10, <1>11, <1>12 DEF IInv

LEMMA ReadKeeps ==
    ASSUME IInv, NEW c \in Clients, Read(c)
    PROVE  IInv'
  <1>1. /\ Turn(c) /\ (pc = "scan" \/ (pc = "serve" /\ batch = "part")) /\ c \in inbox
        /\ inbox' = inbox \ {c} /\ batch' \in Batches(last[c]) /\ pc' = "serve"
        /\ pieces' = IF last[c] = "part" THEN pieces + 1 ELSE 0
        /\ UNCHANGED <<manners, conn, backlog, last, sock, allfds, todo, hit, full>>
    BY DEF Read, Reading
  <1>2. Held' = Held /\ Closed' = Closed /\ (\A d \in Clients : Turn(d)' <=> Turn(d))
    BY <1>1 DEF Held, Closed, Turn, At
  <1>3. pieces' \in 0..MaxPieces
    <2>1. MaxPieces \in Nat /\ MaxPieces # 0 /\ pieces \in 0..MaxPieces
      BY SelectLoopAssumption DEF IInv, TypeOK
    <2>2. last[c] = "part" => pieces # MaxPieces
      BY <1>1, <2>1 DEF IInv, Counted
    <2> QED
      BY <1>1, <2>1, <2>2
  <1>30. /\ batch' \in Ends \union {"yell", "endless"}
         /\ last[c] = "part" => batch' = "part"
    <2>1. last[c] \in Ends
      BY DEF IInv, TypeOK
    <2>2. CASE last[c] = "part"
      BY <1>1, <2>2 DEF Batches, Ends
    <2>3. CASE last[c] = "lines"
      BY <1>1, <2>3 DEF Batches, Ends
    <2>4. CASE last[c] = "exit"
      BY <1>1, <2>4 DEF Batches, Ends
    <2> QED
      BY <2>1, <2>2, <2>3, <2>4 DEF Ends
  <1>4. TypeOK'
    BY <1>1, <1>3, <1>30 DEF IInv, TypeOK
  <1>5. WatchedAreHeld' /\ HeldHave' /\ Queue'
    BY <1>1, <1>2 DEF IInv, WatchedAreHeld, HeldHave, Queue
  <1>6. Owners'
    <2>1. \A fd \in todo \ {Listen} :
             \E d \in Held : sock[d] = fd /\ (d \in inbox \union Closed \/ At(fd))
      BY <1>1 DEF IInv, Owners
    <2>2. At(sock[c]) /\ c \in Held
      BY <1>1 DEF Turn
    <2>3. \A fd \in todo \ {Listen} :
             \E d \in Held : sock[d] = fd /\ (d \in inbox' \union Closed \/ At(fd))
      <3> SUFFICES ASSUME NEW fd \in todo \ {Listen}
                   PROVE  \E d \in Held : sock[d] = fd /\ (d \in inbox' \union Closed \/ At(fd))
        OBVIOUS
      <3>1. PICK d \in Held : sock[d] = fd /\ (d \in inbox \union Closed \/ At(fd))
        BY <2>1
      <3> QED
        BY <1>1, <2>2, <3>1
    <2>4. \A fd : At(fd)' <=> At(fd)
      BY <1>1 DEF At
    <2> QED
      BY <1>1, <1>2, <2>3, <2>4 DEF Owners
  <1>7. Counted'
    <2>1. \A d \in Clients : Turn(d)' => d = c
      BY <1>1, <1>2, OneTurn
    <2> QED
      BY <1>1, <1>30, <2>1 DEF IInv, Counted
  <1> QED
    BY <1>4, <1>5, <1>6, <1>7 DEF IInv

(* The scan leaves the bit it has served.                                  *)
LEMMA NextBit ==
    ASSUME IInv, NEW c \in Clients, Turn(c), pc \in {"scan", "serve"},
           todo' = todo \ {sock[c]}
    PROVE  \A fd \in todo' \ {Listen} :
              \E d \in Held \ {c} : sock[d] = fd /\ d \in inbox \union Closed
  <1> SUFFICES ASSUME NEW fd \in todo' \ {Listen}
               PROVE  \E d \in Held \ {c} : sock[d] = fd /\ d \in inbox \union Closed
    OBVIOUS
  <1>1. PICK d \in Held : sock[d] = fd /\ (d \in inbox \union Closed \/ (pc = "serve" /\ At(fd)))
    BY DEF IInv, Owners
  <1>2. fd # sock[c] /\ ~At(fd)
    BY OneTurn DEF Turn
  <1> QED
    BY <1>1, <1>2

(* A client has been served, and is still there.                           *)
LEMMA ServedKeeps ==
    ASSUME IInv, NEW c \in Clients, Turn(c), pc \in {"scan", "serve"},
           pc = "serve" => batch # "part",
           todo' = todo \ {sock[c]}, UNCHANGED <<client, sock, allfds, batch, pieces>>,
           NEW to, to \subseteq Clients, Write(to)
    PROVE  IInv'
  <1>1. /\ UNCHANGED <<manners, conn, backlog, inbox, last, sock, allfds, batch, pieces>>
        /\ pc' \in {"scan", "dead"} /\ hit' \in {hit, hit \union (to \cap Closed)}
        /\ full' \subseteq full \union to
    BY DEF client, Write
  <1>2. Held' = Held /\ Closed' = Closed
    BY <1>1 DEF Held, Closed
  <1>3. hit' \subseteq Clients /\ full' \subseteq Clients
    BY <1>1 DEF IInv, TypeOK, Closed
  <1>4. TypeOK'
    BY <1>1, <1>3 DEF IInv, TypeOK
  <1>5. WatchedAreHeld' /\ HeldHave' /\ Queue'
    BY <1>1, <1>2 DEF IInv, WatchedAreHeld, HeldHave, Queue
  <1>6. Owners'
    BY <1>1, <1>2, NextBit DEF Owners
  <1>7. Counted'
    BY <1>1 DEF IInv, Counted
  <1> QED
    BY <1>4, <1>5, <1>6, <1>7 DEF IInv

LEMMA ReadEndKeeps ==
    ASSUME IInv, NEW c \in Clients, ReadEnd(c)
    PROVE  IInv'
  <1>1. CASE pc' = "spin" /\ UNCHANGED <<todo, hit, full>>
    <2>1. /\ UNCHANGED <<manners, conn, backlog, inbox, last, sock, allfds, batch, pieces, todo, hit, full>>
          /\ Turn(c) /\ c \in Closed /\ pc \in {"scan", "serve"}
      BY <1>1 DEF ReadEnd, Reading, client
    <2>2. Held' = Held /\ Closed' = Closed
      BY <2>1 DEF Held, Closed
    <2>3. \A fd \in todo \ {Listen} :
             \E d \in Held : sock[d] = fd /\ d \in inbox \union Closed
      <3> SUFFICES ASSUME NEW fd \in todo \ {Listen}
                   PROVE  \E d \in Held : sock[d] = fd /\ d \in inbox \union Closed
        OBVIOUS
      <3>1. PICK d \in Held : sock[d] = fd /\ (d \in inbox \union Closed \/ At(fd))
        BY <2>1 DEF IInv, Owners
      <3>2. At(fd) => fd = sock[c]
        BY <2>1, OneTurn DEF Turn
      <3> QED
        BY <2>1, <3>1, <3>2 DEF Turn
    <2>4. TypeOK'
      BY <1>1, <2>1 DEF IInv, TypeOK
    <2>5. WatchedAreHeld' /\ HeldHave' /\ Queue'
      BY <2>1, <2>2 DEF IInv, WatchedAreHeld, HeldHave, Queue
    <2>6. Owners' /\ Counted'
      BY <1>1, <2>1, <2>2, <2>3 DEF Owners, Counted
    <2> QED
      BY <2>4, <2>5, <2>6 DEF IInv
  <1>2. CASE pc = "scan" /\ todo' = todo \ {sock[c]} /\ Write({c})
    <2>1. Turn(c) /\ UNCHANGED <<client, sock, allfds, batch, pieces>>
      BY DEF ReadEnd, Reading
    <2>2. {c} \subseteq Clients
      OBVIOUS
    <2> QED
      BY <1>2, <2>1, <2>2, ServedKeeps
  <1> QED
    BY <1>1, <1>2 DEF ReadEnd

LEMMA ServeKeeps ==
    ASSUME IInv, NEW c \in Clients, Serve(c)
    PROVE  IInv'
  <1>1. PICK to \in SUBSET Clients : Write(to)
    BY DEF Serve, Held
  <1>2. /\ pc = "serve" /\ Turn(c) /\ batch \in {"lines", "yell"} /\ todo' = todo \ {sock[c]}
        /\ UNCHANGED <<client, sock, allfds, batch, pieces>>
    BY DEF Serve
  <1> QED
    BY <1>1, <1>2, ServedKeeps

LEMMA ServeExitKeeps ==
    ASSUME IInv, NEW c \in Clients, ServeExit(c)
    PROVE  IInv'
  <1>1. /\ pc = "serve" /\ Turn(c) /\ batch = "exit" /\ todo' = todo \ {sock[c]}
        /\ conn' = [conn EXCEPT ![c] = "away"] /\ sock' = [sock EXCEPT ![c] = 0]
        /\ allfds' = allfds \ {sock[c]} /\ last' = [last EXCEPT ![c] = "lines"]
        /\ pc' \in {"scan", "dead"} /\ hit' \in {hit, (hit \union Closed) \ {c}}
        /\ full' \subseteq Held
        /\ UNCHANGED <<manners, backlog, inbox, batch, pieces>>
        /\ conn \in [Clients -> {"away", "queued", "open", "closed"}]
        /\ sock \in [Clients -> Sockets \union {0}] /\ last \in [Clients -> Ends]
    BY DEF ServeExit, IInv, TypeOK
  <1>2. /\ \A d \in Clients : conn'[d] = IF d = c THEN "away" ELSE conn[d]
        /\ \A d \in Clients : sock'[d] = IF d = c THEN 0 ELSE sock[d]
        /\ c \in Held
    BY <1>1 DEF Turn
  <1>3. Held' = Held \ {c} /\ Closed' = Closed \ {c}
    BY <1>1, <1>2 DEF Held, Closed
  <1>4. TypeOK'
    <2>1. hit' \subseteq Clients /\ full' \subseteq Clients
      BY <1>1 DEF IInv, TypeOK, Closed, Held
    <2>2. /\ conn' \in [Clients -> {"away", "queued", "open", "closed"}]
          /\ sock' \in [Clients -> Sockets \union {0}] /\ last' \in [Clients -> Ends]
      BY <1>1 DEF Ends
    <2> QED
      BY <1>1, <2>1, <2>2 DEF IInv, TypeOK
  <1>5. WatchedAreHeld'
    <2>1. \A d \in Held' : sock'[d] = sock[d] /\ sock[d] # sock[c] /\ d \in Held
      BY <1>2, <1>3 DEF IInv, WatchedAreHeld, Held
    <2>2. sock[c] # Listen
      BY <1>2, SelectLoopAssumption DEF IInv, HeldHave
    <2>3. allfds = {Listen} \union {sock[d] : d \in Held}
      BY DEF IInv, WatchedAreHeld
    <2>4. ASSUME NEW fd
          PROVE  fd \in allfds' <=> fd \in {Listen} \union {sock'[d] : d \in Held'}
      <3>1. fd \in allfds' <=> fd \in allfds /\ fd # sock[c]
        BY <1>1
      <3>2. CASE fd \in allfds'
        <4>1. fd = Listen \/ \E d \in Held : sock[d] = fd
          BY <2>3, <3>1, <3>2
        <4>2. \A d \in Held : sock[d] = fd => d \in Held' /\ sock'[d] = fd
          BY <1>3, <2>1, <3>1, <3>2
        <4> QED
          BY <3>2, <4>1, <4>2
      <3>3. CASE fd \in {Listen} \union {sock'[d] : d \in Held'}
        BY <2>1, <2>2, <2>3, <3>1, <3>3
      <3> QED
        BY <3>2, <3>3
    <2>5. allfds' = {Listen} \union {sock'[d] : d \in Held'}
      BY <2>4
    <2>6. \A d, e \in Held' : sock'[d] = sock'[e] => d = e
      BY <2>1 DEF IInv, WatchedAreHeld
    <2> QED
      BY <2>5, <2>6 DEF WatchedAreHeld
  <1>6. HeldHave'
    BY <1>2, <1>3 DEF IInv, HeldHave, Held
  <1>7. Queue'
    <2>1. \A i \in 1..Len(backlog) : backlog[i] \in Clients /\ backlog[i] # c
      BY <1>2 DEF IInv, TypeOK, Queue, Held
    <2> QED
      BY <1>1, <1>2, <2>1 DEF IInv, Queue
  <1>8. Owners'
    <2>1. \A fd \in todo' \ {Listen} :
             \E d \in Held \ {c} : sock[d] = fd /\ d \in inbox \union Closed
      BY <1>1, NextBit
    <2> QED
      BY <1>1, <1>2, <1>3, <2>1 DEF Owners, Held
  <1>9. Counted'
    BY <1>1 DEF IInv, Counted
  <1> QED
    BY <1>4, <1>5, <1>6, <1>7, <1>8, <1>9 DEF IInv

LEMMA EndScanKeeps ==
    ASSUME IInv, EndScan
    PROVE  IInv'
  <1>1. /\ pc = "scan" /\ todo = {} /\ pc' = "select"
        /\ UNCHANGED <<manners, conn, backlog, inbox, last, sock, allfds, todo, batch, pieces, hit, full>>
    BY DEF EndScan, client
  <1>2. Held' = Held
    BY <1>1 DEF Held
  <1>3. TypeOK'
    BY <1>1 DEF IInv, TypeOK
  <1>4. WatchedAreHeld' /\ HeldHave' /\ Queue'
    BY <1>1, <1>2 DEF IInv, WatchedAreHeld, HeldHave, Queue
  <1>5. Owners' /\ Counted'
    BY <1>1 DEF IInv, Owners, Counted
  <1> QED
    BY <1>3, <1>4, <1>5 DEF IInv

-----------------------------------------------------------------------------
(* The theorems.                                                           *)

LEMMA InitEstablishes == Init => IInv
  <1> SUFFICES ASSUME Init PROVE IInv
    OBVIOUS
  <1>1. Held = {} /\ Closed = {}
    BY DEF Init, Held, Closed
  <1>2. TypeOK
    BY SelectLoopAssumption DEF Init, TypeOK, Ends
  <1>3. WatchedAreHeld /\ HeldHave
    BY <1>1 DEF Init, WatchedAreHeld, HeldHave
  <1>4. Queue /\ Owners /\ Counted
    BY DEF Init, Queue, Owners, Counted
  <1> QED
    BY <1>2, <1>3, <1>4 DEF IInv

LEMMA NextKeeps ==
    ASSUME IInv, [Next]_vars
    PROVE  IInv'
  <1>1. CASE Select
    BY <1>1, SelectKeeps
  <1>2. CASE Accept
    BY <1>2, AcceptKeeps
  <1>3. CASE EndScan
    BY <1>3, EndScanKeeps
  <1>4. CASE \E c \in Clients : Read(c) \/ ReadEnd(c) \/ Serve(c) \/ ServeExit(c)
    BY <1>4, ReadKeeps, ReadEndKeeps, ServeKeeps, ServeExitKeeps
  <1>5. CASE \E c \in Clients : Connect(c) \/ HangUp(c) \/ Drain(c)
    BY <1>5, ConnectKeeps, HangUpKeeps, DrainKeeps
  <1>6. CASE \E c \in Clients, end \in Ends : Send(c, end)
    BY <1>6, SendKeeps
  <1>7. CASE UNCHANGED vars
    <2>1. UNCHANGED <<manners, conn, sock, backlog, inbox, last, allfds, todo, batch, pieces, hit,
                    full, pc>>
      BY <1>7 DEF vars
    <2> QED
      BY <2>1 DEF IInv, TypeOK, WatchedAreHeld, HeldHave, Queue, Owners, Counted,
                  Held, Closed, Turn, At
  <1> QED
    BY <1>1, <1>2, <1>3, <1>4, <1>5, <1>6, <1>7 DEF Next, Server

(* What the theorems below follow from.                                    *)
THEOREM InductiveInvariant == Spec => []IInv
  BY InitEstablishes, NextKeeps, PTL DEF Spec

(* The loop's variables stay in their ranges; in particular a batch ends   *)
(* within a line no more often than the clients' buffer allows.            *)
THEOREM TypeCorrect == Spec => []TypeOK
  <1>1. IInv => TypeOK
    BY DEF IInv
  <1> QED
    BY InductiveInvariant, <1>1, PTL

(* select is called with the descriptors the server has, and each bit a    *)
(* scan comes to is that of a client with something to read.               *)
THEOREM SetsStayRight == Spec => []SetsRight
  <1>1. IInv => SetsRight
    BY DEF IInv, SetsRight, WatchedAreHeld, Owners, OwnerFound
  <1> QED
    BY InductiveInvariant, <1>1, PTL
=============================================================================
