--------------------------- MODULE BatchCgiProofs ---------------------------
(***************************************************************************)
(* The batch client for any number of hosts, lines and any size of its     *)
(* buffers: the order of what a host is sent, and that a tame host is      *)
(* never written to before it has run what it was given.                   *)
(*                                                                         *)
(* For the order it is enough to know which line is written, that          *)
(* everything sent before lies below nextline, and that what is left of a  *)
(* line follows what was taken of it.  For the lock step, a host and the   *)
(* program take turns: either the host's output and one prompt are on      *)
(* their way and nothing else is, or the program writes, or one line or    *)
(* what is left of it has still to be run.                                 *)
(***************************************************************************)
EXTENDS BatchCgi, TLAPS

Letters == {"o", "%", "_"}
Links   == {"none", "connecting", "up", "unconnected", "refused", "failed", "errored"}

Control ==
    /\ tame \in BOOLEAN
    /\ via \in [Hosts -> {"none", "direct", "socks"}]
    /\ link \in [Hosts -> Links]
    /\ active \subseteq {h \in Hosts : link[h] # "none"}
    /\ watched \subseteq {h \in Hosts : link[h] # "none"}
    /\ active \subseteq watched
    /\ ready \subseteq Hosts
    /\ at \in {"setup", "select", "scan", "write", "done", "dead"}
    /\ cur \in Hosts
    /\ at = "setup" => \A h \in Hosts : h >= cur => link[h] = "none"

Queues ==
    /\ down \in [Hosts -> Seq(Letters)]
    /\ up \in [Hosts -> Seq(Pieces)]
    /\ input \in [Hosts -> Seq(Pieces)]
    /\ closed \in [Hosts -> BOOLEAN]
    /\ \A h \in Hosts : Len(up[h]) <= Room

(* a is sent before b.                                                     *)
Before(a, b) ==
    \/ a.line < b.line
    \/ a.line = b.line /\ ~a.end /\ b.end
    \/ a = Junk /\ b = Junk

(* What is being written to h.                                             *)
LineOf(h, l) ==
    \/ l = <<>>
    \/ \E n \in 1..MaxLine : nextline[h] = n + 1 /\ (l = Line(n) \/ l = <<End(n)>>)
    \/ l = <<Junk>> /\ nextline[h] = MaxLine + 1

Position ==
    /\ nextline \in [Hosts -> 1..MaxLine + 1]
    /\ line \in Seq(Pieces)
    /\ \A h \in Hosts : \A k \in 1..Len(input[h]) :
          \/ input[h][k].line < nextline[h]
          \/ input[h][k] = Junk /\ nextline[h] = MaxLine + 1
    /\ at = "write" =>
          /\ LineOf(cur, line)
          /\ line # <<>> => \A k \in 1..Len(input[cur]) : Before(input[cur][k], line[1])

Ordered(s) == \A j \in 1..Len(s) : \A i \in 1..j - 1 : Before(s[i], s[j])

OutThenPrompt(d) ==
    /\ Len(d) >= 2 /\ d[Len(d) - 1] = "%" /\ d[Len(d)] = "_"
    /\ \A k \in 1..Len(d) - 2 : d[k] = "o"

Written(h) == at = "write" /\ cur = h
AllRun(h)  == input[h] = <<>> \/ input[h][Len(input[h])].end

(* What is on its way to or from h, with tame hosts.                       *)
Turns(h) ==
    /\ link[h] # "up" => down[h] = <<>> /\ up[h] = <<>> /\ input[h] = <<>> /\ ~Written(h)
    /\ \/ OutThenPrompt(down[h]) /\ up[h] = <<>> /\ ~Written(h) /\ AllRun(h)
       \/ down[h] = <<>> /\ up[h] = <<>> /\ (Written(h) => AllRun(h))
       \/ /\ down[h] = <<>> /\ ~Written(h)
          /\ \/ up[h] = <<Junk>>
             \/ \E n \in 1..MaxLine : (up[h] = Line(n) \/ up[h] = <<End(n)>>) /\ AllRun(h)

IInv ==
    /\ Control
    /\ Queues
    /\ Position
    /\ \A h \in Hosts : Ordered(input[h])
    /\ tame => \A h \in Hosts : Turns(h)

-----------------------------------------------------------------------------
LEMMA Basics ==
    /\ MaxHost \in Nat /\ MaxHost > 0 /\ MaxLine \in Nat /\ MaxLine > 0
    /\ Room \in Nat /\ Room >= 2 /\ BufLen \in Nat /\ BufLen >= 3
    /\ Hosts \subseteq Nat /\ 1 \in Hosts
    /\ \A h \in Hosts : h < MaxHost => h + 1 \in Hosts
  BY BatchCgiAssumption DEF Hosts

LEMMA TheLines ==
    /\ Junk \in Pieces /\ Junk.line = MaxLine + 1 /\ ~Junk.end
    /\ \A n \in 1..MaxLine :
          /\ Words(n) \in Pieces /\ Words(n).line = n /\ ~Words(n).end
          /\ End(n) \in Pieces /\ End(n).line = n /\ End(n).end
    /\ \A p \in Pieces : p.line \in Nat /\ p.end \in BOOLEAN
  <1>1. \A n \in Nat : Words(n).line = n /\ Words(n).end = FALSE /\ End(n).line = n /\ End(n).end = TRUE
    BY DEF Words, End
  <1>2. Junk \in Pieces /\ Junk = Words(MaxLine + 1) /\ MaxLine + 1 \in Nat
    BY BatchCgiAssumption DEF Pieces, Junk
  <1>3. \A n \in 1..MaxLine : Words(n) \in Pieces /\ End(n) \in Pieces /\ n \in Nat
    BY BatchCgiAssumption DEF Pieces
  <1>4. ASSUME NEW p \in Pieces PROVE p.line \in Nat /\ p.end \in BOOLEAN
    <2>1. \E n \in Nat : p = Words(n) \/ p = End(n)
      BY BatchCgiAssumption DEF Pieces
    <2> QED
      BY <1>1, <2>1
  <1> QED
    BY <1>1, <1>2, <1>3, <1>4

(* Sequences put together.                                                 *)
LEMMA Joined ==
    ASSUME NEW M, NEW s \in Seq(M), NEW t \in Seq(M)
    PROVE  /\ s \o t \in Seq(M)
           /\ Len(s \o t) = Len(s) + Len(t)
           /\ \A k \in 1..Len(s) + Len(t) :
                 (s \o t)[k] = IF k <= Len(s) THEN s[k] ELSE t[k - Len(s)]
  OBVIOUS

(* What a tame host sends is output and a prompt.                          *)
LEMMA OutputPrompts ==
    ASSUME NEW s \in Seq({"o"})
    PROVE  s \o Prompt \in Seq(Letters) /\ OutThenPrompt(s \o Prompt)
  <1>1. PICK p : p = Prompt
    OBVIOUS
  <1>2. p \in Seq(Letters) /\ Len(p) = 2 /\ p[1] = "%" /\ p[2] = "_"
    <2>1. Prompt \in Seq(Letters)
      BY DEF Prompt, Letters
    <2>2. Len(Prompt) = 2
      BY DEF Prompt
    <2>3. Prompt[1] = "%" /\ Prompt[2] = "_"
      BY DEF Prompt
    <2> QED
      BY <1>1, <2>1, <2>2, <2>3
  <1>3. s \in Seq(Letters) /\ \A k \in 1..Len(s) : s[k] = "o"
    <2>1. Len(s) \in Nat /\ s \in [1..Len(s) -> {"o"}]
      OBVIOUS
    <2>2. s \in [1..Len(s) -> Letters]
      BY <2>1 DEF Letters
    <2>3. s \in Seq(Letters)
      BY <2>1, <2>2
    <2> QED
      BY <2>1, <2>3
  <1>4. PICK n \in Nat : n = Len(s)
    BY <1>3
  <1>5. PICK d : d = s \o p
    OBVIOUS
  <1>6. d \in Seq(Letters) /\ Len(d) = n + 2 /\ \A k \in 1..n + 2 : d[k] = IF k <= n THEN s[k] ELSE p[k - n]
    <2>1. /\ s \o p \in Seq(Letters)
          /\ Len(s \o p) = Len(s) + Len(p)
          /\ \A k \in 1..Len(s) + Len(p) :
                (s \o p)[k] = IF k <= Len(s) THEN s[k] ELSE p[k - Len(s)]
      BY <1>2, <1>3, Joined, Zenon
    <2>2. /\ d \in Seq(Letters)
          /\ Len(d) = Len(s) + Len(p)
          /\ \A k \in 1..Len(s) + Len(p) : d[k] = IF k <= Len(s) THEN s[k] ELSE p[k - Len(s)]
      BY <1>5, <2>1, Zenon
    <2> QED
      BY <1>2, <1>4, <2>2
  <1>7. (\A k \in 1..n : d[k] = "o") /\ d[n + 1] = "%" /\ d[n + 2] = "_"
    <2>1. \A k \in 1..n : d[k] = "o"
      BY <1>3, <1>4, <1>6
    <2>2. d[n + 1] = p[1] /\ d[n + 2] = p[2]
      BY <1>4, <1>6
    <2> QED
      BY <1>2, <2>1, <2>2
  <1>8. OutThenPrompt(d)
    <2>1. Len(d) = n + 2
      BY <1>6
    <2>2. Len(d) - 1 = n + 1 /\ Len(d) - 2 = n /\ Len(d) >= 2
      BY <1>4, <2>1
    <2> QED
      BY <1>6, <1>7, <2>2 DEF OutThenPrompt
  <1> QED
    BY <1>1, <1>5, <1>6, <1>8

LEMMA Start == Init => IInv
  <1> SUFFICES ASSUME Init PROVE IInv
    OBVIOUS
  <1>1. Control
    BY Basics DEF Init, Control, Links
  <1>2. Queues
    BY Basics DEF Init, Queues
  <1>3. Position
    BY Basics DEF Init, Position
  <1>4. \A h \in Hosts : Ordered(input[h])
    BY DEF Init, Ordered
  <1>5. \A h \in Hosts : Turns(h)
    BY DEF Init, Turns, Written
  <1> QED
    BY <1>1, <1>2, <1>3, <1>4, <1>5 DEF IInv

-----------------------------------------------------------------------------
(* Steps that leave alone what the order and the turns are about.          *)

LEMMA PositionKept ==
    ASSUME IInv, UNCHANGED <<nextline, input>>,
           \/ line' = line /\ (at' = "write" => at = "write" /\ cur' = cur)
           \/ line' = <<>> /\ at' # "write"
    PROVE  Position' /\ (\A h \in Hosts : Ordered(input[h]))'
  <1>1. at' = "write" => LineOf(cur, line)'
    BY DEF IInv, Position, LineOf
  <1>2. Position'
    <2>1. line' \in Seq(Pieces)
      <3>1. line \in Seq(Pieces) /\ <<>> \in Seq(Pieces)
        BY DEF IInv, Position
      <3> QED
        BY <3>1
    <2>2. CASE line' = line /\ (at' = "write" => at = "write" /\ cur' = cur)
      BY <1>1, <2>1, <2>2 DEF IInv, Position
    <2>3. CASE line' = <<>> /\ at' # "write"
      BY <2>1, <2>3 DEF IInv, Position
    <2> QED
      BY <2>2, <2>3
  <1>3. (\A h \in Hosts : Ordered(input[h]))'
    BY DEF IInv, Ordered
  <1> QED
    BY <1>2, <1>3

LEMMA TurnsKept ==
    ASSUME IInv, tame, NEW h \in Hosts,
           down'[h] = down[h], up'[h] = up[h], input'[h] = input[h],
           link[h] = "up" => link'[h] = "up",
           Written(h)' => Written(h)
    PROVE  Turns(h)'
  <1>1. Turns(h)
    BY DEF IInv
  <1>2. OutThenPrompt(down[h]) => OutThenPrompt(down'[h])
    BY DEF OutThenPrompt
  <1>3. AllRun(h)' <=> AllRun(h)
    BY DEF AllRun
  <1> QED
    BY <1>1, <1>2, <1>3 DEF Turns

(* Where the loop goes next.                                               *)
LEMMA LoopGoesOn ==
    ASSUME IInv, NEW h \in Hosts, NEW on
    PROVE  /\ NextSetup(h) /\ at = "setup" =>
                 at' \in {"setup", "select"} /\ (at' = "setup" => cur' = h + 1) /\ cur' \in Hosts
           /\ NextTurn(h, on) => at' \in {"scan", "done", "select"} /\ cur' \in Hosts
  BY Basics DEF NextSetup, NextTurn, IInv, Control

LEMMA SetupKeeps ==
    ASSUME IInv, NEW h \in Hosts, SetupNone(h) \/ SetupDirect(h) \/ SetupSocks(h)
    PROVE  IInv'
  <1>1. /\ at = "setup" /\ cur = h /\ link[h] = "none" /\ h \in Nat
        /\ UNCHANGED <<fixed, ready, line, nextline, up, input, closed>>
        /\ at' # "write"
    <2>1. Setup(h)
      BY DEF SetupNone, SetupDirect, SetupSocks, Socket
    <2>2. at = "setup" /\ cur = h /\ link[h] = "none" /\ h \in Nat
      BY <2>1, Basics DEF Setup, IInv, Control
    <2>3. UNCHANGED <<fixed, ready, line, nextline, up, input, closed>>
      BY DEF SetupNone, SetupDirect, SetupSocks, Socket, fixed, host
    <2>4. NextSetup(h) \/ at' = "dead"
      BY DEF SetupNone, SetupDirect, SetupSocks, Socket
    <2> QED
      BY <2>2, <2>3, <2>4, LoopGoesOn
  <1>2. Position' /\ (\A g \in Hosts : Ordered(input[g]))'
    BY <1>1, PositionKept
  <1>3. CASE SetupNone(h)
    <2>1. Control'
      BY <1>1, <1>3, LoopGoesOn, Basics DEF SetupNone, IInv, Control, fixed
    <2>2. Queues' /\ (tame' => \A g \in Hosts : Turns(g)')
      BY <1>1, <1>3, TurnsKept DEF SetupNone, IInv, Queues, host, Written, fixed
    <2> QED
      BY <1>2, <2>1, <2>2 DEF IInv
  <1>4. ASSUME NEW l \in Links \ {"none"}, NEW on \in BOOLEAN, Socket(h, l, on)
        PROVE  IInv'
    <2>1. Control'
      <3>1. link' \in [Hosts -> Links] /\ link'[h] # "none" /\ \A g \in Hosts \ {h} : link'[g] = link[g]
        BY <1>4 DEF Socket, IInv, Control
      <3>2. at' \in {"setup", "select"} /\ (at' = "setup" => cur' = h + 1) /\ cur' \in Hosts
        BY <1>1, <1>4, LoopGoesOn DEF Socket
      <3>3. active' \subseteq active \union {h} /\ watched' = watched \union {h} /\ active' \subseteq watched'
        BY <1>4 DEF Socket, IInv, Control
      <3>4. ASSUME at' = "setup", NEW g \in Hosts, g >= cur' PROVE link'[g] = "none"
        BY <1>1, <3>1, <3>2, <3>4, Basics DEF IInv, Control
      <3> QED
        BY <1>1, <3>1, <3>2, <3>3, <3>4 DEF IInv, Control, fixed
    <2>2. /\ down' \in [Hosts -> Seq(Letters)] /\ \A g \in Hosts \ {h} : down'[g] = down[g]
          /\ down'[h] = IF l = "up" THEN Welcome ELSE <<>>
          /\ link'[h] = l /\ \A g \in Hosts \ {h} : link'[g] = link[g]
      <3>1. Welcome \in Seq(Letters)
        BY DEF Welcome, Prompt, Letters
      <3> QED
        BY <1>4, <3>1 DEF Socket, IInv, Queues, Control
    <2>3. Queues'
      BY <1>1, <2>2 DEF IInv, Queues
    <2>4. ASSUME tame, NEW g \in Hosts PROVE Turns(g)'
      <3>1. CASE g # h
        BY <1>1, <2>2, <2>4, <3>1, TurnsKept DEF Written
      <3>2. CASE g = h
        <4>1. up'[h] = <<>> /\ input'[h] = <<>>
          BY <1>1, <2>4 DEF IInv, Turns
        <4>2. OutThenPrompt(Welcome)
          <5>1. <<"o">> \in Seq({"o"})
            OBVIOUS
          <5> QED
            BY <5>1, OutputPrompts DEF Welcome
        <4> QED
          BY <1>1, <2>2, <3>2, <4>1, <4>2 DEF Turns, Written, AllRun
      <3> QED
        BY <3>1, <3>2
    <2> QED
      BY <1>1, <1>2, <2>1, <2>3, <2>4 DEF IInv, fixed
  <1>5. CASE UNCHANGED <<fixed, link, active, watched, ready, cur, line, nextline, host>> /\ at' = "dead"
    <2>1. Control'
      BY <1>5 DEF IInv, Control, fixed
    <2>2. Queues' /\ (tame' => \A g \in Hosts : Turns(g)')
      BY <1>5, TurnsKept DEF IInv, Queues, host, Written, fixed
    <2> QED
      BY <1>2, <2>1, <2>2 DEF IInv
  <1>6. CASE SetupDirect(h)
    BY <1>4, <1>6 DEF SetupDirect, Links
  <1>7. CASE SetupSocks(h)
    BY <1>4, <1>5, <1>7 DEF SetupSocks, Links
  <1> QED
    BY <1>3, <1>6, <1>7

LEMMA SelectKeeps ==
    ASSUME IInv, Select
    PROVE  IInv'
  <1>1. /\ UNCHANGED <<fixed, link, active, watched, line, nextline, host>>
        /\ at' = "scan" /\ cur' = 1 /\ ready' \subseteq Hosts
    BY DEF Select, IInv, Control
  <1>2. Control'
    BY <1>1, Basics DEF IInv, Control, fixed
  <1>3. Position' /\ (\A g \in Hosts : Ordered(input[g]))'
    BY <1>1, PositionKept DEF host
  <1>4. Queues' /\ (tame' => \A g \in Hosts : Turns(g)')
    BY <1>1, TurnsKept DEF IInv, Queues, host, Written, fixed
  <1> QED
    BY <1>2, <1>3, <1>4 DEF IInv

(* A turn of the scan that reads and writes nothing.                       *)
LEMMA ScanKeeps ==
    ASSUME IInv, NEW h \in Hosts, Skip(h) \/ SocketError(h) \/ ReadEnd(h)
    PROVE  IInv'
  <1>1. /\ UNCHANGED <<fixed, ready, line, nextline, host>>
        /\ at' \in {"scan", "done", "select"} /\ cur' \in Hosts
        /\ link' \in [Hosts -> Links]
        /\ \A g \in Hosts : (link'[g] = "none" <=> link[g] = "none") /\ (link[g] = "up" => link'[g] = "up")
        /\ active' \subseteq active /\ watched' \subseteq watched /\ active' \subseteq watched'
    <2>1. CASE Skip(h)
      BY <2>1, LoopGoesOn DEF Skip, IInv, Control
    <2>2. CASE SocketError(h)
      BY <2>2, LoopGoesOn DEF SocketError, IInv, Control, Links
    <2>3. CASE ReadEnd(h)
      BY <2>3, LoopGoesOn DEF ReadEnd, IInv, Control
    <2> QED
      BY <2>1, <2>2, <2>3
  <1>2. Control'
    BY <1>1 DEF IInv, Control, fixed
  <1>3. Position' /\ (\A g \in Hosts : Ordered(input[g]))'
    BY <1>1, PositionKept DEF host
  <1>4. Queues' /\ (tame' => \A g \in Hosts : Turns(g)')
    BY <1>1, TurnsKept DEF IInv, Queues, host, Written, fixed
  <1> QED
    BY <1>2, <1>3, <1>4 DEF IInv

-----------------------------------------------------------------------------
(* The network and the hosts.                                              *)

LEMMA ConnectedKeeps ==
    ASSUME IInv, NEW h \in Hosts, Connected(h)
    PROVE  IInv'
  <1>1. /\ UNCHANGED <<fixed, active, watched, ready, at, cur, line, nextline, up, input, closed>>
        /\ link[h] = "connecting"
    BY DEF Connected
  <1>2. \E l \in {"up", "failed"} :
           /\ link' = [link EXCEPT ![h] = l]
           /\ IF l = "up" THEN down' = [down EXCEPT ![h] = Welcome] ELSE down' = down
    BY DEF Connected
  <1>3. PICK l \in {"up", "failed"} :
           /\ link' = [link EXCEPT ![h] = l]
           /\ IF l = "up" THEN down' = [down EXCEPT ![h] = Welcome] ELSE down' = down
    BY <1>2
  <1>4. /\ link' \in [Hosts -> Links] /\ link'[h] = l
        /\ \A g \in Hosts \ {h} : link'[g] = link[g]
        /\ at = "setup" => ~(h >= cur)
    BY <1>1, <1>3 DEF IInv, Control, Links
  <1>5. Control'
    BY <1>1, <1>4 DEF IInv, Control, fixed
  <1>6. Welcome \in Seq(Letters) /\ OutThenPrompt(Welcome)
    <2>1. <<"o">> \in Seq({"o"})
      OBVIOUS
    <2> QED
      BY <2>1, OutputPrompts DEF Welcome
  <1>7. /\ down' \in [Hosts -> Seq(Letters)]
        /\ \A g \in Hosts \ {h} : down'[g] = down[g]
        /\ down'[h] = IF l = "up" THEN Welcome ELSE down[h]
    BY <1>3, <1>6 DEF IInv, Queues
  <1>8. Queues'
    BY <1>1, <1>7 DEF IInv, Queues
  <1>9. Position' /\ (\A g \in Hosts : Ordered(input[g]))'
    BY <1>1, PositionKept
  <1>10. ASSUME tame, NEW g \in Hosts PROVE Turns(g)'
    <2>1. CASE g # h
      BY <1>1, <1>4, <1>7, <1>10, <2>1, TurnsKept DEF Written
    <2>2. CASE g = h
      <3>1. up'[h] = <<>> /\ input'[h] = <<>> /\ down[h] = <<>> /\ ~Written(h)
        BY <1>1, <1>10 DEF IInv, Turns
      <3>2. AllRun(h)'
        BY <3>1 DEF AllRun
      <3>3. CASE l = "up"
        BY <1>1, <1>4, <1>6, <1>7, <2>2, <3>1, <3>2, <3>3 DEF Turns, Written
      <3>4. CASE l = "failed"
        BY <1>1, <1>4, <1>6, <1>7, <2>2, <3>1, <3>2, <3>4 DEF Turns, Written
      <3> QED
        BY <3>3, <3>4
    <2> QED
      BY <2>1, <2>2
  <1> QED
    BY <1>1, <1>5, <1>8, <1>9, <1>10 DEF IInv, fixed

LEMMA GoDownKeeps ==
    ASSUME IInv, NEW h \in Hosts, GoDown(h)
    PROVE  IInv'
  <1>1. /\ UNCHANGED <<fixed, link, active, watched, ready, at, cur, line, nextline, down, up, input>>
        /\ closed' = [closed EXCEPT ![h] = TRUE] /\ ~tame
    BY DEF GoDown
  <1>2. Control' /\ Queues'
    BY <1>1 DEF IInv, Control, Queues, fixed
  <1>3. Position' /\ (\A g \in Hosts : Ordered(input[g]))'
    BY <1>1, PositionKept
  <1> QED
    BY <1>1, <1>2, <1>3 DEF IInv, fixed

LEMMA WriteToClosedKeeps ==
    ASSUME IInv, NEW h \in Hosts, WriteToClosed(h)
    PROVE  IInv'
  <1>1. /\ UNCHANGED <<fixed, link, active, watched, ready, nextline, host>>
        /\ at' \in {"scan", "done", "select", "dead"} /\ cur' \in Hosts
        /\ line' \in {<<>>, line}
    BY LoopGoesOn DEF WriteToClosed, IInv, Control
  <1>2. Control' /\ Queues'
    BY <1>1 DEF IInv, Control, Queues, fixed, host
  <1>3. Position' /\ (\A g \in Hosts : Ordered(input[g]))'
    BY <1>1, PositionKept DEF host
  <1>4. tame' => \A g \in Hosts : Turns(g)'
    BY <1>1, TurnsKept DEF host, Written, fixed
  <1> QED
    BY <1>2, <1>3, <1>4 DEF IInv

(* The host reads one piece, and answers a line that has an end.           *)
LEMMA RunKeeps ==
    ASSUME IInv, NEW h \in Hosts, Run(h)
    PROVE  IInv'
  <1>1. /\ UNCHANGED <<fixed, link, active, watched, ready, at, cur, line, nextline, input>>
        /\ link[h] = "up" /\ up[h] # <<>>
        /\ up' = [up EXCEPT ![h] = Tail(@)]
    BY DEF Run
  <1>2. PICK p : p = up[h][1]
    OBVIOUS
  <1>3. \/ ~p.end /\ UNCHANGED <<down, closed>>
        \/ p = End(MaxLine) /\ UNCHANGED down /\ closed' = [closed EXCEPT ![h] = TRUE]
        \/ /\ p.end /\ p # End(MaxLine) /\ UNCHANGED closed
           /\ \E a \in Answers : down' = [down EXCEPT ![h] = @ \o a]
    BY <1>2 DEF Run
  <1>4. \A a \in Answers : a \in Seq(Letters) /\ (tame => OutThenPrompt(a))
    <2>1. /\ <<>> \in Seq({"o"}) /\ <<"o", "o", "o">> \in Seq({"o"})
      OBVIOUS
    <2>2. Prompt \in Seq(Letters)
      BY DEF Prompt, Letters
    <2>3. Prompt \o Prompt \in Seq(Letters)
      BY <2>2, Joined
    <2>4. ASSUME NEW out \in {<<>>, <<"o", "o", "o">>}
          PROVE  out \o Prompt \in Seq(Letters) /\ OutThenPrompt(out \o Prompt)
      BY <2>1, OutputPrompts
    <2> QED
      BY <2>3, <2>4 DEF Answers
  <1>5. /\ up' \in [Hosts -> Seq(Pieces)] /\ Len(up'[h]) <= Room
        /\ up'[h] = Tail(up[h]) /\ \A g \in Hosts \ {h} : up'[g] = up[g]
    <2>1. PICK u \in Seq(Pieces) : u = up[h]
      BY DEF IInv, Queues
    <2>2. Tail(u) \in Seq(Pieces) /\ Len(u) \in Nat /\ Len(Tail(u)) = Len(u) - 1 /\ Len(u) <= Room
      BY <1>1, <2>1 DEF IInv, Queues
    <2>3. Len(Tail(u)) <= Room
      BY <2>2, Basics
    <2> QED
      BY <1>1, <2>1, <2>2, <2>3 DEF IInv, Queues
  <1>6. /\ down' \in [Hosts -> Seq(Letters)] /\ \A g \in Hosts \ {h} : down'[g] = down[g]
        /\ closed' \in [Hosts -> BOOLEAN]
    <2>1. \A a \in Answers : down[h] \o a \in Seq(Letters)
      BY <1>4, Joined DEF IInv, Queues
    <2> QED
      BY <1>3, <2>1 DEF IInv, Queues
  <1>7. Control' /\ Queues'
    BY <1>1, <1>5, <1>6 DEF IInv, Control, Queues, fixed
  <1>8. Position' /\ (\A g \in Hosts : Ordered(input[g]))'
    BY <1>1, PositionKept
  <1>9. ASSUME tame, NEW g \in Hosts PROVE Turns(g)'
    <2>1. CASE g # h
      BY <1>1, <1>5, <1>6, <1>9, <2>1, TurnsKept DEF Written
    <2>2. CASE g = h
      <3>1. /\ down[h] = <<>> /\ ~Written(h) /\ link'[h] = "up" /\ ~Written(h)'
            /\ \/ up[h] = <<Junk>>
               \/ \E n \in 1..MaxLine : (up[h] = Line(n) \/ up[h] = <<End(n)>>) /\ AllRun(h)
        BY <1>1, <1>9 DEF IInv, Turns, Written
      <3>2. AllRun(h)' <=> AllRun(h)
        BY <1>1 DEF AllRun
      <3>3. CASE up[h] = <<Junk>>
        <4>1. p = Junk /\ up'[h] = <<>>
          BY <1>2, <1>5, <3>3
        <4>2. down'[h] = <<>>
          BY <1>3, <3>1, <4>1, TheLines DEF End, Junk, Words
        <4> QED
          BY <2>2, <3>1, <4>1, <4>2 DEF Turns
      <3>4. ASSUME NEW n \in 1..MaxLine, up[h] = Line(n), AllRun(h) PROVE Turns(h)'
        <4>1. p = Words(n) /\ up'[h] = <<End(n)>>
          BY <1>2, <1>5, <3>4 DEF Line
        <4>2. ~p.end /\ p # End(MaxLine)
          BY <4>1 DEF Words, End
        <4>3. down'[h] = <<>>
          BY <1>3, <3>1, <4>2
        <4> QED
          BY <3>1, <3>2, <3>4, <4>1, <4>3 DEF Turns
      <3>5. ASSUME NEW n \in 1..MaxLine, up[h] = <<End(n)>>, AllRun(h) PROVE Turns(h)'
        <4>1. p = End(n) /\ up'[h] = <<>>
          BY <1>2, <1>5, <3>5
        <4>2. p.end
          BY <4>1, TheLines
        <4>3. CASE UNCHANGED down
          BY <3>1, <4>1, <4>3 DEF Turns
        <4>4. ASSUME NEW a \in Answers, down' = [down EXCEPT ![h] = @ \o a] PROVE Turns(h)'
          <5>1. a \in Seq(Letters) /\ OutThenPrompt(a)
            BY <1>4, <1>9
          <5>2. <<>> \o a = a
            BY <5>1
          <5>3. down'[h] = a
            BY <3>1, <4>4, <5>2 DEF IInv, Queues
          <5>4. OutThenPrompt(down'[h])
            BY <5>1, <5>3
          <5> QED
            BY <3>1, <3>2, <3>5, <4>1, <5>4 DEF Turns
        <4> QED
          BY <1>3, <4>2, <4>3, <4>4
      <3> QED
        BY <2>2, <3>1, <3>3, <3>4, <3>5
    <2> QED
      BY <2>1, <2>2
  <1> QED
    BY <1>1, <1>7, <1>8, <1>9 DEF IInv, fixed

-----------------------------------------------------------------------------
(* What the program reads and writes.                                      *)

LEMMA Cut ==
    ASSUME NEW M, NEW s \in Seq(M), NEW n \in 0..Len(s)
    PROVE  /\ SubSeq(s, 1, n) \in Seq(M) /\ Len(SubSeq(s, 1, n)) = n
           /\ \A k \in 1..n : SubSeq(s, 1, n)[k] = s[k]
           /\ SubSeq(s, n + 1, Len(s)) \in Seq(M) /\ Len(SubSeq(s, n + 1, Len(s))) = Len(s) - n
           /\ \A k \in 1..Len(s) - n : SubSeq(s, n + 1, Len(s))[k] = s[n + k]
  <1>1. SubSeq(s, 1, n) \in Seq(M) /\ Len(SubSeq(s, 1, n)) = n
    OBVIOUS
  <1>2. \A k \in 1..n : SubSeq(s, 1, n)[k] = s[k]
    OBVIOUS
  <1>3. SubSeq(s, n + 1, Len(s)) \in Seq(M) /\ Len(SubSeq(s, n + 1, Len(s))) = Len(s) - n
    OBVIOUS
  <1>4. \A k \in 1..Len(s) - n : SubSeq(s, n + 1, Len(s))[k] = s[n + k]
    OBVIOUS
  <1> QED
    BY <1>1, <1>2, <1>3, <1>4

(* A read from a tame host finds the prompt, which ends what was read, or  *)
(* leaves it for the next read.                                            *)
LEMMA PromptRead ==
    ASSUME NEW d \in Seq(Letters), OutThenPrompt(d), NEW n \in 1..Len(d), d[n] # "%"
    PROVE  \/ prompt_check(SubSeq(d, 1, n)) /\ SubSeq(d, n + 1, Len(d)) = <<>>
           \/ ~prompt_check(SubSeq(d, 1, n)) /\ OutThenPrompt(SubSeq(d, n + 1, Len(d)))
  <1>1. PICK a, b : a = SubSeq(d, 1, n) /\ b = SubSeq(d, n + 1, Len(d))
    OBVIOUS
  <1>2. PICK l \in Nat : l = Len(d)
    OBVIOUS
  <1>3. /\ n \in Nat /\ n >= 1 /\ n <= l
        /\ Len(a) = n /\ \A k \in 1..n : a[k] = d[k]
        /\ b \in Seq(Letters) /\ Len(b) = l - n /\ \A k \in 1..l - n : b[k] = d[n + k]
    <2>1. n \in 0..Len(d) /\ n \in 1..Len(d)
      OBVIOUS
    <2>2. n \in Nat /\ n >= 1 /\ n <= l
      BY <1>2, <2>1
    <2>3. /\ Len(a) = n /\ \A k \in 1..n : a[k] = d[k]
          /\ b \in Seq(Letters) /\ Len(b) = Len(d) - n /\ \A k \in 1..Len(d) - n : b[k] = d[n + k]
      BY <1>1, <2>1, Cut, Zenon
    <2> QED
      BY <1>2, <2>2, <2>3
  <1>4. l >= 2 /\ d[l - 1] = "%" /\ d[l] = "_" /\ \A k \in 1..l - 2 : d[k] = "o"
    BY <1>2 DEF OutThenPrompt
  <1>5. n = l \/ n <= l - 2
    <2>1. n # l - 1
      BY <1>4
    <2> QED
      BY <1>2, <1>3, <2>1
  <1>6. CASE n = l
    <2>1. b = <<>>
      BY <1>3, <1>6
    <2>2. l - 1 \in 1..n /\ l \in 1..n /\ l - 1 \in 1..n - 1 /\ (l - 1) + 1 = l
      <3>1. l >= 2
        BY <1>4
      <3> QED
        BY <1>2, <1>6, <3>1
    <2>3. a[l - 1] = "%" /\ a[(l - 1) + 1] = "_"
      BY <1>3, <1>4, <2>2
    <2>4. prompt_check(a)
      BY <1>3, <2>2, <2>3 DEF prompt_check
    <2> QED
      BY <1>1, <1>2, <2>1, <2>4
  <1>7. CASE n <= l - 2
    <2>1. \A k \in 1..n : k \in 1..l - 2
      BY <1>2, <1>3, <1>7
    <2>2. \A k \in 1..n : a[k] = "o"
      BY <1>3, <1>4, <2>1
    <2>3. \A k \in 1..n - 1 : k \in 1..n
      BY <1>3
    <2>4. ~prompt_check(a)
      BY <1>3, <2>2, <2>3 DEF prompt_check
    <2>5. PICK m \in Nat : m = l - n
      <3>1. n \in Nat /\ n <= l
        BY <1>3
      <3>2. l - n \in Nat
        BY <1>2, <3>1
      <3> QED
        BY <3>2
    <2>6. /\ m >= 2 /\ n + (m - 1) = l - 1 /\ n + m = l /\ m - 1 \in 1..l - n /\ m \in 1..l - n
          /\ \A k \in 1..m - 2 : k \in 1..l - n /\ n + k \in 1..l - 2
      BY <1>2, <1>3, <1>7, <2>5
    <2>7. b[m - 1] = "%" /\ b[m] = "_"
      BY <1>3, <1>4, <2>6
    <2>8. \A k \in 1..m - 2 : b[k] = "o"
      BY <1>3, <1>4, <2>6
    <2>9. OutThenPrompt(b)
      BY <1>3, <2>5, <2>6, <2>7, <2>8 DEF OutThenPrompt
    <2> QED
      BY <1>1, <1>2, <2>4, <2>9
  <1> QED
    BY <1>5, <1>6, <1>7

LEMMA ReadKeeps ==
    ASSUME IInv, NEW h \in Hosts, Read(h)
    PROVE  IInv'
  <1>1. /\ UNCHANGED <<fixed, link, active, watched, ready, up, input, closed>>
        /\ at = "scan" /\ cur = h
    BY DEF Read, Turn
  <1>2. PICK n \in Taken(h) :
           /\ down' = [down EXCEPT ![h] = SubSeq(@, n + 1, Len(@))]
           /\ IF prompt_check(SubSeq(down[h], 1, n))
              THEN at' = "write" /\ line' \in Cmdlines(h) /\ getline(h) /\ UNCHANGED cur
              ELSE NextTurn(h, active) /\ UNCHANGED <<line, nextline>>
    BY DEF Read
  <1>3. PICK d \in Seq(Letters) : d = down[h]
    BY DEF IInv, Queues
  <1>4. n \in 1..Len(d) /\ (tame => d[n] # "%") /\ n \in 0..Len(d)
    BY <1>2, <1>3 DEF Taken
  <1>5. /\ down' \in [Hosts -> Seq(Letters)] /\ down'[h] = SubSeq(d, n + 1, Len(d))
        /\ \A g \in Hosts \ {h} : down'[g] = down[g]
    <2>1. SubSeq(d, n + 1, Len(d)) \in Seq(Letters)
      BY <1>3, <1>4, Cut
    <2> QED
      BY <1>2, <1>3, <2>1 DEF IInv, Queues
  <1>6. Queues'
    BY <1>1, <1>5 DEF IInv, Queues
  <1>7. at' \in {"scan", "done", "select", "write"} /\ cur' \in Hosts /\ (at' = "write" => cur' = h)
    BY <1>1, <1>2, LoopGoesOn
  <1>8. Control'
    BY <1>1, <1>7 DEF IInv, Control, fixed
  <1>9. Position' /\ (\A g \in Hosts : Ordered(input[g]))'
    <2>1. CASE at' # "write"
      BY <1>1, <1>2, <2>1, PositionKept
    <2>2. CASE at' = "write" /\ line' \in Cmdlines(h) /\ getline(h) /\ UNCHANGED cur
      <3>1. /\ nextline' \in [Hosts -> 1..MaxLine + 1] /\ \A g \in Hosts \ {h} : nextline'[g] = nextline[g]
            /\ nextline[h] \in 1..MaxLine + 1
            /\ nextline'[h] = IF nextline[h] <= MaxLine THEN nextline[h] + 1 ELSE nextline[h]
        BY <2>2, Basics DEF getline, IInv, Position
      <3>2. \/ nextline[h] \in 1..MaxLine /\ line' = Line(nextline[h]) /\ nextline'[h] = nextline[h] + 1
            \/ nextline[h] = MaxLine + 1 /\ line' = <<>>  /\ nextline'[h] = nextline[h]
            \/ nextline[h] = MaxLine + 1 /\ line' = <<Junk>> /\ nextline'[h] = nextline[h]
        BY <2>2, <3>1, Basics DEF Cmdlines
      <3>3. line' \in Seq(Pieces) /\ (LineOf(h, line))'
        <4>1. CASE nextline[h] \in 1..MaxLine /\ line' = Line(nextline[h]) /\ nextline'[h] = nextline[h] + 1
          <5>1. line' \in Seq(Pieces)
            BY <4>1, TheLines DEF Line
          <5> QED
            BY <4>1, <5>1 DEF LineOf
        <4>2. CASE nextline[h] = MaxLine + 1 /\ line' \in {<<>>, <<Junk>>} /\ nextline'[h] = nextline[h]
          <5>1. line' \in Seq(Pieces)
            <6>1. <<>> \in Seq(Pieces) /\ <<Junk>> \in Seq(Pieces)
              BY TheLines
            <6> QED
              BY <4>2, <6>1
          <5> QED
            BY <4>2, <5>1 DEF LineOf
        <4> QED
          BY <3>2, <4>1, <4>2
      <3>4. \A g \in Hosts : \A k \in 1..Len(input[g]) :
               \/ input[g][k].line < nextline'[g]
               \/ input[g][k] = Junk /\ nextline'[g] = MaxLine + 1
        <4>1. \A g \in Hosts : \A k \in 1..Len(input[g]) : input[g][k].line \in Nat
          BY TheLines DEF IInv, Queues
        <4> QED
          <5>1. ASSUME NEW g \in Hosts, NEW k \in 1..Len(input[g])
                PROVE  \/ input[g][k].line < nextline'[g]
                       \/ input[g][k] = Junk /\ nextline'[g] = MaxLine + 1
            <6>1. input[g][k].line < nextline[g] \/ (input[g][k] = Junk /\ nextline[g] = MaxLine + 1)
              BY DEF IInv, Position
            <6>2. CASE g # h
              BY <3>1, <6>1, <6>2
            <6>3. CASE g = h
              <7>1. PICK x \in Nat : x = input[g][k].line
                BY <4>1
              <7> QED
                BY <3>1, <6>1, <6>3, <7>1, Basics
            <6> QED
              BY <6>2, <6>3
          <5> QED
            BY <5>1
      <3>5. line' # <<>> => \A k \in 1..Len(input[h]) : Before(input[h][k], line'[1])
        <4>1. \A k \in 1..Len(input[h]) : 
                 \/ input[h][k].line < nextline[h]
                 \/ input[h][k] = Junk /\ nextline[h] = MaxLine + 1
          BY DEF IInv, Position
        <4>2. CASE nextline[h] \in 1..MaxLine /\ line' = Line(nextline[h])
          <5>1. line'[1] = Words(nextline[h])
            BY <4>2 DEF Line
          <5>2. line'[1].line = nextline[h] /\ nextline[h] # MaxLine + 1
            BY <4>2, <5>1, TheLines, Basics
          <5> QED
            BY <4>1, <5>2 DEF Before
        <4>3. CASE nextline[h] = MaxLine + 1 /\ line' = <<Junk>>
          <5>1. line'[1] = Junk /\ Junk.line = nextline[h]
            BY <4>3, TheLines
          <5> QED
            BY <4>1, <5>1 DEF Before
        <4> QED
          BY <3>2, <4>2, <4>3
      <3> QED
        <4>1. Position'
          BY <1>1, <1>7, <3>1, <3>3, <3>4, <3>5 DEF Position
        <4>2. (\A g \in Hosts : Ordered(input[g]))'
          BY <1>1 DEF IInv, Ordered
        <4> QED
          BY <4>1, <4>2
    <2> QED
      BY <1>2, <2>1, <2>2, LoopGoesOn
  <1>10. ASSUME tame, NEW g \in Hosts PROVE Turns(g)'
    <2>1. CASE g # h
      BY <1>1, <1>5, <1>7, <1>10, <2>1, TurnsKept DEF Written
    <2>2. CASE g = h
      <3>1. d # <<>>
        BY <1>4
      <3>2. /\ link[h] = "up" /\ OutThenPrompt(d) /\ up[h] = <<>> /\ AllRun(h)
        BY <1>3, <1>10, <3>1 DEF IInv, Turns
      <3>3. AllRun(h)' <=> AllRun(h)
        BY <1>1 DEF AllRun
      <3>4. CASE prompt_check(SubSeq(d, 1, n)) /\ SubSeq(d, n + 1, Len(d)) = <<>>
        BY <1>1, <1>5, <2>2, <3>2, <3>3, <3>4 DEF Turns
      <3>5. CASE ~prompt_check(SubSeq(d, 1, n)) /\ OutThenPrompt(SubSeq(d, n + 1, Len(d)))
        <4>1. at' # "write"
          BY <1>2, <1>3, <3>5, LoopGoesOn
        <4>2. OutThenPrompt(down'[h])
          BY <1>5, <3>5
        <4> QED
          BY <1>1, <2>2, <3>2, <3>3, <4>1, <4>2 DEF Turns, Written
      <3> QED
        BY <1>3, <1>4, <1>10, <3>2, <3>4, <3>5, PromptRead
    <2> QED
      BY <2>1, <2>2
  <1> QED
    BY <1>1, <1>6, <1>8, <1>9, <1>10 DEF IInv, fixed

-----------------------------------------------------------------------------
(* What follows in order stays in order.                                   *)
LEMMA JoinedInOrder ==
    ASSUME NEW s \in Seq(Pieces), NEW t \in Seq(Pieces), Ordered(s), Ordered(t),
           \A k \in 1..Len(s), j \in 1..Len(t) : Before(s[k], t[j])
    PROVE  Ordered(s \o t)
  <1>1. PICK r : r = s \o t
    OBVIOUS
  <1>2. PICK m \in Nat, n \in Nat : m = Len(s) /\ n = Len(t)
    OBVIOUS
  <1>3. Len(r) = m + n /\ \A k \in 1..m + n : r[k] = IF k <= m THEN s[k] ELSE t[k - m]
    BY <1>1, <1>2, Joined
  <1>4. ASSUME NEW j \in 1..m + n, NEW i \in 1..j - 1 PROVE Before(r[i], r[j])
    <2>1. i \in 1..m + n /\ i < j
      BY <1>2
    <2>2. CASE j <= m
      <3>1. j \in 1..Len(s) /\ r[i] = s[i] /\ r[j] = s[j]
        BY <1>2, <1>3, <2>1, <2>2
      <3> QED
        BY <3>1 DEF Ordered
    <2>3. CASE ~(j <= m) /\ i <= m
      <3>1. i \in 1..Len(s) /\ j - m \in 1..Len(t) /\ r[i] = s[i] /\ r[j] = t[j - m]
        BY <1>2, <1>3, <2>1, <2>3
      <3> QED
        BY <3>1
    <2>4. CASE ~(j <= m) /\ ~(i <= m)
      <3>1. j - m \in 1..Len(t) /\ i - m \in 1..(j - m) - 1 /\ r[i] = t[i - m] /\ r[j] = t[j - m]
        BY <1>2, <1>3, <2>1, <2>4
      <3> QED
        BY <3>1 DEF Ordered
    <2> QED
      BY <2>2, <2>3, <2>4
  <1> QED
    BY <1>1, <1>3, <1>4 DEF Ordered

LEMMA Whole ==
    ASSUME NEW M, NEW s \in Seq(M)
    PROVE  /\ SubSeq(s, 1, Len(s)) = s
           /\ Len(s) = 1 => s = <<s[1]>>
  <1>1. PICK t : t = SubSeq(s, 1, Len(s))
    OBVIOUS
  <1>2. Len(s) \in 0..Len(s)
    OBVIOUS
  <1>3. t \in Seq(M) /\ Len(t) = Len(s) /\ \A k \in 1..Len(s) : t[k] = s[k]
    BY <1>1, <1>2, Cut
  <1>4. t = s
    BY <1>3
  <1>5. ASSUME Len(s) = 1 PROVE s = <<s[1]>>
    BY <1>5
  <1> QED
    BY <1>1, <1>4, <1>5

(* What one write takes of the line, and what is left of it.               *)
LEMMA TakenOfLine ==
    ASSUME IInv, NEW h \in Hosts, cur = h, at = "write",
           NEW n \in 0..Len(line), line # <<>> => n > 0
    PROVE  \/ line = <<>> /\ SubSeq(line, 1, n) = <<>>
           \/ \E m \in 1..MaxLine :
                 /\ nextline[h] = m + 1
                 /\ \/ line = Line(m) /\ SubSeq(line, 1, n) = Line(m) /\ n = 2
                    \/ /\ line = Line(m) /\ SubSeq(line, 1, n) = <<Words(m)>>
                       /\ n = 1 /\ SubSeq(line, n + 1, Len(line)) = <<End(m)>>
                    \/ line = <<End(m)>> /\ SubSeq(line, 1, n) = <<End(m)>> /\ n = 1
           \/ /\ line = <<Junk>> /\ nextline[h] = MaxLine + 1
              /\ SubSeq(line, 1, n) = <<Junk>> /\ n = 1
  <1>0. line \in Seq(Pieces)
    BY DEF IInv, Position
  <1>1. LineOf(h, line)
    BY DEF IInv, Position
  <1>2. CASE line = <<>>
    <2>1. n = 0
      BY <1>2
    <2> QED
      BY <1>2, <2>1
  <1>3. ASSUME NEW p, line = <<p>> PROVE n = 1 /\ SubSeq(line, 1, n) = <<p>>
    <2>1. Len(line) = 1 /\ line # <<>>
      BY <1>3
    <2>2. n = 1
      BY <2>1
    <2> QED
      BY <1>3, <2>1, <2>2, <1>0, Whole
  <1>4. ASSUME NEW p, NEW q, line = <<p, q>>
        PROVE  \/ n = 1 /\ SubSeq(line, 1, n) = <<p>> /\ SubSeq(line, n + 1, Len(line)) = <<q>>
               \/ n = 2 /\ SubSeq(line, 1, n) = <<p, q>>
    <2>1. Len(line) = 2 /\ line # <<>>
      BY <1>4
    <2>2. n = 1 \/ n = 2
      BY <2>1
    <2>3. CASE n = 1
      <3>1. PICK a, b : a = SubSeq(line, 1, n) /\ b = SubSeq(line, n + 1, Len(line))
        OBVIOUS
      <3>2. /\ a \in Seq(Pieces) /\ Len(a) = n /\ \A k \in 1..n : a[k] = line[k]
            /\ b \in Seq(Pieces) /\ Len(b) = Len(line) - n /\ \A k \in 1..Len(line) - n : b[k] = line[n + k]
        BY <1>0, <3>1, Cut
      <3>3. Len(a) = 1 /\ a[1] = p
        BY <1>4, <2>3, <3>2
      <3>4. Len(b) = 1 /\ b[1] = q
        BY <1>4, <2>1, <2>3, <3>2
      <3>5. a = <<p>> /\ b = <<q>>
        BY <3>2, <3>3, <3>4, Whole
      <3> QED
        BY <2>3, <3>1, <3>5
    <2>4. CASE n = 2
      BY <1>0, <1>4, <2>1, <2>4, Whole
    <2> QED
      BY <2>2, <2>3, <2>4
  <1>5. CASE line = <<Junk>> /\ nextline[h] = MaxLine + 1
    BY <1>3, <1>5
  <1>6. ASSUME NEW m \in 1..MaxLine, nextline[h] = m + 1, line = Line(m)
        PROVE  \/ SubSeq(line, 1, n) = Line(m) /\ n = 2
               \/ SubSeq(line, 1, n) = <<Words(m)>> /\ n = 1 /\ SubSeq(line, n + 1, Len(line)) = <<End(m)>>
    BY <1>4, <1>6 DEF Line
  <1>7. ASSUME NEW m \in 1..MaxLine, nextline[h] = m + 1, line = <<End(m)>>
        PROVE  SubSeq(line, 1, n) = <<End(m)>> /\ n = 1
    BY <1>3, <1>7
  <1> QED
    BY <1>1, <1>2, <1>5, <1>6, <1>7 DEF LineOf

(* What is taken of a line, and what is left of it, where n pieces fit.    *)
TakenFits(h, n, t, rest) ==
    /\ t \in Seq(Pieces) /\ Len(t) = n /\ Ordered(t)
    /\ \A j \in 1..Len(t) :
          \/ t[j].line < nextline[h]
          \/ t[j] = Junk /\ nextline[h] = MaxLine + 1
    /\ \A k \in 1..Len(input[h]), j \in 1..Len(t) : Before(input[h][k], t[j])
    /\ n < Len(line) =>
          /\ rest \in Seq(Pieces) /\ LineOf(h, rest)
          /\ \A k \in 1..Len(input[h]) : Before(input[h][k], rest[1])
          /\ \A j \in 1..Len(t) : Before(t[j], rest[1])

(* What is taken belongs to the line that is written, and follows all that *)
(* the host has been sent; so does what is left.                           *)
LEMMA TakenInOrder ==
    ASSUME IInv, NEW h \in Hosts, cur = h, at = "write",
           NEW n \in 0..Len(line), line # <<>> => n > 0,
           NEW t, t = SubSeq(line, 1, n), NEW rest, rest = SubSeq(line, n + 1, Len(line))
    PROVE  TakenFits(h, n, t, rest)
  <1> USE DEF TakenFits
  <1>1. line \in Seq(Pieces) /\ nextline[h] \in 1..MaxLine + 1
    BY DEF IInv, Position
  <1>2. t \in Seq(Pieces) /\ Len(t) = n
    BY <1>1, Cut
  <1>3. \A k \in 1..Len(input[h]) : line # <<>> => Before(input[h][k], line[1])
    BY DEF IInv, Position
  <1>4. \A k \in 1..Len(input[h]) : input[h][k] \in Pieces
    BY DEF IInv, Queues
  <1>5. CASE line = <<>> /\ t = <<>>
    <2>1. n = 0 /\ Len(line) = 0
      BY <1>5
    <2> QED
      BY <1>2, <1>5, <2>1 DEF Ordered
  <1>6. ASSUME NEW m \in 1..MaxLine, nextline[h] = m + 1,
               \/ line = Line(m) /\ t = Line(m) /\ n = 2
               \/ line = Line(m) /\ t = <<Words(m)>> /\ n = 1 /\ rest = <<End(m)>>
               \/ line = <<End(m)>> /\ t = <<End(m)>> /\ n = 1
        PROVE  /\ Ordered(t)
               /\ \A j \in 1..Len(t) : t[j].line < nextline[h]
               /\ \A k \in 1..Len(input[h]), j \in 1..Len(t) : Before(input[h][k], t[j])
               /\ n < Len(line) =>
                     /\ rest \in Seq(Pieces) /\ LineOf(h, rest)
                     /\ \A k \in 1..Len(input[h]) : Before(input[h][k], rest[1])
                     /\ \A j \in 1..Len(t) : Before(t[j], rest[1])
    <2>1. /\ Words(m) \in Pieces /\ Words(m).line = m /\ Words(m).end = FALSE
          /\ End(m) \in Pieces /\ End(m).line = m /\ End(m).end = TRUE
          /\ m \in Nat /\ m # MaxLine + 1 /\ Junk.line = MaxLine + 1
      BY <1>6, TheLines, Basics
    <2>2. Before(Words(m), End(m)) /\ Words(m) # Junk /\ End(m) # Junk
      BY <2>1 DEF Before
    <2>3. ASSUME NEW x \in Pieces, Before(x, Words(m)) PROVE Before(x, End(m))
      BY <2>1, <2>2, <2>3 DEF Before
    <2>4. line[1] = Words(m) \/ (line[1] = End(m) /\ t = <<End(m)>>)
      BY <1>6 DEF Line
    <2>5. line # <<>>
      BY <1>6 DEF Line
    <2>6. \A k \in 1..Len(input[h]) :
             /\ t # <<End(m)>> => Before(input[h][k], Words(m))
             /\ Before(input[h][k], End(m))
      BY <1>3, <1>4, <2>3, <2>4, <2>5
    <2>7. CASE t = Line(m) /\ n = 2 /\ line = Line(m)
      <3>1. Len(t) = 2 /\ t[1] = Words(m) /\ t[2] = End(m) /\ Len(line) = 2
        BY <2>7 DEF Line
      <3>2. Ordered(t)
        BY <2>2, <3>1 DEF Ordered
      <3>3. t # <<End(m)>>
        <4>1. (<<End(m)>>)[1] = End(m)
          OBVIOUS
        <4> QED
          BY <2>1, <3>1, <4>1
      <3> QED
        BY <1>6, <2>1, <2>6, <2>7, <3>1, <3>2, <3>3
    <2>8. CASE line = Line(m) /\ t = <<Words(m)>> /\ n = 1 /\ rest = <<End(m)>>
      <3>1. Len(t) = 1 /\ t[1] = Words(m)
        BY <2>8
      <3>5. rest[1] = End(m)
        BY <2>8
      <3>6. rest \in Seq(Pieces)
        <4>1. <<End(m)>> \in Seq(Pieces)
          BY <2>1
        <4> QED
          BY <2>8, <4>1
      <3>2. Ordered(t)
        BY <3>1 DEF Ordered
      <3>3. t # <<End(m)>>
        <4>1. (<<End(m)>>)[1] = End(m)
          OBVIOUS
        <4> QED
          BY <2>1, <3>1, <4>1
      <3>4. LineOf(h, rest)
        BY <1>6, <2>8 DEF LineOf
      <3> QED
        <4>1. \A j \in 1..Len(t) : t[j] = Words(m) /\ t[j].line < nextline[h]
          BY <1>6, <2>1, <3>1
        <4> QED
          BY <2>2, <2>6, <3>1, <3>2, <3>3, <3>4, <3>5, <3>6, <4>1
    <2>9. CASE line = <<End(m)>> /\ t = <<End(m)>> /\ n = 1
      <3>1. Len(t) = 1 /\ t[1] = End(m) /\ Len(line) = 1
        BY <2>9
      <3>2. Ordered(t)
        BY <3>1 DEF Ordered
      <3> QED
        BY <1>6, <2>1, <2>6, <2>9, <3>1, <3>2
    <2> QED
      BY <1>6, <2>7, <2>8, <2>9
  <1>7. CASE line = <<Junk>> /\ nextline[h] = MaxLine + 1 /\ t = <<Junk>> /\ n = 1
    <2>1. Len(t) = 1 /\ t[1] = Junk /\ Len(line) = 1 /\ line[1] = Junk /\ line # <<>>
      BY <1>7
    <2>2. Ordered(t)
      BY <2>1 DEF Ordered
    <2> QED
      BY <1>2, <1>3, <1>7, <2>1, <2>2
  <1>8. \/ line = <<>> /\ t = <<>>
        \/ \E m \in 1..MaxLine :
              /\ nextline[h] = m + 1
              /\ \/ line = Line(m) /\ t = Line(m) /\ n = 2
                 \/ line = Line(m) /\ t = <<Words(m)>> /\ n = 1 /\ rest = <<End(m)>>
                 \/ line = <<End(m)>> /\ t = <<End(m)>> /\ n = 1
        \/ line = <<Junk>> /\ nextline[h] = MaxLine + 1 /\ t = <<Junk>> /\ n = 1
    BY TakenOfLine
  <1>9. CASE \E m \in 1..MaxLine :
              /\ nextline[h] = m + 1
              /\ \/ line = Line(m) /\ t = Line(m) /\ n = 2
                 \/ line = Line(m) /\ t = <<Words(m)>> /\ n = 1 /\ rest = <<End(m)>>
                 \/ line = <<End(m)>> /\ t = <<End(m)>> /\ n = 1
    BY <1>2, <1>6, <1>9
  <1> QED
    BY <1>5, <1>7, <1>8, <1>9

LEMMA WriteKeeps ==
    ASSUME IInv, NEW h \in Hosts, Write(h)
    PROVE  IInv'
  <1>1. PICK n : n = IF Free(h) < Len(line) THEN Free(h) ELSE Len(line)
    OBVIOUS
  <1>2. PICK t, rest : t = SubSeq(line, 1, n) /\ rest = SubSeq(line, n + 1, Len(line))
    OBVIOUS
  <1>3. /\ UNCHANGED <<fixed, link, active, watched, ready, nextline, down, closed>>
        /\ at = "write" /\ cur = h
        /\ line # <<>> => n > 0
        /\ up' = [up EXCEPT ![h] = @ \o t]
        /\ input' = [input EXCEPT ![h] = @ \o t]
        /\ IF via[h] = "socks" /\ n < Len(line)
           THEN line' = rest /\ UNCHANGED <<at, cur>>
           ELSE line' = <<>> /\ NextTurn(h, active)
    BY <1>1, <1>2 DEF Write
  <1>4. /\ line \in Seq(Pieces) /\ Len(line) \in Nat
        /\ up[h] \in Seq(Pieces) /\ Len(up[h]) \in Nat /\ Len(up[h]) <= Room
        /\ input[h] \in Seq(Pieces) /\ Len(input[h]) \in Nat
        /\ Ordered(input[h])
    BY DEF IInv, Position, Queues
  <1>5. n \in 0..Len(line) /\ Len(up[h]) + n <= Room
    <2>1. Free(h) \in Nat /\ Len(up[h]) + Free(h) = Room
      BY <1>4, Basics DEF Free
    <2> QED
      BY <1>1, <1>4, <2>1, Basics
  <1>6. /\ t \in Seq(Pieces) /\ Len(t) = n /\ Ordered(t)
        /\ \A j \in 1..Len(t) :
              \/ t[j].line < nextline[h]
              \/ t[j] = Junk /\ nextline[h] = MaxLine + 1
        /\ \A k \in 1..Len(input[h]), j \in 1..Len(t) : Before(input[h][k], t[j])
        /\ n < Len(line) =>
              /\ rest \in Seq(Pieces) /\ LineOf(h, rest)
              /\ \A k \in 1..Len(input[h]) : Before(input[h][k], rest[1])
              /\ \A j \in 1..Len(t) : Before(t[j], rest[1])
    <2>1. /\ cur = h /\ at = "write"
          /\ n \in 0..Len(line) /\ (line # <<>> => n > 0)
          /\ t = SubSeq(line, 1, n) /\ rest = SubSeq(line, n + 1, Len(line))
      BY <1>2, <1>3, <1>5
    <2>2. TakenFits(h, n, t, rest)
      BY <2>1, TakenInOrder
    <2> QED
      BY <2>2 DEF TakenFits
  <1>7. PICK u, i : u = up[h] \o t /\ i = input[h] \o t
    OBVIOUS
  <1>8. /\ u \in Seq(Pieces) /\ Len(u) <= Room
        /\ i \in Seq(Pieces) /\ Len(i) = Len(input[h]) + Len(t)
        /\ \A k \in 1..Len(input[h]) + Len(t) :
              i[k] = IF k <= Len(input[h]) THEN input[h][k] ELSE t[k - Len(input[h])]
    <2>1. /\ u \in Seq(Pieces) /\ Len(u) = Len(up[h]) + Len(t)
      BY <1>4, <1>6, <1>7, Joined
    <2>2. /\ i \in Seq(Pieces) /\ Len(i) = Len(input[h]) + Len(t)
          /\ \A k \in 1..Len(input[h]) + Len(t) :
                i[k] = IF k <= Len(input[h]) THEN input[h][k] ELSE t[k - Len(input[h])]
      BY <1>4, <1>6, <1>7, Joined
    <2>3. Len(u) <= Room
      BY <1>5, <1>6, <2>1
    <2> QED
      BY <2>1, <2>2, <2>3
  <1>9. /\ up' \in [Hosts -> Seq(Pieces)] /\ up'[h] = u /\ \A g \in Hosts \ {h} : up'[g] = up[g]
        /\ input' \in [Hosts -> Seq(Pieces)] /\ input'[h] = i /\ \A g \in Hosts \ {h} : input'[g] = input[g]
    BY <1>3, <1>7, <1>8 DEF IInv, Queues
  <1>10. Queues'
    BY <1>3, <1>8, <1>9 DEF IInv, Queues
  <1>11. at' \in {"scan", "done", "select", "write"} /\ cur' \in Hosts /\ (at' = "write" => cur' = h)
    BY <1>3, LoopGoesOn
  <1>12. Control'
    BY <1>3, <1>11 DEF IInv, Control, fixed
  <1>13. \A k \in 1..Len(i) :
           \/ k \in 1..Len(input[h]) /\ i[k] = input[h][k]
           \/ \E j \in 1..Len(t) : i[k] = t[j]
    <2>1. ASSUME NEW k \in 1..Len(i), ~(k <= Len(input[h])) PROVE \E j \in 1..Len(t) : i[k] = t[j]
      <3>1. Len(t) \in Nat
        BY <1>6
      <3>2. k - Len(input[h]) \in 1..Len(t) /\ k \in 1..Len(input[h]) + Len(t)
        BY <1>4, <1>8, <2>1, <3>1
      <3>3. i[k] = t[k - Len(input[h])]
        BY <1>8, <2>1, <3>2
      <3> QED
        BY <3>2, <3>3
    <2>2. ASSUME NEW k \in 1..Len(i), k <= Len(input[h]) PROVE k \in 1..Len(input[h]) /\ i[k] = input[h][k]
      <3>1. k \in 1..Len(input[h]) + Len(t) /\ k \in 1..Len(input[h])
        BY <1>4, <1>8, <2>2
      <3> QED
        BY <1>8, <2>2, <3>1
    <2> QED
      BY <2>1, <2>2
  <1>14. Position'
    <2>1. \A g \in Hosts : \A k \in 1..Len(input'[g]) :
             \/ input'[g][k].line < nextline'[g]
             \/ input'[g][k] = Junk /\ nextline'[g] = MaxLine + 1
      <3>1. ASSUME NEW k \in 1..Len(i)
            PROVE  i[k].line < nextline[h] \/ (i[k] = Junk /\ nextline[h] = MaxLine + 1)
        <4>1. \A l \in 1..Len(input[h]) :
                 input[h][l].line < nextline[h] \/ (input[h][l] = Junk /\ nextline[h] = MaxLine + 1)
          BY DEF IInv, Position
        <4> QED
          BY <1>6, <1>13, <4>1
      <3>2. ASSUME NEW g \in Hosts \ {h}, NEW k \in 1..Len(input[g])
            PROVE  input[g][k].line < nextline[g] \/ (input[g][k] = Junk /\ nextline[g] = MaxLine + 1)
        BY DEF IInv, Position
      <3> QED
        <4>1. nextline' = nextline
          BY <1>3
        <4>2. ASSUME NEW g \in Hosts, NEW k \in 1..Len(input'[g])
              PROVE  input'[g][k].line < nextline'[g] \/ (input'[g][k] = Junk /\ nextline'[g] = MaxLine + 1)
          <5>1. CASE g = h
            BY <1>9, <3>1, <4>1, <4>2, <5>1
          <5>2. CASE g # h
            BY <1>9, <3>2, <4>1, <4>2, <5>2
          <5> QED
            BY <5>1, <5>2
        <4> QED
          BY <4>2
    <2>2. nextline' \in [Hosts -> 1..MaxLine + 1]
      BY <1>3 DEF IInv, Position
    <2>3. CASE via[h] = "socks" /\ n < Len(line)
      <3>1. line' = rest /\ cur' = h /\ line' \in Seq(Pieces) /\ LineOf(h, rest)
        BY <1>3, <1>6, <2>3
      <3>2. LineOf(cur, line)'
        BY <1>3, <3>1 DEF LineOf
      <3>3. \A k \in 1..Len(i) : Before(i[k], rest[1])
        BY <1>6, <1>13, <2>3
      <3> QED
        BY <1>9, <2>1, <2>2, <3>1, <3>2, <3>3 DEF Position
    <2>4. CASE ~(via[h] = "socks" /\ n < Len(line))
      <3>1. line' = <<>> /\ at' # "write"
        BY <1>3, <2>4, LoopGoesOn
      <3>2. line' \in Seq(Pieces)
        BY <3>1
      <3> QED
        BY <2>1, <2>2, <3>1, <3>2 DEF Position
    <2> QED
      BY <2>3, <2>4
  <1>15. (\A g \in Hosts : Ordered(input[g]))'
    <2>1. Ordered(i)
      BY <1>4, <1>6, <1>7, JoinedInOrder
    <2>2. \A g \in Hosts \ {h} : Ordered(input[g])
      BY DEF IInv
    <2> QED
      BY <1>9, <2>1, <2>2
  <1>16. ASSUME tame, NEW g \in Hosts PROVE Turns(g)'
    <2>1. CASE g # h
      BY <1>3, <1>9, <1>11, <1>16, <2>1, TurnsKept DEF Written
    <2>2. CASE g = h
      <3>1. down'[h] = <<>> /\ up[h] = <<>> /\ link'[h] = "up" /\ AllRun(h)
        BY <1>3, <1>16 DEF IInv, Turns, Written
      <3>2. n = Len(line) /\ t = line
        <4>1. Len(line) <= 2
          <5>1. Len(<<Junk>>) = 1 /\ (\A m \in Nat : Len(Line(m)) = 2 /\ Len(<<End(m)>>) = 1)
            BY DEF Line
          <5>2. LineOf(h, line)
            BY <1>3 DEF IInv, Position
          <5>3. Len(line) = 0 \/ Len(line) = 1 \/ Len(line) = 2
            <6>1. CASE line = <<>>
              BY <6>1
            <6>2. CASE line = <<Junk>>
              BY <5>1, <6>2
            <6>3. ASSUME NEW m \in 1..MaxLine, line = Line(m) \/ line = <<End(m)>>
                  PROVE  Len(line) = 1 \/ Len(line) = 2
              <7>1. m \in Nat
                BY <6>3, Basics
              <7> QED
                BY <5>1, <6>3, <7>1
            <6> QED
              BY <5>2, <6>1, <6>2, <6>3 DEF LineOf
          <5>4. \A x \in Nat : x = 0 \/ x = 1 \/ x = 2 => x <= 2
            OBVIOUS
          <5>5. Len(line) \in Nat
            BY <1>4
          <5> QED
            BY <5>3, <5>4, <5>5
        <4>2. Free(h) = Room
          BY <3>1, Basics DEF Free
        <4>3. n = Len(line)
          BY <1>1, <1>4, <4>1, <4>2, Basics
        <4> QED
          BY <1>2, <1>4, <4>3, Whole
      <3>3. at' # "write" /\ ~Written(h)'
        BY <1>3, <1>4, <3>2, LoopGoesOn DEF Written
      <3>4. u = line
        BY <1>4, <1>7, <3>1, <3>2
      <3>5. CASE line = <<>>
        <4>1. i = input[h]
          BY <1>4, <1>7, <3>2, <3>5
        <4> QED
          BY <1>9, <2>2, <3>1, <3>3, <3>4, <3>5, <4>1 DEF Turns
      <3>6. CASE line = <<Junk>>
        BY <1>9, <2>2, <3>1, <3>3, <3>4, <3>6 DEF Turns
      <3>7. ASSUME NEW m \in 1..MaxLine, line = Line(m) \/ line = <<End(m)>> PROVE Turns(h)'
        <4>1. Len(line) \in {1, 2} /\ line[Len(line)] = End(m)
          <5>1. Len(Line(m)) = 2 /\ Line(m)[2] = End(m)
            BY DEF Line
          <5>2. CASE line = Line(m)
            BY <5>1, <5>2
          <5>3. CASE line = <<End(m)>>
            BY <5>3
          <5> QED
            BY <3>7, <5>2, <5>3
        <4>2. Len(i) = Len(input[h]) + Len(line) /\ Len(line) >= 1
              /\ Len(i) \in 1..Len(input[h]) + Len(t) /\ ~(Len(i) <= Len(input[h]))
              /\ Len(i) - Len(input[h]) = Len(line)
          BY <1>4, <1>8, <3>2, <4>1
        <4>3. i[Len(i)] = End(m)
          BY <1>8, <3>2, <4>1, <4>2
        <4>4. AllRun(h)'
          BY <1>9, <4>3, TheLines DEF AllRun
        <4> QED
          BY <1>9, <3>1, <3>3, <3>4, <3>7, <4>4 DEF Turns
      <3>8. LineOf(h, line)
        BY <1>3 DEF IInv, Position
      <3> QED
        BY <2>2, <3>5, <3>6, <3>7, <3>8 DEF LineOf
    <2> QED
      BY <2>1, <2>2
  <1> QED
    BY <1>3, <1>10, <1>12, <1>14, <1>15, <1>16 DEF IInv, fixed

-----------------------------------------------------------------------------
(* The strengthening is inductive: what is written is known by nextline,   *)
(* and a tame host and the program never have something for each other at  *)
(* the same time.                                                          *)
THEOREM InductiveInvariant == Spec => []IInv
  <1>1. ASSUME IInv, [Next]_vars PROVE IInv'
    <2>1. CASE Select
      BY <1>1, <2>1, SelectKeeps
    <2>2. ASSUME NEW h \in Hosts, Program(h) \/ Host(h) \/ GoDown(h) PROVE IInv'
      BY <1>1, <2>2, SetupKeeps, ScanKeeps, ReadKeeps, WriteKeeps, WriteToClosedKeeps,
         ConnectedKeeps, RunKeeps, GoDownKeeps DEF Program, Host
    <2>3. CASE UNCHANGED vars
      <3>1. Control' /\ Queues'
        BY <1>1, <2>3 DEF IInv, Control, Queues, vars
      <3>2. Position' /\ (\A g \in Hosts : Ordered(input[g]))'
        BY <1>1, <2>3, PositionKept DEF vars
      <3>3. tame' => \A g \in Hosts : Turns(g)'
        BY <1>1, <2>3, TurnsKept DEF vars, Written
      <3> QED
        BY <3>1, <3>2, <3>3 DEF IInv
    <2> QED
      BY <1>1, <2>1, <2>2, <2>3 DEF Next
  <1> QED
    BY <1>1, Start, PTL DEF Spec

(* The program stays within its loops, and no more is in a socket than its *)
(* buffer holds, for any number of hosts and lines.                        *)
THEOREM TypeCorrect == Spec => []TypeOK
  <1>1. IInv => TypeOK
    <2> SUFFICES ASSUME IInv PROVE TypeOK
      OBVIOUS
    <2>1. \A h \in Hosts :
             /\ Len(up[h]) <= Room
             /\ \A k \in DOMAIN input[h] : input[h][k] \in Pieces
             /\ \A k \in DOMAIN down[h] : down[h][k] \in {"o", "%", "_"}
             /\ closed[h] \in BOOLEAN
      <3> SUFFICES ASSUME NEW h \in Hosts
                   PROVE  /\ Len(up[h]) <= Room
                          /\ \A k \in DOMAIN input[h] : input[h][k] \in Pieces
                          /\ \A k \in DOMAIN down[h] : down[h][k] \in {"o", "%", "_"}
                          /\ closed[h] \in BOOLEAN
        OBVIOUS
      <3>1. /\ Len(up[h]) <= Room /\ closed[h] \in BOOLEAN
            /\ input[h] \in Seq(Pieces) /\ down[h] \in Seq(Letters)
        BY DEF IInv, Queues
      <3>2. \A k \in DOMAIN input[h] : input[h][k] \in Pieces
        BY <3>1
      <3>3. \A k \in DOMAIN down[h] : down[h][k] \in Letters
        BY <3>1
      <3> QED
        BY <3>1, <3>2, <3>3 DEF Letters
    <2>2. \A k \in DOMAIN line : line[k] \in Pieces
      BY DEF IInv, Position
    <2>3. nextline \in [Hosts -> 1..MaxLine + 1]
      BY DEF IInv, Position
    <2> QED
      BY <2>1, <2>2, <2>3 DEF IInv, Control, Links, TypeOK
  <1> QED
    BY <1>1, InductiveInvariant, PTL

(* No host is sent a line twice, or a later line before an earlier one,    *)
(* whatever hosts and network do (the two loops of connectServer).         *)
THEOREM SentInOrder == Spec => []InOrder
  <1>1. IInv => InOrder
    <2> SUFFICES ASSUME IInv, NEW h \in Hosts, NEW j \in DOMAIN input[h], NEW i \in 1..j - 1
                 PROVE  Before(input[h][i], input[h][j])
      BY DEF InOrder, Before
    <2>1. j \in 1..Len(input[h])
      BY DEF IInv, Queues
    <2> QED
      BY <2>1 DEF IInv, Ordered
  <1> QED
    BY <1>1, InductiveInvariant, PTL

(* With tame hosts a line is written only when the host has run all it was *)
(* given and all it has answered is read, so that the line fits its socket *)
(* and the one write takes it whole (cgi.c:230-238).                       *)
THEOREM OneLineAtATime == Spec => []LockStep
  <1>1. IInv => LockStep
    BY DEF IInv, Control, Turns, Written, AllRun, LockStep, Last, OutThenPrompt
  <1> QED
    BY <1>1, InductiveInvariant, PTL

=============================================================================
