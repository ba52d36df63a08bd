-------------------------- MODULE RemoteShellProofs --------------------------
(***************************************************************************)
(* The remote shell: the list of its lines, and one line on descriptors.   *)
(*                                                                         *)
(* The numbered pipes work for every N, every first line number and every  *)
(* session length: the walk for a target never leaves the list, and the    *)
(* list delivers what NumberedPipes promises.  The argument rests on the   *)
(* line numbers being consecutive from node 1 on: the node that many lines *)
(* below the current one is then the only one with the number sought, and  *)
(* create_linenode has made it.                                            *)
(*                                                                         *)
(* A line runs on the right descriptors for every number of commands.  The *)
(* argument is a map of the table of the shell: what the line found, less  *)
(* what it has given up, and the few numbers that the loop has opened and  *)
(* not closed yet, each known by what is open on it.                       *)
(***************************************************************************)
EXTENDS LineList, CommandLine, WellFoundedInduction, TLAPS

(* Nodes are numbered in the order of the list, linecount comes next.      *)
Numbered ==
    /\ \A i \in 1..tail : node[i].linenum = FirstLine + i - 1
    /\ linecount = FirstLine + tail

(* Nothing is in the pipe of a node that has none.                         *)
DryUnlessPiped == \A i \in 0..tail : ~node[i].piped => wire[i] = <<>>

IInv ==
    /\ TypeOK
    /\ Numbered
    /\ DryUnlessPiped
    /\ PendingOpen
    /\ WritersPending
    /\ ReadersPending
    /\ TargetFound

-----------------------------------------------------------------------------
(* What create_linenode does to the list.                                  *)

(* After create_linenode(line, n) the list ends at the line n below the    *)
(* current one or where it ended before, whichever is further.             *)
LEMMA NewTailIs ==
    ASSUME TypeOK, Numbered, NEW n \in Nat
    PROVE  /\ NewTail(n) \in Nat
           /\ NewTail(n) = IF cur + 1 + n >= tail THEN cur + 1 + n ELSE tail
  <1>1. CASE cur = tail
    <2>1. stillneed(n) = n
      BY <1>1, LineListAssumption DEF TypeOK, Numbered, stillneed, TailNum, CurNum, AtEnd
    <2> QED
      BY <1>1, <2>1 DEF TypeOK, NewTail, FirstTail, AtEnd
  <1>2. CASE cur # tail
    <2>1. cur + 1 \in 1..tail /\ tail \in 1..tail
      BY <1>2 DEF TypeOK
    <2>2. stillneed(n) = n - (tail - (cur + 1))
      BY <1>2, <2>1, LineListAssumption
      DEF TypeOK, Numbered, stillneed, TailNum, CurNum, AtEnd
    <2> QED
      BY <1>2, <2>1, <2>2 DEF TypeOK, NewTail, FirstTail, AtEnd
  <1> QED
    BY <1>1, <1>2

(* The new list is a list of nodes with consecutive numbers; the nodes it  *)
(* had keep their numbers and their pipes.                                 *)
LEMMA NewListIs ==
    ASSUME TypeOK, Numbered, NEW n \in 0..MaxPipe, cur + 1 + n <= MaxNode
    PROVE  /\ NewTail(n) \in 0..MaxNode
           /\ cur + 1 + n <= NewTail(n)
           /\ tail <= NewTail(n)
           /\ NewList(n) \in [0..NewTail(n) -> Node]
           /\ \A i \in 0..NewTail(n) :
                 /\ i >= 1 => NewList(n)[i].linenum = FirstLine + i - 1
                 /\ i <= tail => NewList(n)[i].piped = node[i].piped
                 /\ i > tail => NewList(n)[i].piped = FALSE
                 /\ i = cur + 1 => NewList(n)[i].pipeto = n
           /\ linecount + (NewTail(n) - tail) = FirstLine + NewTail(n)
  <1>1. n \in Nat /\ MaxPipe \in Nat /\ MaxNode \in Nat /\ FirstLine \in Int
    BY LineListAssumption
  <1>2. /\ NewTail(n) \in 0..MaxNode
        /\ cur + 1 + n <= NewTail(n)
        /\ tail <= NewTail(n)
    <2>1. /\ NewTail(n) \in Nat
          /\ NewTail(n) = IF cur + 1 + n >= tail THEN cur + 1 + n ELSE tail
      BY <1>1, NewTailIs
    <2> QED
      BY <1>1, <2>1 DEF TypeOK
  <1>3. /\ tail \in Nat
        /\ cur \in 0..tail
        /\ node \in [0..tail -> Node]
        /\ linecount = FirstLine + tail
        /\ \A i \in 1..tail : node[i].linenum = FirstLine + i - 1
    BY <1>1 DEF TypeOK, Numbered
  <1> DEFINE L == NewList(n)
  <1>4. ASSUME NEW i \in 0..NewTail(n)
        PROVE  /\ L[i] \in Node
               /\ i >= 1 => L[i].linenum = FirstLine + i - 1
               /\ i <= tail => L[i].piped = node[i].piped
               /\ i > tail => L[i].piped = FALSE
               /\ i = cur + 1 => L[i].pipeto = n
    <2>1. CASE i <= tail
      <3>1. i \in 0..tail
        BY <1>2, <1>3, <2>1
      <3>2. node[i] \in Node
        BY <1>3, <3>1
      <3>3. L[i] = IF i = cur + 1 THEN [node[i] EXCEPT !.pipeto = n] ELSE node[i]
        BY <2>1 DEF NewList
      <3>4. /\ L[i] \in Node
            /\ L[i].linenum = node[i].linenum
            /\ L[i].piped = node[i].piped
            /\ i = cur + 1 => L[i].pipeto = n
        BY <3>2, <3>3 DEF Node
      <3>5. i >= 1 => node[i].linenum = FirstLine + i - 1
        BY <1>3, <3>1
      <3>6. ~(i > tail)
        BY <1>3, <3>1
      <3> QED
        BY <3>4, <3>5, <3>6
    <2>2. CASE i > tail
      <3>1. L[i] = create_node(linecount + (i - tail - 1), IF i = cur + 1 THEN n ELSE 0)
        BY <1>2, <1>3, <2>2 DEF NewList
      <3>2. linecount + (i - tail - 1) = FirstLine + i - 1 /\ FirstLine + i - 1 \in Int
        BY <1>1, <1>2, <1>3
      <3>3. 0 \in 0..MaxPipe
        BY <1>1
      <3>4. /\ L[i] \in Node
            /\ L[i].linenum = FirstLine + i - 1
            /\ L[i].piped = FALSE
            /\ i = cur + 1 => L[i].pipeto = n
        BY <3>1, <3>2, <3>3 DEF create_node, Node
      <3>5. ~(i <= tail)
        BY <1>2, <1>3, <2>2
      <3> QED
        BY <3>4, <3>5
    <2>3. i <= tail \/ i > tail
      BY <1>1, <1>2, <1>3
    <2> QED
      BY <2>1, <2>2, <2>3
  <1>5. L \in [0..NewTail(n) -> Node]
    <2> SUFFICES ASSUME NEW i \in 0..NewTail(n)
                 PROVE  (IF i <= tail
                         THEN IF i = cur + 1 THEN [node[i] EXCEPT !.pipeto = n] ELSE node[i]
                         ELSE create_node(linecount + (i - tail - 1),
                                          IF i = cur + 1 THEN n ELSE 0)) \in Node
      BY DEF NewList
    <2>1. L[i] \in Node
      BY <1>4
    <2> QED
      BY <2>1 DEF NewList
  <1>6. linecount + (NewTail(n) - tail) = FirstLine + NewTail(n)
    BY <1>1, <1>2, <1>3
  <1> QED
    BY <1>2, <1>4, <1>5, <1>6

(* The new nodes start with nothing in their pipes.                        *)
LEMMA NewWireIs ==
    ASSUME TypeOK, Numbered, NEW n \in 0..MaxPipe, cur + 1 + n <= MaxNode
    PROVE  /\ NewWire(n) \in [0..NewTail(n) -> Seq(1..MaxNode)]
           /\ \A i \in 0..NewTail(n) :
                 NewWire(n)[i] = IF i <= tail THEN wire[i] ELSE <<>>
  <1>1. NewTail(n) \in 0..MaxNode /\ tail <= NewTail(n)
    BY NewListIs
  <1>2. wire \in [0..tail -> Seq(1..MaxNode)] /\ tail \in Nat /\ MaxNode \in Nat
    BY LineListAssumption DEF TypeOK
  <1>3. ASSUME NEW i \in 0..NewTail(n)
        PROVE  (IF i <= tail THEN wire[i] ELSE <<>>) \in Seq(1..MaxNode)
    <2>1. <<>> \in Seq(1..MaxNode)
      OBVIOUS
    <2>2. i <= tail => i \in 0..tail
      BY <1>1, <1>2
    <2> QED
      BY <1>2, <2>1, <2>2
  <1> QED
    BY <1>3 DEF NewWire

(* The walk for |n stops n nodes below the current one, and nowhere else.  *)
LEMMA TargetIs ==
    ASSUME TypeOK, Numbered, NEW n \in 1..MaxPipe, cur + 1 + n <= MaxNode
    PROVE  Target(NewList(n), cur + 1, NewTail(n)) = {cur + 1 + n}
  <1>1. n \in 0..MaxPipe /\ MaxPipe \in Nat /\ MaxNode \in Nat /\ FirstLine \in Int /\ cur \in Nat
    BY LineListAssumption DEF TypeOK
  <1>2. /\ NewTail(n) \in 0..MaxNode
        /\ cur + 1 + n <= NewTail(n)
        /\ \A i \in 1..NewTail(n) : NewList(n)[i].linenum = FirstLine + i - 1
        /\ NewList(n)[cur + 1].pipeto = n
    <2>1. /\ NewTail(n) \in 0..MaxNode
          /\ cur + 1 + n <= NewTail(n)
          /\ \A i \in 0..NewTail(n) :
                /\ i >= 1 => NewList(n)[i].linenum = FirstLine + i - 1
                /\ i = cur + 1 => NewList(n)[i].pipeto = n
      BY <1>1, NewListIs
    <2>2. cur + 1 \in 0..NewTail(n)
      BY <1>1, <2>1
    <2>3. \A i \in 1..NewTail(n) : i \in 0..NewTail(n) /\ i >= 1
      BY <1>1, <2>1
    <2> QED
      BY <2>1, <2>2, <2>3
  <1>3. Matches(NewList(n), cur + 1, NewTail(n)) = {cur + 1 + n}
    BY <1>1, <1>2 DEF Matches
  <1> QED
    BY <1>1, <1>3 DEF Target

(* Opening the pipe of the target changes nothing else in the list.        *)
LEMMA FdOutIs ==
    ASSUME NEW last \in Nat, NEW list \in [0..last -> Node], NEW hit
    PROVE  /\ WithPipe(list, hit) \in [0..last -> Node]
           /\ \A i \in 0..last :
                 /\ WithPipe(list, hit)[i].linenum = list[i].linenum
                 /\ WithPipe(list, hit)[i].piped <=> (list[i].piped \/ i \in hit)
  <1>1. \A i \in 0..last : list[i] \in Node
    OBVIOUS
  <1>2. DOMAIN list = 0..last
    OBVIOUS
  <1> QED
    BY <1>1, <1>2 DEF WithPipe, Node

(* Writing to the pipe of the target keeps every pipe a sequence of lines. *)
LEMMA PouredIs ==
    ASSUME NEW last \in Nat, NEW list \in [0..last -> Node], NEW hit, NEW out,
           NEW w \in [0..last -> Seq(1..MaxNode)], cur + 1 \in 1..MaxNode
    PROVE  Poured(list, w, hit, out) \in [0..last -> Seq(1..MaxNode)]
  <1>1. \A i \in 0..last : w[i] \in Seq(1..MaxNode)
    OBVIOUS
  <1>2. DOMAIN w = 0..last
    OBVIOUS
  <1>3. <<>> \in Seq(1..MaxNode)
    OBVIOUS
  <1>4. \A s \in Seq(1..MaxNode) : Append(s, cur + 1) \in Seq(1..MaxNode)
    OBVIOUS
  <1> QED
    BY <1>1, <1>2, <1>3, <1>4 DEF Poured, Held

-----------------------------------------------------------------------------
(* The invariant.                                                          *)

(* What the lines have in common: they extend the list, add at most the    *)
(* pipe of their own target and close no descriptor but their own.         *)
LineStep(n, hit) ==
    /\ cur + 1 + n <= MaxNode
    /\ create_linenode(n)
    /\ node' \in [0..tail' -> Node]
    /\ \A i \in 0..tail' : node'[i].linenum = NewList(n)[i].linenum
    /\ \A i \in 0..tail' : node'[i].piped <=> (NewList(n)[i].piped \/ i \in hit)
    /\ wire' \in [0..tail' -> Seq(1..MaxNode)]
    /\ \A i \in 0..tail' : i \notin hit => wire'[i] = NewWire(n)[i]
    /\ wr' \union {cur + 1} = wr \union hit \union {cur + 1}
    /\ rd' \union {cur + 1} = rd \union hit \union {cur + 1}
    /\ idle' \in {idle, idle \union {cur + 1}}
    /\ cur + 1 \in wr' => cur + 1 \in idle'
    /\ bypassed' \in {bypassed, bypassed \union {cur + 1}}
    /\ ClosesReadout /\ cur + 1 \in rd' => cur + 1 \in idle' \union bypassed'
    /\ took' \in [kind : {"none", "stdin", "pipe", "user", "builtin", "refused", "empty"},
                  data : Seq(1..MaxNode)]
    /\ status' \in {"open", "closed", "faulted"}

(* Such a line keeps the invariant.                                        *)
LEMMA LineKeepsIInv ==
    ASSUME IInv, NEW n \in 0..MaxPipe,
           NEW hit, hit = {} \/ (n >= 1 /\ hit = {cur + 1 + n}),
           LineStep(n, hit)
    PROVE  IInv'
  <1> USE DEF LineStep
  <1>1. /\ MaxNode \in Nat /\ MaxPipe \in Nat /\ n \in Nat /\ FirstLine \in Int
        /\ tail \in 0..MaxNode /\ cur \in 0..tail
        /\ wr \subseteq 1..tail /\ rd \subseteq 1..tail /\ idle \subseteq 1..tail
        /\ bypassed \subseteq 1..tail
    BY LineListAssumption DEF IInv, TypeOK
  <1>2. TypeOK /\ Numbered
    BY DEF IInv
  <1>3. /\ tail' \in 0..MaxNode
        /\ cur + 1 + n <= tail'
        /\ tail <= tail'
        /\ cur' = cur + 1
        /\ linecount' = FirstLine + tail'
        /\ \A i \in 0..tail' :
              /\ i >= 1 => NewList(n)[i].linenum = FirstLine + i - 1
              /\ i <= tail => NewList(n)[i].piped = node[i].piped
              /\ i > tail => NewList(n)[i].piped = FALSE
    BY <1>2, NewListIs DEF create_linenode
  <1>4. \A i \in 0..tail' : NewWire(n)[i] = IF i <= tail THEN wire[i] ELSE <<>>
    BY <1>2, NewWireIs DEF create_linenode
  <1>5. hit \subseteq 1..tail'
    <2> HIDE DEF LineStep
    <2>1. cur \in Nat /\ n \in Nat /\ tail' \in Nat /\ cur + 1 + n <= tail'
      BY <1>1, <1>3
    <2> QED
      BY <2>1
  <1>50. tail' \in Nat /\ cur + 1 + n <= tail' /\ tail <= tail' /\ cur' = cur + 1
    BY <1>3
  <1>51. ASSUME NEW i \in hit PROVE i \in cur' + 1 .. tail'
    <2> HIDE DEF LineStep
    <2>1. n >= 1 /\ i = cur + 1 + n
      OBVIOUS
    <2>2. cur \in Int /\ n \in Int
      BY <1>1
    <2> QED
      BY <1>50, <2>1, <2>2
  <1>52. ASSUME NEW i, i \in cur + 1 .. tail, i # cur + 1 PROVE i \in cur' + 1 .. tail'
    <2> HIDE DEF LineStep
    <2>1. cur \in Int /\ tail \in Int /\ i \in Int
      BY <1>1, <1>52
    <2> QED
      BY <1>50, <1>52, <2>1
  <1>6. TypeOK'
    <2>1. /\ wr' \subseteq 1..tail' /\ rd' \subseteq 1..tail' /\ idle' \subseteq 1..tail'
          /\ bypassed' \subseteq 1..tail'
      <3>1. cur + 1 \in 1..tail' /\ 1..tail \subseteq 1..tail'
        BY <1>1, <1>3
      <3>2. /\ wr' \subseteq wr \union hit \union {cur + 1}
            /\ rd' \subseteq rd \union hit \union {cur + 1}
        OBVIOUS
      <3> QED
        BY <1>1, <1>5, <3>1, <3>2, Zenon
    <2>2. cur' \in 0..tail' /\ linecount' \in Int
      BY <1>1, <1>3
    <2>3. status' \in {"open", "closed", "lost", "faulted"}
      OBVIOUS
    <2>4. tail' \in 0..MaxNode
      BY <1>3
    <2> QED
      BY <2>1, <2>2, <2>3, <2>4 DEF TypeOK
  <1>7. Numbered'
    BY <1>1, <1>3 DEF Numbered
  <1>8. DryUnlessPiped'
    <2> SUFFICES ASSUME NEW i \in 0..tail', ~node'[i].piped
                 PROVE  wire'[i] = <<>>
      BY DEF DryUnlessPiped
    <2>1. i \notin hit /\ ~NewList(n)[i].piped /\ wire'[i] = NewWire(n)[i]
      OBVIOUS
    <2>2. CASE i <= tail
      <3>1. i \in 0..tail
        BY <1>1, <1>3, <2>2
      <3> QED
        BY <1>3, <1>4, <2>1, <2>2, <3>1 DEF IInv, DryUnlessPiped
    <2>3. CASE ~(i <= tail)
      BY <1>4, <2>1, <2>3
    <2> QED
      BY <2>2, <2>3
  <1>9. PendingOpen'
    <2> SUFFICES ASSUME NEW i \in cur' + 1 .. tail', node'[i].piped
                 PROVE  i \in wr' /\ i \in rd'
      BY DEF PendingOpen
    <2>1. i \in 0..tail' /\ i # cur + 1 /\ i \in Nat
      BY <1>1, <1>3
    <2>2. i \in hit \/ (i <= tail /\ node[i].piped)
      <3>1. NewList(n)[i].piped \/ i \in hit
        BY <2>1
      <3>2. i <= tail \/ i > tail
        BY <1>1, <2>1
      <3> QED
        BY <1>3, <2>1, <3>1, <3>2, Zenon
    <2>3. i \in hit \/ i \in cur + 1 .. tail
      BY <1>1, <1>3, <2>2
    <2>4. i \in wr \union hit /\ i \in rd \union hit
      BY <2>2, <2>3 DEF IInv, PendingOpen
    <2> QED
      BY <2>1, <2>4
  <1>10. WritersPending'
    <2> SUFFICES ASSUME NEW i \in wr', i \notin idle'
                 PROVE  i \in cur' + 1 .. tail'
      BY DEF WritersPending
    <2>1. i # cur + 1 /\ i \notin idle
      OBVIOUS
    <2>2. i \in wr \union hit
      BY <2>1
    <2>3. CASE i \in hit
      BY <1>51, <2>3
    <2>4. CASE i \in wr
      <3>1. i \in cur + 1 .. tail
        BY <2>1, <2>4 DEF IInv, WritersPending
      <3> QED
        BY <1>52, <2>1, <3>1
    <2> QED
      BY <2>2, <2>3, <2>4
  <1>11. ReadersPending'
    <2> SUFFICES ASSUME ClosesReadout, NEW i \in rd', i \notin idle', i \notin bypassed'
                 PROVE  i \in cur' + 1 .. tail'
      BY DEF ReadersPending, ClosesReadout
    <2>1. i # cur + 1 /\ i \notin idle /\ i \notin bypassed
      OBVIOUS
    <2>2. i \in rd \union hit
      BY <2>1
    <2>3. CASE i \in hit
      BY <1>51, <2>3
    <2>4. CASE i \in rd
      <3>1. i \in cur + 1 .. tail
        BY <2>1, <2>4 DEF IInv, ReadersPending
      <3> QED
        BY <1>52, <2>1, <3>1
    <2> QED
      BY <2>2, <2>3, <2>4
  <1>12. TargetFound'
    BY DEF TargetFound
  <1> QED
    BY <1>6, <1>7, <1>8, <1>9, <1>10, <1>11, <1>12 DEF IInv

(* What a line leaves of its own two descriptors.                          *)
LEMMA CloseOwnEndsIs ==
    ASSUME NEW W, NEW R, NEW user \in BOOLEAN, CloseOwnEnds(W, R, user)
    PROVE  /\ wr' \union {cur + 1} = W \union {cur + 1}
           /\ rd' \union {cur + 1} = R \union {cur + 1}
           /\ cur + 1 \notin wr'
           /\ bypassed' \in {bypassed, bypassed \union {cur + 1}}
           /\ ClosesReadout /\ cur + 1 \in rd' => cur + 1 \in bypassed'
  <1>1. CASE user
    BY <1>1 DEF CloseOwnEnds
  <1>2. CASE ~user
    BY <1>2 DEF CloseOwnEnds
  <1> QED
    BY <1>1, <1>2

(* What the first command of a line is given.                              *)
LEMMA FdInIs ==
    ASSUME NEW list, NEW w, NEW c, NEW user, w[c] \in Seq(1..MaxNode)
    PROVE  InputAt(list, w, c, user) \in [kind : {"none", "stdin", "pipe", "user", "builtin", "refused", "empty"},
                                  data : Seq(1..MaxNode)]
  <1>1. <<>> \in Seq(1..MaxNode)
    OBVIOUS
  <1> QED
    BY <1>1 DEF InputAt

(* The lists of a line that opens no pipe.                                 *)
LEMMA NoTargetIs ==
    ASSUME IInv, NEW n \in 0..MaxPipe, cur + 1 + n <= MaxNode, create_linenode(n),
           node' = NewList(n), wire' = NewWire(n)
    PROVE  /\ node' \in [0..tail' -> Node]
           /\ \A i \in 0..tail' : node'[i].linenum = NewList(n)[i].linenum
           /\ \A i \in 0..tail' : node'[i].piped <=> (NewList(n)[i].piped \/ i \in {})
           /\ wire' \in [0..tail' -> Seq(1..MaxNode)]
           /\ \A i \in 0..tail' : i \notin {} => wire'[i] = NewWire(n)[i]
           /\ cur + 1 \in 0..tail'
           /\ NewWire(n)[cur + 1] \in Seq(1..MaxNode)
  <1>1. TypeOK /\ Numbered /\ tail' = NewTail(n)
    BY DEF IInv, create_linenode
  <1>2. /\ NewList(n) \in [0..NewTail(n) -> Node]
        /\ cur + 1 + n <= NewTail(n)
        /\ NewTail(n) \in 0..MaxNode
    BY <1>1, NewListIs
  <1>3. NewWire(n) \in [0..NewTail(n) -> Seq(1..MaxNode)]
    BY <1>1, NewWireIs
  <1>4. cur + 1 \in 0..NewTail(n)
    BY <1>1, <1>2, LineListAssumption DEF TypeOK
  <1> QED
    BY <1>1, <1>2, <1>3, <1>4

(* The lists of a line that ends in |n and reaches its last command.       *)
LEMMA TargetListsAre ==
    ASSUME IInv, NEW n \in 1..MaxPipe, NEW out \in Outcomes, NEW user \in BOOLEAN,
           PipedLine(n, out, user)
    PROVE  /\ create_linenode(n)
           /\ cur + 1 + n <= MaxNode
           /\ cur + 1 + n \in 0..tail'
           /\ cur + 1 \in 0..tail'
           /\ node' \in [0..tail' -> Node]
           /\ \A i \in 0..tail' : node'[i].linenum = NewList(n)[i].linenum
           /\ \A i \in 0..tail' :
                 node'[i].piped <=> (NewList(n)[i].piped \/ i \in {cur + 1 + n})
           /\ wire' \in [0..tail' -> Seq(1..MaxNode)]
           /\ \A i \in 0..tail' : i \notin {cur + 1 + n} => wire'[i] = NewWire(n)[i]
           /\ wire'[cur + 1 + n] =
                 IF out = "wrote"
                 THEN Append(Held(NewList(n), NewWire(n), cur + 1 + n), cur + 1)
                 ELSE Held(NewList(n), NewWire(n), cur + 1 + n)
           /\ NewWire(n)[cur + 1] \in Seq(1..MaxNode)
           /\ CloseOwnEnds(wr \union {cur + 1 + n}, rd \union {cur + 1 + n}, user)
           /\ took' = InputAt(NewList(n), NewWire(n), cur + 1, user)
           /\ status' = "open"
           /\ idle' = idle
  <1> DEFINE t == cur + 1 + n
  <1>1. n \in 0..MaxPipe /\ n \in Nat /\ MaxNode \in Nat /\ cur \in Nat
    BY LineListAssumption DEF IInv, TypeOK
  <1>2. TypeOK /\ Numbered /\ t <= MaxNode
    BY DEF IInv, PipedLine
  <1>3. Target(NewList(n), cur + 1, NewTail(n)) = {t}
    BY <1>2, TargetIs
  <1>4. /\ create_linenode(n)
        /\ node' = WithPipe(NewList(n), {t})
        /\ wire' = Poured(NewList(n), NewWire(n), {t}, out)
        /\ took' = InputAt(NewList(n), NewWire(n), cur + 1, user)
        /\ CloseOwnEnds(wr \union {t}, rd \union {t}, user)
        /\ status' = "open"
        /\ idle' = idle
    BY <1>3 DEF PipedLine
  <1>5. tail' = NewTail(n)
    BY <1>4 DEF create_linenode
  <1>6. /\ NewList(n) \in [0..tail' -> Node]
        /\ t <= tail'
        /\ tail' \in 0..MaxNode
    BY <1>1, <1>2, <1>5, NewListIs
  <1>7. NewWire(n) \in [0..tail' -> Seq(1..MaxNode)]
    BY <1>1, <1>2, <1>5, NewWireIs
  <1>8. tail' \in Nat /\ t \in 0..tail' /\ cur + 1 \in 0..tail' /\ cur + 1 \in 1..MaxNode
    BY <1>1, <1>6
  <1> HIDE DEF t
  <1>9. /\ node' \in [0..tail' -> Node]
        /\ \A i \in 0..tail' :
              /\ node'[i].linenum = NewList(n)[i].linenum
              /\ node'[i].piped <=> (NewList(n)[i].piped \/ i \in {t})
    BY <1>4, <1>6, <1>8, FdOutIs
  <1>10. /\ wire' \in [0..tail' -> Seq(1..MaxNode)]
         /\ \A i \in 0..tail' : i \notin {t} => wire'[i] = NewWire(n)[i]
         /\ \A i \in 0..tail' : i \in {t} =>
               wire'[i] = IF out = "wrote"
                          THEN Append(Held(NewList(n), NewWire(n), i), cur + 1)
                          ELSE Held(NewList(n), NewWire(n), i)
    <2> DEFINE P == Poured(NewList(n), NewWire(n), {t}, out)
    <2>1. tail' \in Nat /\ NewList(n) \in [0..tail' -> Node] /\ cur + 1 \in 1..MaxNode
            /\ NewWire(n) \in [0..tail' -> Seq(1..MaxNode)]
      BY <1>6, <1>7, <1>8
    <2>2. wire' = P
      BY <1>4
    <2>3. ASSUME NEW i \in 0..tail', i \notin {t} PROVE P[i] = NewWire(n)[i]
      BY <2>1, <2>3 DEF Poured
    <2>4. ASSUME NEW i \in 0..tail', i \in {t}
         PROVE P[i] = IF out = "wrote"
                          THEN Append(Held(NewList(n), NewWire(n), i), cur + 1)
                          ELSE Held(NewList(n), NewWire(n), i)
      BY <2>1, <2>4 DEF Poured
    <2>5. P \in [0..tail' -> Seq(1..MaxNode)]
      BY <2>1, PouredIs
    <2> HIDE DEF P
    <2> QED
      BY <2>2, <2>3, <2>4, <2>5
  <1>11. wire'[t] = IF out = "wrote" THEN Append(Held(NewList(n), NewWire(n), t), cur + 1)
                                     ELSE Held(NewList(n), NewWire(n), t)
    BY <1>8, <1>10
  <1>12. NewWire(n)[cur + 1] \in Seq(1..MaxNode)
    BY <1>7, <1>8
  <1> QED
    BY <1>2, <1>4, <1>8, <1>9, <1>10, <1>11, <1>12 DEF t

(* Each kind of line is such a step.                                       *)
LEMMA NoTargetIsLineStep ==
    ASSUME IInv, NEW n \in 0..MaxPipe, cur + 1 + n <= MaxNode, create_linenode(n),
           node' = NewList(n), wire' = NewWire(n),
           wr' \union {cur + 1} = wr \union {cur + 1},
           rd' \union {cur + 1} = rd \union {cur + 1},
           idle' \in {idle, idle \union {cur + 1}},
           cur + 1 \in wr' => cur + 1 \in idle',
           bypassed' \in {bypassed, bypassed \union {cur + 1}},
           ClosesReadout /\ cur + 1 \in rd' => cur + 1 \in idle' \union bypassed',
           took' \in [kind : {"none", "stdin", "pipe", "user", "builtin", "refused", "empty"},
                      data : Seq(1..MaxNode)],
           status' \in {"open", "closed", "faulted"}
    PROVE  LineStep(n, {})
  <1>1. /\ node' \in [0..tail' -> Node]
        /\ \A i \in 0..tail' : node'[i].linenum = NewList(n)[i].linenum
        /\ \A i \in 0..tail' : node'[i].piped <=> (NewList(n)[i].piped \/ i \in {})
        /\ wire' \in [0..tail' -> Seq(1..MaxNode)]
        /\ \A i \in 0..tail' : i \notin {} => wire'[i] = NewWire(n)[i]
    BY NoTargetIs
  <1>2. wr \union {} \union {cur + 1} = wr \union {cur + 1}
        /\ rd \union {} \union {cur + 1} = rd \union {cur + 1}
    OBVIOUS
  <1> QED
    BY <1>1, <1>2, Zenon DEF LineStep

(* A line of commands without a numbered pipe at its end.                  *)
LEMMA PlainIsLineStep ==
    ASSUME IInv, 0 \in 0..MaxPipe, cur + 1 + 0 = cur + 1, NEW user \in BOOLEAN,
           PlainLine(user)
    PROVE  LineStep(0, {})
  <1>1. create_linenode(0) /\ node' = NewList(0) /\ wire' = NewWire(0)
        /\ cur + 1 + 0 <= MaxNode /\ idle' = idle /\ status' = "open"
        /\ CloseOwnEnds(wr, rd, user) /\ took' = InputAt(NewList(0), NewWire(0), cur + 1, user)
    BY DEF PlainLine
  <1>2. NewWire(0)[cur + 1] \in Seq(1..MaxNode)
    BY <1>1, NoTargetIs
  <1>3. took' \in [kind : {"none", "stdin", "pipe", "user", "builtin", "refused", "empty"},
                   data : Seq(1..MaxNode)]
    BY <1>1, <1>2, FdInIs
  <1>4. /\ wr' \union {cur + 1} = wr \union {cur + 1}
        /\ rd' \union {cur + 1} = rd \union {cur + 1}
        /\ cur + 1 \notin wr'
        /\ bypassed' \in {bypassed, bypassed \union {cur + 1}}
        /\ ClosesReadout /\ cur + 1 \in rd' => cur + 1 \in bypassed'
    BY <1>1, CloseOwnEndsIs
  <1> QED
    BY <1>1, <1>3, <1>4, NoTargetIsLineStep

(* A line given up before its last command.                                *)
LEMMA StoppedIsLineStep ==
    ASSUME IInv, NEW n \in 1..MaxPipe, NEW user \in BOOLEAN, StoppedLine(n, user)
    PROVE  LineStep(n, {})
  <1>1. create_linenode(n) /\ node' = NewList(n) /\ wire' = NewWire(n)
        /\ cur + 1 + n <= MaxNode /\ idle' = idle /\ status' = "open"
        /\ CloseOwnEnds(wr, rd, user) /\ took' = InputAt(NewList(n), NewWire(n), cur + 1, user)
    BY DEF StoppedLine
  <1>2. n \in 0..MaxPipe
    BY LineListAssumption
  <1>3. NewWire(n)[cur + 1] \in Seq(1..MaxNode)
    BY <1>1, <1>2, NoTargetIs
  <1>4. took' \in [kind : {"none", "stdin", "pipe", "user", "builtin", "refused", "empty"},
                   data : Seq(1..MaxNode)]
    BY <1>1, <1>3, FdInIs
  <1>5. /\ wr' \union {cur + 1} = wr \union {cur + 1}
        /\ rd' \union {cur + 1} = rd \union {cur + 1}
        /\ cur + 1 \notin wr'
        /\ bypassed' \in {bypassed, bypassed \union {cur + 1}}
        /\ ClosesReadout /\ cur + 1 \in rd' => cur + 1 \in bypassed'
    BY <1>1, CloseOwnEndsIs
  <1> QED
    BY <1>1, <1>2, <1>4, <1>5, NoTargetIsLineStep

(* A line that ends in |n or !n; it never loses its way in the list.       *)
LEMMA PipedIsLineStep ==
    ASSUME IInv, NEW n \in 1..MaxPipe, NEW out \in Outcomes, NEW user \in BOOLEAN,
           PipedLine(n, out, user)
    PROVE  LineStep(n, {cur + 1 + n})
  <1>1. NewWire(n)[cur + 1] \in Seq(1..MaxNode)
        /\ took' = InputAt(NewList(n), NewWire(n), cur + 1, user)
    BY TargetListsAre, ZenonT(60)
  <1>2. took' \in [kind : {"none", "stdin", "pipe", "user", "builtin", "refused", "empty"},
                   data : Seq(1..MaxNode)]
    BY <1>1, FdInIs
  <1>3. CloseOwnEnds(wr \union {cur + 1 + n}, rd \union {cur + 1 + n}, user)
    BY TargetListsAre
  <1>4. /\ wr' \union {cur + 1} = wr \union {cur + 1 + n} \union {cur + 1}
        /\ rd' \union {cur + 1} = rd \union {cur + 1 + n} \union {cur + 1}
        /\ cur + 1 \notin wr'
        /\ bypassed' \in {bypassed, bypassed \union {cur + 1}}
        /\ ClosesReadout /\ cur + 1 \in rd' => cur + 1 \in bypassed'
    BY <1>3, CloseOwnEndsIs
  <1>5. /\ create_linenode(n)
        /\ cur + 1 + n <= MaxNode
        /\ node' \in [0..tail' -> Node]
        /\ \A i \in 0..tail' : node'[i].linenum = NewList(n)[i].linenum
        /\ \A i \in 0..tail' :
              node'[i].piped <=> (NewList(n)[i].piped \/ i \in {cur + 1 + n})
        /\ wire' \in [0..tail' -> Seq(1..MaxNode)]
        /\ \A i \in 0..tail' : i \notin {cur + 1 + n} => wire'[i] = NewWire(n)[i]
        /\ status' \in {"open", "closed", "faulted"}
        /\ idle' \in {idle, idle \union {cur + 1}}
    BY TargetListsAre
  <1> QED
    BY <1>2, <1>4, <1>5 DEF LineStep

(* setenv, printenv and the chat commands.                                 *)
LEMMA BuiltinIsLineStep ==
    ASSUME IInv, 0 \in 0..MaxPipe, cur + 1 + 0 = cur + 1, BuiltinLine
    PROVE  LineStep(0, {})
  <1>1. create_linenode(0) /\ node' = NewList(0) /\ wire' = NewWire(0)
        /\ cur + 1 + 0 <= MaxNode /\ idle' = idle \union {cur + 1} /\ status' = "open"
        /\ wr' = wr /\ rd' = rd /\ bypassed' = bypassed
        /\ took' = [kind |-> "builtin", data |-> <<>>]
    BY DEF BuiltinLine
  <1>2. took' \in [kind : {"none", "stdin", "pipe", "user", "builtin", "refused", "empty"},
                   data : Seq(1..MaxNode)]
    BY <1>1
  <1> QED
    BY <1>1, <1>2, NoTargetIsLineStep

(* A line that symbol_chk refuses.                                         *)
LEMMA RefusedIsLineStep ==
    ASSUME IInv, NEW n \in 0..MaxPipe, RefusedLine(n)
    PROVE  LineStep(n, {})
  <1>1. create_linenode(n) /\ node' = NewList(n) /\ wire' = NewWire(n)
        /\ cur + 1 + n <= MaxNode /\ idle' = idle \union {cur + 1}
        /\ status' \in {"open", "closed", "faulted"}
        /\ wr' = wr /\ rd' = rd /\ bypassed' = bypassed
        /\ took' = [kind |-> "refused", data |-> <<>>]
    BY DEF RefusedLine
  <1>2. took' \in [kind : {"none", "stdin", "pipe", "user", "builtin", "refused", "empty"},
                   data : Seq(1..MaxNode)]
    BY <1>1
  <1> QED
    BY <1>1, <1>2, NoTargetIsLineStep

(* A line without a command, whether the shell survives it or not.         *)
LEMMA EmptyIsLineStep ==
    ASSUME IInv, NEW n \in 0..MaxPipe, EmptyLine(n)
    PROVE  LineStep(n, {})
  <1>1. create_linenode(n) /\ node' = NewList(n) /\ wire' = NewWire(n)
        /\ cur + 1 + n <= MaxNode /\ idle' = idle \union {cur + 1}
        /\ status' \in {"open", "closed", "faulted"}
        /\ wr' = wr /\ rd' = rd /\ bypassed' = bypassed
        /\ took' = [kind |-> "empty", data |-> <<>>]
    BY DEF EmptyLine
  <1>2. took' \in [kind : {"none", "stdin", "pipe", "user", "builtin", "refused", "empty"},
                   data : Seq(1..MaxNode)]
    BY <1>1
  <1> QED
    BY <1>1, <1>2, NoTargetIsLineStep

(* IInv holds initially and is kept by every line.                         *)
LEMMA InitIInv == Init => IInv
  <1> SUFFICES ASSUME Init PROVE IInv
    OBVIOUS
  <1>1. cur = 0 /\ tail = 0 /\ 0..0 = {0} /\ 1..0 = {}
    BY DEF Init
  <1>2. TypeOK
    <2>1. create_node(0, 0) \in Node
      BY LineListAssumption DEF create_node, Node
    <2>2. <<>> \in Seq(1..MaxNode)
      OBVIOUS
    <2>3. node \in [0..tail -> Node] /\ wire \in [0..tail -> Seq(1..MaxNode)]
      BY <1>1, <2>1, <2>2 DEF Init
    <2>4. took \in [kind : {"none", "stdin", "pipe", "user", "builtin", "refused", "empty"},
                   data : Seq(1..MaxNode)]
      BY <2>2 DEF Init
    <2>5. tail \in 0..MaxNode /\ cur \in 0..tail /\ linecount \in Int
      BY <1>1, LineListAssumption DEF Init
    <2> QED
      BY <2>3, <2>4, <2>5 DEF Init, TypeOK
  <1>3. Numbered
    BY <1>1, LineListAssumption DEF Init, Numbered
  <1>4. DryUnlessPiped /\ PendingOpen /\ WritersPending /\ ReadersPending /\ TargetFound
    BY <1>1 DEF Init, DryUnlessPiped, PendingOpen, WritersPending, ReadersPending, TargetFound
  <1> QED
    BY <1>2, <1>3, <1>4 DEF IInv

(* Every line and exit keep the invariant.                                 *)
LEMMA NextIInv == IInv /\ [Next]_vars => IInv'
  <1> SUFFICES ASSUME IInv, [Next]_vars PROVE IInv'
    OBVIOUS
  <1>1. 0 \in 0..MaxPipe /\ cur \in Nat /\ cur + 1 + 0 = cur + 1
    BY LineListAssumption DEF IInv, TypeOK
  <1>2. ASSUME NEW user \in BOOLEAN, PlainLine(user)
        PROVE  IInv'
    <2>1. LineStep(0, {})
      BY <1>1, <1>2, PlainIsLineStep
    <2> QED
      BY <1>1, <2>1, LineKeepsIInv
  <1>3. ASSUME NEW n \in 1..MaxPipe, NEW user \in BOOLEAN, StoppedLine(n, user)
        PROVE  IInv'
    <2>1. LineStep(n, {}) /\ n \in 0..MaxPipe
      BY <1>3, StoppedIsLineStep, LineListAssumption
    <2> QED
      BY <2>1, LineKeepsIInv
  <1>4. ASSUME NEW n \in 1..MaxPipe, NEW out \in Outcomes, NEW user \in BOOLEAN,
           PipedLine(n, out, user)
        PROVE  IInv'
    <2>1. LineStep(n, {cur + 1 + n}) /\ n \in 0..MaxPipe /\ n >= 1
      BY <1>4, PipedIsLineStep, LineListAssumption
    <2> QED
      BY <2>1, LineKeepsIInv
  <1>5. CASE BuiltinLine
    <2>1. LineStep(0, {})
      BY <1>1, <1>5, BuiltinIsLineStep
    <2> QED
      BY <1>1, <2>1, LineKeepsIInv
  <1>6. ASSUME NEW n \in 0..MaxPipe, EmptyLine(n)
        PROVE  IInv'
    <2>1. LineStep(n, {})
      BY <1>6, EmptyIsLineStep
    <2> QED
      BY <2>1, LineKeepsIInv
  <1>60. ASSUME NEW n \in 0..MaxPipe, RefusedLine(n)
         PROVE  IInv'
    <2>1. LineStep(n, {}) /\ n \in 0..MaxPipe
      BY <1>60, RefusedIsLineStep, LineListAssumption
    <2> QED
      BY <2>1, LineKeepsIInv
  <1>7. CASE Exit
    BY <1>7 DEF Exit, IInv, TypeOK, Numbered, DryUnlessPiped, PendingOpen,
                WritersPending, ReadersPending, ClosesReadout, TargetFound
  <1>8. CASE UNCHANGED vars
    BY <1>8 DEF vars, IInv, TypeOK, Numbered, DryUnlessPiped, PendingOpen,
                WritersPending, ReadersPending, ClosesReadout, TargetFound
  <1> QED
    BY <1>2, <1>3, <1>4, <1>5, <1>6, <1>60, <1>7, <1>8 DEF Next, TakesUserPipe

(* The invariant holds in every session, for every MaxPipe and FirstLine.  *)
THEOREM InductiveInvariant == Spec => []IInv
  BY InitIInv, NextIInv, PTL DEF Spec

(* No |N makes execute_cmdline walk off its list, in any session: the node *)
(* N lines below has been created by the time the line runs.               *)
THEOREM TargetAlwaysFound == Spec => []TargetFound
  BY InductiveInvariant, PTL DEF IInv

(* The state of the list stays well formed.                                *)
THEOREM TypeCorrect == Spec => []TypeOK
  BY InductiveInvariant, PTL DEF IInv

(* The pipes of the lines to come stay open at both ends; the shell holds  *)
(* no write end of a line that has run a command, and the shared-memory    *)
(* shell no read end either, but of a line that took a user's pipe.        *)
THEOREM PipesHeldAsNeeded == Spec => []PipesHeld
  <1>1. IInv => PipesHeld
    BY DEF IInv, PipesHeld
  <1> QED
    BY <1>1, InductiveInvariant, PTL

-----------------------------------------------------------------------------
(* The list implements the numbered pipes.                                 *)

(* What a line does to the abstract state.                                 *)
Fed == {i \in 1..tail : node[i].piped}
Due == [i \in 1..MaxNode |-> IF i <= tail THEN wire[i] ELSE <<>>]

(* What a line does to the list does to the abstract pipes what it should. *)
LEMMA LineOnPipes ==
    ASSUME IInv, NEW n \in 0..MaxPipe,
           NEW hit, hit = {} \/ (n >= 1 /\ hit = {cur + 1 + n}),
           LineStep(n, hit)
    PROVE  /\ cur' = cur + 1
           /\ Fed' = Fed \union hit
           /\ \A i \in 1..MaxNode :
                 Due'[i] = IF i \in hit THEN wire'[i] ELSE Due[i]
  <1>1. /\ MaxNode \in Nat /\ MaxPipe \in Nat /\ n \in Nat
        /\ tail \in 0..MaxNode /\ cur \in 0..tail
    BY LineListAssumption DEF IInv, TypeOK
  <1>2. TypeOK /\ Numbered
    BY DEF IInv
  <1>3. /\ tail' \in 0..MaxNode
        /\ cur + 1 + n <= tail'
        /\ tail <= tail'
        /\ cur' = cur + 1
        /\ \A i \in 0..tail' :
              /\ i <= tail => NewList(n)[i].piped = node[i].piped
              /\ i > tail => NewList(n)[i].piped = FALSE
    BY <1>2, NewListIs DEF LineStep, create_linenode
  <1>4. \A i \in 0..tail' : NewWire(n)[i] = IF i <= tail THEN wire[i] ELSE <<>>
    BY <1>2, NewWireIs DEF LineStep, create_linenode
  <1>5. hit \subseteq 1..tail'
    BY <1>1, <1>3
  <1>6. \A i \in 0..tail' : node'[i].piped <=> (NewList(n)[i].piped \/ i \in hit)
    BY DEF LineStep
  <1>7. \A i \in 0..tail' : i \notin hit => wire'[i] = NewWire(n)[i]
    BY DEF LineStep
  <1>8. ASSUME NEW i \in 1..tail'
        PROVE  node'[i].piped <=> (i \in Fed \/ i \in hit)
    <2>1. i \in 0..tail' /\ (i <= tail => i \in 1..tail) /\ (i <= tail \/ i > tail)
          /\ (i > tail => i \notin 1..tail)
      BY <1>1, <1>3
    <2> QED
      BY <1>3, <1>6, <2>1, Zenon DEF Fed
  <1>9. Fed' = Fed \union hit
    <2>1. Fed \subseteq 1..tail'
      BY <1>1, <1>3 DEF Fed
    <2> QED
      BY <1>5, <1>8, <2>1 DEF Fed
  <1>10. ASSUME NEW i \in 1..MaxNode
         PROVE  Due'[i] = IF i \in hit THEN wire'[i] ELSE Due[i]
    <2>1. CASE i <= tail'
      <3>1. i \in 0..tail' /\ Due'[i] = wire'[i]
        BY <1>1, <1>3, <2>1 DEF Due
      <3> QED
        BY <1>4, <1>7, <3>1 DEF Due
    <2>2. CASE ~(i <= tail')
      <3>1. i \notin hit /\ ~(i <= tail)
        BY <1>1, <1>3, <1>5, <2>2
      <3> QED
        BY <2>2, <3>1 DEF Due
    <2> QED
      BY <2>1, <2>2
  <1> QED
    BY <1>3, <1>9, <1>10

(* A line finds in its input what the earlier lines sent to it.            *)
LEMMA InputIs ==
    ASSUME IInv, NEW n \in 0..MaxPipe, NEW user \in BOOLEAN, cur + 1 + n <= MaxNode
    PROVE  InputAt(NewList(n), NewWire(n), cur + 1, user) = NP!Input(cur + 1, user)
  <1>1. TypeOK /\ Numbered
    BY DEF IInv
  <1>2. /\ MaxNode \in Nat /\ n \in Nat /\ tail \in 0..MaxNode /\ cur \in 0..tail
    BY <1>1, LineListAssumption DEF TypeOK
  <1>3. /\ NewTail(n) \in 0..MaxNode
        /\ cur + 1 + n <= NewTail(n)
        /\ \A i \in 0..NewTail(n) :
              /\ i <= tail => NewList(n)[i].piped = node[i].piped
              /\ i > tail => NewList(n)[i].piped = FALSE
    BY <1>1, NewListIs
  <1>4. \A i \in 0..NewTail(n) : NewWire(n)[i] = IF i <= tail THEN wire[i] ELSE <<>>
    BY <1>1, NewWireIs
  <1>5. cur + 1 \in 0..NewTail(n) /\ cur + 1 \in 1..MaxNode
    BY <1>2, <1>3
  <1>6. NewWire(n)[cur + 1] = Due[cur + 1]
    BY <1>4, <1>5 DEF Due
  <1>7. NewList(n)[cur + 1].piped <=> cur + 1 \in Fed
    <2>1. CASE cur + 1 <= tail
      <3>1. cur + 1 \in 1..tail
        BY <1>2, <2>1
      <3> QED
        BY <1>3, <1>5, <2>1, <3>1 DEF Fed
    <2>2. CASE cur + 1 > tail
      <3>1. cur + 1 \notin 1..tail
        BY <1>2, <2>2
      <3> QED
        BY <1>3, <1>5, <2>2, <3>1 DEF Fed
    <2> QED
      BY <1>2, <2>1, <2>2
  <1> QED
    BY <1>6, <1>7 DEF InputAt, NP!Input, Fed, Due

(* A line without a target leaves what waits for the lines to come alone.  *)
LEMMA NothingSent ==
    ASSUME IInv, NEW n \in 0..MaxPipe, LineStep(n, {})
    PROVE  cur' = cur + 1 /\ Fed' = Fed /\ Due' = Due
  <1>1. /\ cur' = cur + 1
        /\ Fed' = Fed \union {}
        /\ \A i \in 1..MaxNode : Due'[i] = IF i \in {} THEN wire'[i] ELSE Due[i]
    BY LineOnPipes
  <1>2. Due' = Due
    BY <1>1 DEF Due
  <1> QED
    BY <1>1, <1>2

(* A line that ends in |n appends itself to what waits for the line n      *)
(* below if it wrote, and to nothing else.                                 *)
LEMMA SentToTarget ==
    ASSUME IInv, NEW n \in 1..MaxPipe, NEW out \in Outcomes, NEW user \in BOOLEAN,
           PipedLine(n, out, user)
    PROVE  /\ cur' = cur + 1
           /\ Fed' = Fed \union {cur + 1 + n}
           /\ Due' = IF out = "wrote"
                     THEN [Due EXCEPT ![cur + 1 + n] = Append(@, cur + 1)]
                     ELSE Due
  <1> DEFINE t == cur + 1 + n
  <1>1. n \in 0..MaxPipe /\ n >= 1
    BY LineListAssumption
  <1>2. LineStep(n, {t})
    BY PipedIsLineStep
  <1>3. /\ cur' = cur + 1
        /\ Fed' = Fed \union {t}
        /\ \A i \in 1..MaxNode : Due'[i] = IF i \in {t} THEN wire'[i] ELSE Due[i]
    BY <1>1, <1>2, LineOnPipes
  <1>4. TypeOK /\ Numbered /\ t <= MaxNode /\ create_linenode(n)
    BY <1>2 DEF IInv, LineStep
  <1>5. t \in 1..MaxNode /\ tail \in 0..MaxNode /\ MaxNode \in Nat
    BY <1>1, <1>4, LineListAssumption DEF TypeOK
  <1>6. /\ t \in 0..NewTail(n)
        /\ \A i \in 0..NewTail(n) :
              /\ i <= tail => NewList(n)[i].piped = node[i].piped
              /\ i > tail => NewList(n)[i].piped = FALSE
    <2>1. /\ NewTail(n) \in 0..MaxNode
          /\ t <= NewTail(n)
          /\ \A i \in 0..NewTail(n) :
                /\ i <= tail => NewList(n)[i].piped = node[i].piped
                /\ i > tail => NewList(n)[i].piped = FALSE
      BY <1>1, <1>4, NewListIs
    <2> QED
      BY <1>5, <2>1
  <1>7. NewWire(n)[t] = IF t <= tail THEN wire[t] ELSE <<>>
    BY <1>1, <1>4, <1>6, NewWireIs
  <1>8. Held(NewList(n), NewWire(n), t) = Due[t]
    <2>1. CASE t <= tail
      <3>1. t \in 0..tail
        BY <1>5, <2>1
      <3>2. NewList(n)[t].piped = node[t].piped
        BY <1>6, <2>1
      <3>3. NewWire(n)[t] = wire[t] /\ Due[t] = wire[t]
        BY <1>5, <1>7, <2>1 DEF Due
      <3>4. ~node[t].piped => wire[t] = <<>>
        BY <3>1 DEF IInv, DryUnlessPiped
      <3> QED
        BY <3>2, <3>3, <3>4, Zenon DEF Held
    <2>2. CASE t > tail
      <3>1. ~(t <= tail)
        BY <1>5, <2>2
      <3>2. NewList(n)[t].piped = FALSE
        BY <1>6, <2>2
      <3>3. Due[t] = <<>>
        BY <1>5, <3>1 DEF Due
      <3> QED
        BY <3>2, <3>3 DEF Held
    <2> QED
      BY <1>5, <2>1, <2>2
  <1>9. wire'[t] = IF out = "wrote" THEN Append(Held(NewList(n), NewWire(n), t), cur + 1)
                                    ELSE Held(NewList(n), NewWire(n), t)
    BY TargetListsAre
  <1>10. Due' = IF out = "wrote" THEN [Due EXCEPT ![t] = Append(@, cur + 1)] ELSE Due
    <2>1. \A i \in 1..MaxNode :
            Due'[i] = IF i = t THEN IF out = "wrote" THEN Append(Due[t], cur + 1) ELSE Due[t]
                               ELSE Due[i]
      BY <1>3, <1>8, <1>9
    <2>2. Due = [i \in 1..MaxNode |-> Due[i]] /\ Due' = [i \in 1..MaxNode |-> Due'[i]]
      BY DEF Due
    <2> HIDE DEF t
    <2> QED
      BY <1>5, <2>1, <2>2
  <1> QED
    BY <1>3, <1>10

(* A new list is an empty set of pipes.                                    *)
LEMMA InitOnPipes == Init => NP!Init
  <1> SUFFICES ASSUME Init PROVE NP!Init
    OBVIOUS
  <1>1. cur = 0 /\ tail = 0 /\ 1..0 = {} /\ \A i \in 1..MaxNode : ~(i <= 0)
    BY LineListAssumption DEF Init
  <1> QED
    BY <1>1 DEF Init, NP!Init

(* Every line of the list is a line of NumberedPipes.                      *)
LEMMA NextOnPipes == IInv /\ [Next]_vars => [NP!Next]_(NP!vars)
  <1> SUFFICES ASSUME IInv, [Next]_vars PROVE [NP!Next]_(NP!vars)
    OBVIOUS
  <1>1. /\ 0 \in 0..MaxPipe /\ cur \in Nat /\ cur + 1 + 0 = cur + 1
        /\ MaxNode \in Nat /\ (cur + 1 <= MaxNode => cur < MaxNode)
    BY LineListAssumption DEF IInv, TypeOK
  <1>2. ASSUME NEW user \in BOOLEAN, PlainLine(user)
        PROVE  [NP!Next]_(NP!vars)
    <2>1. LineStep(0, {})
      BY <1>1, <1>2, PlainIsLineStep
    <2>2. took' = NP!Input(cur + 1, user) /\ cur < MaxNode
      BY <1>1, <1>2, InputIs DEF PlainLine
    <2>3. NP!Plain(user)
      BY <1>1, <2>1, <2>2, NothingSent DEF NP!Plain, Fed, Due
    <2> QED
      BY <2>3 DEF NP!Next
  <1>3. ASSUME NEW n \in 1..MaxPipe, NEW user \in BOOLEAN, StoppedLine(n, user)
        PROVE  [NP!Next]_(NP!vars)
    <2>1. LineStep(n, {}) /\ n \in 0..MaxPipe
      BY <1>3, StoppedIsLineStep, LineListAssumption
    <2>2. took' = NP!Input(cur + 1, user) /\ cur + 1 + n <= MaxNode
      BY <1>3, <2>1, InputIs DEF StoppedLine
    <2>3. NP!Piped(n, "stopped", user)
      BY <2>1, <2>2, NothingSent DEF NP!Piped, Fed, Due
    <2> QED
      BY <2>3 DEF NP!Next, NP!Outcomes
  <1>4. ASSUME NEW n \in 1..MaxPipe, NEW out \in Outcomes, NEW user \in BOOLEAN,
           PipedLine(n, out, user)
        PROVE  [NP!Next]_(NP!vars)
    <2>1. n \in 0..MaxPipe /\ cur + 1 + n <= MaxNode
      BY <1>4, LineListAssumption DEF PipedLine
    <2>2. took' = NP!Input(cur + 1, user)
      BY <1>4, <2>1, InputIs DEF PipedLine
    <2>3. out # "stopped"
      BY DEF Outcomes
    <2>4. NP!Piped(n, out, user)
      <3>1. cur + 1 + n <= MaxNode /\ cur' = cur + 1
        BY <1>4, <2>1, SentToTarget
      <3>2. /\ Fed' = IF out = "stopped" THEN Fed ELSE Fed \union {cur + 1 + n}
            /\ Due' = IF out = "wrote"
                      THEN [Due EXCEPT ![cur + 1 + n] = Append(@, cur + 1)]
                      ELSE Due
        BY <1>4, <2>3, SentToTarget
      <3> QED
        BY <2>2, <3>1, <3>2 DEF NP!Piped, Fed, Due
    <2> QED
      BY <2>4 DEF NP!Next, NP!Outcomes, Outcomes
  <1>5. CASE BuiltinLine
    <2>1. LineStep(0, {})
      BY <1>1, <1>5, BuiltinIsLineStep
    <2>2. took' = [kind |-> "builtin", data |-> <<>>] /\ cur < MaxNode
      BY <1>1, <1>5 DEF BuiltinLine
    <2>3. NP!Idle("builtin")
      BY <1>1, <2>1, <2>2, NothingSent DEF NP!Idle, Fed, Due
    <2> QED
      BY <2>3 DEF NP!Next
  <1>6. ASSUME NEW n \in 0..MaxPipe, EmptyLine(n)
        PROVE  [NP!Next]_(NP!vars)
    <2>1. LineStep(n, {})
      BY <1>6, EmptyIsLineStep
    <2>2. cur + 1 + n <= MaxNode /\ n \in Nat
      BY <1>6, LineListAssumption DEF EmptyLine
    <2>3. took' = [kind |-> "empty", data |-> <<>>] /\ cur < MaxNode
      BY <1>1, <1>6, <2>2 DEF EmptyLine
    <2>4. NP!Idle("empty")
      BY <2>1, <2>3, NothingSent DEF NP!Idle, Fed, Due
    <2> QED
      BY <2>4 DEF NP!Next
  <1>60. ASSUME NEW n \in 0..MaxPipe, RefusedLine(n)
         PROVE  [NP!Next]_(NP!vars)
    <2>1. LineStep(n, {}) /\ n \in 0..MaxPipe
      BY <1>60, RefusedIsLineStep, LineListAssumption
    <2>2. cur + 1 + n <= MaxNode /\ n \in Nat
      BY <1>60, LineListAssumption DEF RefusedLine
    <2>3. took' = [kind |-> "refused", data |-> <<>>] /\ cur < MaxNode
      BY <1>1, <1>60, <2>2 DEF RefusedLine
    <2>4. NP!Idle("refused")
      BY <2>1, <2>3, NothingSent DEF NP!Idle, Fed, Due
    <2> QED
      BY <2>4 DEF NP!Next
  <1>7. CASE Exit
    BY <1>7 DEF Exit, NP!vars
  <1>8. CASE UNCHANGED vars
    BY <1>8 DEF vars, NP!vars
  <1> QED
    BY <1>2, <1>3, <1>4, <1>5, <1>6, <1>60, <1>7, <1>8 DEF Next, TakesUserPipe

(* Whatever |N and !N the lines of a session end in, and whichever of them *)
(* fail, each line that runs and names no user to take from is given       *)
(* exactly what the earlier lines sent to it, in the order of those lines. *)
THEOREM ListDelivers == Spec => Delivers
  BY InitOnPipes, NextOnPipes, InductiveInvariant, PTL DEF Spec, NP!Spec, Delivers

-----------------------------------------------------------------------------
(* One line: the table of the shell.                                       *)

(* How far the line has given up the ends of the pipe to it.               *)
Begun  == C > 0 \/ stage # "start"
Passed == C > 0 \/ stage \in {"wait", "done"}

GivenUp(x) == (Begun /\ x = fd_writein) \/ (Passed /\ ReleasesReadout /\ x = fd_readout)

(* What the shell has open on x if no pipe of the loop is.                 *)
Basis(x) == IF GivenUp(x) THEN Closed ELSE Before(line)[x]

(* The loop makes the pipe that the command C writes to, and which it is.  *)
Makes   == ~LastCommand \/ line.out = "new"
OutEnd  == IF LastCommand THEN OutPipe ELSE C
ToAFile == LastCommand /\ line.out = "file"

(* The numbers that the loop has opened and not closed yet: the read end   *)
(* of the pipe from the command before, the two ends of the pipe that the  *)
(* command C writes to, the file.                                          *)
KeepsFrom  == C > 0 /\ stage \in {"start", "close"}
KeepsRead  == Makes /\ stage # "start"
KeepsWrite == Makes /\ (stage = "close" \/ (LastCommand /\ stage \in {"wait", "done"}))
KeepsFile  == ToAFile /\ stage = "close"

IsOn(x, kind, p) == x \in Nums /\ fds[x] = Open(kind, p)

Table ==
    /\ \A x \in Nums : Basis(x) # Closed => fds[x] = Basis(x)
    /\ \A x \in Nums : Basis(x) = Closed =>
          \/ fds[x] = Closed
          \/ KeepsFrom /\ x = pipes_fd[C - 1].r
          \/ KeepsRead /\ x = pipes_fd[C].r
          \/ KeepsWrite /\ x = pipes_fd[C].w
          \/ KeepsFile /\ x = fd_out
    /\ KeepsFrom => IsOn(pipes_fd[C - 1].r, "read", C - 1)
    /\ KeepsRead => IsOn(pipes_fd[C].r, "read", OutEnd)
    /\ KeepsWrite => IsOn(pipes_fd[C].w, "write", OutEnd)
    /\ KeepsFile => IsOn(fd_out, "file", 0)

(* What the loop remembers between the fork and the closes after it.       *)
Turn ==
    stage = "close" =>
        /\ fd_in = Input
        /\ Makes => fd_out = pipes_fd[C].w
        /\ fd_tofile = IF ToAFile THEN fd_out ELSE NoFd

(* No pipe of the loop ever had one of the numbers a command is given.     *)
Above == \A i \in 0..MaxCmd : pipes_fd[i].r \notin 0..2 /\ pipes_fd[i].w \notin 0..2

Alone == stage \in {"start", "done"} => kid.state = "none"

CommandIInv == CommandTypeOK /\ Table /\ Turn /\ Above /\ Alone /\ RightEnds /\ InputEnds

-----------------------------------------------------------------------------
(* Numbers, lines and tables.                                              *)

LEMMA Numbers ==
    /\ MaxCmd \in Nat /\ MaxFd \in Nat /\ MaxFd >= 14 /\ 0 < MaxCmd
    /\ \A x \in 0..14 : x \in Nums
    /\ NoFd = MaxFd + 1 /\ NoFd \notin Nums /\ NoFd \in 0..NoFd
    /\ \A x \in Nums : x \in Nat /\ x \in 0..NoFd
    /\ \A x \in 0..NoFd : x \in Nums \/ x = NoFd
  BY CommandLineAssumption DEF Nums, NoFd

(* What two descriptors are open on is the same only if kind and pipe are. *)
LEMMA OpenParts ==
    /\ \A k, p, j, q : Open(k, p) = Open(j, q) => k = j /\ p = q
    /\ \A p : Open("std", p) # Closed /\ Open("listen", p) # Closed /\ Open("client", p) # Closed
    /\ \A p : Open("file", p) # Closed /\ Open("read", p) # Closed /\ Open("write", p) # Closed
<1>1. \A k, p : Open(k, p).kind = k /\ Open(k, p).pipe = p
  BY DEF Open
<1>2. \A k, p, j, q : Open(k, p) = Open(j, q) => k = j /\ p = q
  BY <1>1
<1>3. Closed.kind = "closed"
  BY <1>1 DEF Closed
<1> QED
  BY <1>1, <1>2, <1>3

LEMMA LineParts ==
    ASSUME NEW l \in Lines
    PROVE  /\ l.n \in 1..MaxCmd /\ l.in \in {"stdin", "pipe", "fifo", "over"}
           /\ l.out \in {"client", "file", "new", "held"}
           /\ l.both \in BOOLEAN
  BY DEF Lines

(* What a line finds.                                                      *)
LEMMA BeforeParts ==
    ASSUME NEW l \in Lines
    PROVE  /\ Before(l)[0] = Open("std", 0) /\ Before(l)[1] = Open("std", 1)
           /\ Before(l)[2] = Open("std", 2) /\ Before(l)[4] = Open("client", 0)
           /\ l.in # "stdin" => Before(l)[5] = Open("read", InPipe)
           /\ l.out = "held" => /\ Before(l)[7] = Open("read", OutPipe)
                                /\ Before(l)[8] = Open("write", OutPipe)
           /\ \A x \in Nums : x > 9 => Before(l)[x] = Closed
           /\ \A x \in Nums : x = 6 /\ l.in \in {"pipe", "over"} => Before(l)[x] # Closed
<1>1. \A x \in 0..14 : x \in Nums
  BY Numbers
<1>2. ASSUME NEW x \in 0..2 PROVE Before(l)[x] = Open("std", x)
  BY <1>1 DEF Before, clifd, target_in
<1>3. Before(l)[4] = Open("client", 0)
  BY <1>1 DEF Before, clifd, target_in
<1>4. l.in # "stdin" => Before(l)[5] = Open("read", InPipe)
  BY <1>1 DEF Before, clifd, target_in
<1>5. l.out = "held" => /\ Before(l)[7] = Open("read", OutPipe)
                        /\ Before(l)[8] = Open("write", OutPipe)
  BY <1>1 DEF Before, clifd, target_in
<1>6. ASSUME NEW x \in Nums, x > 9 PROVE Before(l)[x] = Closed
  BY <1>6, Numbers DEF Before, clifd, target_in
<1>7. /\ l.in = "pipe" => Before(l)[6] = Open("write", InPipe)
      /\ l.in = "over" => Before(l)[6] = Open("write", LostPipe)
  BY <1>1 DEF Before, clifd, target_in
<1> QED
  BY <1>2, <1>3, <1>4, <1>5, <1>6, <1>7, OpenParts

(* The pipes of the loop are not among what a line finds.                  *)
LEMMA BeforePipes ==
    ASSUME NEW l \in Lines, NEW x \in Nums
    PROVE  /\ \/ Before(l)[x] = Closed
              \/ Before(l)[x].kind \in {"std", "listen", "client", "read", "write"}
           /\ Before(l)[x].kind = "read" => Before(l)[x].pipe \in {InPipe, OutPipe, LostPipe}
           /\ Before(l)[x].kind = "write" =>
                 \/ Before(l)[x].pipe = OutPipe
                 \/ /\ Before(l)[x].pipe \in {InPipe, LostPipe}
                    /\ x = 6 /\ l.in \in {"pipe", "over"}
           /\ Before(l)[x] \in [kind : Kinds, pipe : Pipes]
<1>1. \A k, p : Open(k, p).kind = k /\ Open(k, p).pipe = p
  BY DEF Open
<1>2. \A k \in Kinds, p \in Pipes : Open(k, p) \in [kind : Kinds, pipe : Pipes]
  BY DEF Open
<1>3. /\ 0 \in Pipes /\ InPipe \in Pipes /\ OutPipe \in Pipes /\ LostPipe \in Pipes
      /\ Closed = Open("closed", 0)
  BY CommandLineAssumption DEF Pipes, InPipe, OutPipe, LostPipe, Closed
<1>4. {"closed", "std", "listen", "client", "read", "write"} \subseteq Kinds
  BY DEF Kinds
<1>5. CASE x \in 0..2
  <2>1. x \in Pipes
    BY <1>5, CommandLineAssumption DEF Pipes, OutPipe, LostPipe
  <2>2. Before(l)[x] = Open("std", x)
    BY <1>5 DEF Before, clifd, target_in
  <2> QED
    BY <1>1, <1>2, <1>4, <2>1, <2>2
<1>6. CASE x \notin 0..2
  <2>1. \/ Before(l)[x] = Open("listen", 0)
        \/ Before(l)[x] = Open("client", 0)
        \/ Before(l)[x] = Open("read", InPipe)
        \/ Before(l)[x] = Open("write", InPipe) /\ x = 6 /\ l.in = "pipe"
        \/ Before(l)[x] = Open("write", LostPipe) /\ x = 6 /\ l.in = "over"
        \/ Before(l)[x] = Open("read", LostPipe)
        \/ Before(l)[x] = Open("read", OutPipe)
        \/ Before(l)[x] = Open("write", OutPipe)
        \/ Before(l)[x] = Closed
    BY <1>6 DEF Before, clifd, target_in
  <2> QED
    BY <1>1, <1>2, <1>3, <1>4, <2>1
<1> QED
  BY <1>5, <1>6

(* A set of numbers that has a member has a lowest one.                    *)
LEMMA LowestIn ==
    ASSUME NEW S \in SUBSET Nums, S # {}
    PROVE  Lowest(S) \in S
<1> DEFINE R == OpToRel(<, Nat)
<1>1. \A x, y \in Nat : <<x, y>> \in R <=> x < y
  BY DEF OpToRel
<1>2. IsWellFoundedOn(R, Nat)
  BY NatLessThanWellFounded
<1> HIDE DEF R
<1>3. S \subseteq Nat
  BY Numbers
<1>4. PICK x \in S : \A y \in S : ~(<<y, x>> \in R)
  BY <1>2, <1>3, WFMin
<1>5. \A y \in S : x <= y
  <2>1. TAKE y \in S
  <2>2. x \in Nat /\ y \in Nat
    BY <1>3
  <2>3. ~(y < x)
    BY <1>1, <1>4, <2>2
  <2> QED
    BY <2>2, <2>3
<1> QED
  BY <1>5 DEF Lowest

(* A table is changed at one number.                                       *)
LEMMA TablePut ==
    ASSUME NEW t \in Tables, NEW x \in Nums, NEW k \in Kinds, NEW p \in Pipes
    PROVE  LET u == [t EXCEPT ![x] = Open(k, p)]
           IN  /\ u \in Tables /\ u[x] = Open(k, p)
               /\ \A y \in Nums : y # x => u[y] = t[y]
<1>1. Open(k, p) \in [kind : Kinds, pipe : Pipes]
  BY DEF Open
<1> QED
  BY <1>1 DEF Tables

(* pipe() takes two numbers that are free and leaves the others alone.     *)
LEMMA PipeMade ==
    ASSUME NEW t \in Tables, NEW p \in Pipes, NEW a \in Free(t), NEW b \in Free(t), a # b
    PROVE  LET m == MakePipe(t, p)
           IN  /\ m.r \in Nums /\ m.w \in Nums /\ m.r # m.w
               /\ t[m.r] = Closed /\ t[m.w] = Closed
               /\ m.table \in Tables
               /\ m.table[m.r] = Open("read", p) /\ m.table[m.w] = Open("write", p)
               /\ \A x \in Nums : x # m.r /\ x # m.w => m.table[x] = t[x]
<1> DEFINE r == Lowest(Free(t))
           w == Lowest(Free(t) \ {r})
           u == [t EXCEPT ![r] = Open("read", p)]
           v == [u EXCEPT ![w] = Open("write", p)]
<1>1. Free(t) \in SUBSET Nums /\ \A x \in Free(t) : t[x] = Closed
  BY DEF Free
<1>2. r \in Free(t)
  BY <1>1, LowestIn
<1>3. w \in Free(t) \ {r}
  <2>1. Free(t) \ {r} \in SUBSET Nums /\ Free(t) \ {r} # {}
    BY <1>1
  <2> QED
    BY <2>1, LowestIn
<1>4. /\ MakePipe(t, p).r = r /\ MakePipe(t, p).w = w
      /\ MakePipe(t, p).table = [t EXCEPT ![r] = Open("read", p), ![w] = Open("write", p)]
  BY DEF MakePipe
<1>5. "read" \in Kinds /\ "write" \in Kinds
  BY DEF Kinds
<1> HIDE DEF r, w
<1>6. MakePipe(t, p).table = v
  BY <1>4
<1>7. /\ u \in Tables /\ u[r] = Open("read", p)
      /\ \A x \in Nums : x # r => u[x] = t[x]
  BY <1>1, <1>2, <1>5, TablePut
<1> HIDE DEF u
<1>8. /\ v \in Tables /\ v[w] = Open("write", p)
      /\ \A x \in Nums : x # w => v[x] = u[x]
  BY <1>1, <1>3, <1>5, <1>7, TablePut
<1> HIDE DEF v
<1> QED
  BY <1>1, <1>2, <1>3, <1>4, <1>6, <1>7, <1>8

(* The table of a new process: what it reads, writes and complains to, and *)
(* of the rest no more than its parent has.                                *)
LEMMA ChildMade ==
    ASSUME NEW t \in Tables, NEW in \in Nums, NEW out \in Nums, NEW tofile,
           out \notin 0..2, tofile \notin 0..2, line \in Lines,
           \A i \in 0..C - 1 : pipes_fd[i].r \notin 0..2 /\ pipes_fd[i].w \notin 0..2
    PROVE  LET k == ChildTable(t, in, out, tofile)
           IN  /\ k \in Tables
               /\ k[0] = t[in] /\ k[1] = t[out]
               /\ k[2] = IF LastCommand /\ line.both THEN t[out] ELSE t[clifd]
               /\ \A x \in Nums : k[x] = Closed \/ \E y \in Nums : k[x] = t[y]
<1> DEFINE err == IF LastCommand /\ line.both THEN out ELSE clifd
           d0 == Dup(t, in, 0)
           d1 == Dup(d0, out, 1)
           d2 == Dup(d1, err, 2)
           S  == {pipes_fd[i].r : i \in 0..C-1} \union {pipes_fd[i].w : i \in 0..C-1}
                    \union (IF fd_readout # NoFd THEN {fd_readout, fd_writein} ELSE {})
                    \union {tofile}
<1>1. {0, 1, 2, clifd} \subseteq Nums /\ clifd \notin 0..2 /\ err \in Nums /\ err \notin 0..2
  BY Numbers DEF clifd
<1>2. ChildTable(t, in, out, tofile) = Shut(d2, S)
  BY DEF ChildTable
<1>3. S \cap {0, 1, 2} = {}
  <2>1. fd_readout \notin 0..2 /\ fd_writein \notin 0..2
    BY Numbers DEF fd_readout, fd_writein
  <2> QED
    BY <2>1
<1> HIDE DEF err, S
<1>4. d0 \in Tables /\ d0[0] = t[in] /\ \A x \in Nums : x # 0 => d0[x] = t[x]
  BY <1>1 DEF Tables, Dup
<1> HIDE DEF d0
<1>5. d1 \in Tables /\ d1[1] = d0[out] /\ \A x \in Nums : x # 1 => d1[x] = d0[x]
  BY <1>1, <1>4 DEF Tables, Dup
<1> HIDE DEF d1
<1>6. d2 \in Tables /\ d2[2] = d1[err] /\ \A x \in Nums : x # 2 => d2[x] = d1[x]
  BY <1>1, <1>5 DEF Tables, Dup
<1> HIDE DEF d2
<1>7. d2[0] = t[in] /\ d2[1] = t[out] /\ d2[2] = t[err]
  BY <1>1, <1>4, <1>5, <1>6
<1>8. \A x \in Nums : \E y \in Nums : d2[x] = t[y]
  <2>1. \A x \in Nums : x \notin 0..2 => d2[x] = t[x]
    BY <1>4, <1>5, <1>6
  <2> QED
    BY <1>1, <1>7, <2>1
<1>9. /\ Shut(d2, S) \in Tables
      /\ \A x \in Nums : Shut(d2, S)[x] = IF x \in S THEN Closed ELSE d2[x]
  <2>1. Closed \in [kind : Kinds, pipe : Pipes]
    BY CommandLineAssumption DEF Closed, Open, Kinds, Pipes, OutPipe, LostPipe
  <2> QED
    BY <1>6, <2>1 DEF Shut, Tables
<1> QED
  BY <1>1, <1>2, <1>3, <1>7, <1>8, <1>9 DEF err
-----------------------------------------------------------------------------
(* What the invariant says of the numbers of the shell.                    *)

LEMMA LineIn ==
    ASSUME CommandTypeOK
    PROVE  /\ line \in Lines /\ line.n \in 1..MaxCmd /\ C \in 0..line.n - 1
           /\ C \in Nat /\ C < MaxCmd /\ C \in 0..MaxCmd /\ C \in Pipes
           /\ OutEnd \in Pipes /\ OutEnd \notin {InPipe, LostPipe}
           /\ C \notin {InPipe, LostPipe, OutPipe}
           /\ InPipe # OutPipe /\ OutPipe \in Pipes
           /\ C > 0 => /\ C - 1 \in 0..MaxCmd /\ C - 1 # C /\ C - 1 # OutEnd
                       /\ C - 1 \notin {InPipe, LostPipe, OutPipe} /\ C - 1 \in Pipes
           /\ ~LastCommand => C + 1 \in 0..line.n - 1 /\ C + 1 - 1 = C /\ C + 1 > 0
<1>1. line \in Lines /\ C \in 0..line.n - 1
  BY DEF CommandTypeOK
<1>2. line.n \in 1..MaxCmd
  BY <1>1, LineParts
<1>3. MaxCmd \in Nat
  BY Numbers
<1> QED
  BY <1>1, <1>2, <1>3 DEF OutEnd, InPipe, OutPipe, LostPipe, Pipes, LastCommand

(* The numbers of the line, and what they are among the others.            *)
LEMMA LineNumbers ==
    /\ fd_writein \notin 0..5 /\ fd_writein # 7 /\ fd_writein # 8
    /\ fd_readout \notin 0..4 /\ fd_readout # 7 /\ fd_readout # 8
    /\ fd_readout # fd_writein \/ fd_readout \notin Nums
    /\ fd_writein \in Nums => fd_writein = 6 /\ line.in \in {"pipe", "over"}
    /\ fd_readout \in Nums => fd_readout = 5 /\ line.in # "stdin"
    /\ fd_readout = NoFd => line.in = "stdin"
    /\ fd_readout # NoFd => fd_readout = 5 /\ line.in # "stdin"
    /\ {0, 1, 2, 4, 5, 7, 8} \subseteq Nums
  BY Numbers DEF fd_writein, fd_readout

(* The numbers every command is given are taken from the first to the      *)
(* last command, and so are those of the target where there is one.        *)
LEMMA BasisParts ==
    ASSUME CommandTypeOK
    PROVE  /\ Basis(0) = Open("std", 0) /\ Basis(1) = Open("std", 1)
           /\ Basis(2) = Open("std", 2) /\ Basis(clifd) = Open("client", 0)
           /\ line.out = "held" => /\ Basis(7) = Open("read", OutPipe)
                                   /\ Basis(target_in) = Open("write", OutPipe)
           /\ line.in # "stdin" /\ ~Passed => Basis(5) = Open("read", InPipe)
           /\ \A x \in Nums : x > 9 => Basis(x) = Closed
<1>1. line \in Lines
  BY DEF CommandTypeOK
<1>2. ~GivenUp(0) /\ ~GivenUp(1) /\ ~GivenUp(2) /\ ~GivenUp(4) /\ ~GivenUp(7) /\ ~GivenUp(8)
  BY LineNumbers DEF GivenUp
<1>3. ~Passed => ~GivenUp(5)
  BY LineNumbers DEF GivenUp
<1> QED
  BY <1>1, <1>2, <1>3, BeforeParts DEF Basis, clifd, target_in

(* No pipe of the loop, and no file, is among what the line found.         *)
LEMMA BasisKinds ==
    ASSUME line \in Lines, NEW x \in Nums, Basis(x) # Closed
    PROVE  /\ \A p : Basis(x) # Open("file", p)
           /\ \A p : Basis(x) = Open("read", p) => p \in {InPipe, OutPipe, LostPipe}
           /\ \A p : Basis(x) = Open("write", p) =>
                 p = OutPipe \/ (p \in {InPipe, LostPipe} /\ x = fd_writein /\ ~Begun)
           /\ Basis(x) = Before(line)[x] /\ ~GivenUp(x)
<1>2. Basis(x) = Before(line)[x] /\ ~GivenUp(x)
  BY DEF Basis
<1>3. \A k, p : Open(k, p).kind = k /\ Open(k, p).pipe = p
  BY DEF Open
<1>4. x = 6 /\ line.in \in {"pipe", "over"} => x = fd_writein
  BY DEF fd_writein
<1>5. x = fd_writein => ~Begun
  BY <1>2 DEF GivenUp
<1> QED
  BY <1>2, <1>3, <1>4, <1>5, BeforePipes

(* Who could write to a pipe: nobody but who should.                       *)
FewWriters ==
    \A x \in Nums, p \in Pipes :
        fds[x] = Open("write", p) =>
            p = OutPipe \/ p = OutEnd \/ (p \in {InPipe, LostPipe} /\ ~Begun)

LEMMA WritersAre == (line \in Lines /\ Table) => FewWriters
<1> SUFFICES ASSUME line \in Lines, Table, NEW x \in Nums, NEW p \in Pipes,
                    fds[x] = Open("write", p)
             PROVE  p = OutPipe \/ p = OutEnd \/ (p \in {InPipe, LostPipe} /\ ~Begun)
  BY DEF FewWriters
<1>1. CASE Basis(x) # Closed
  <2>1. fds[x] = Basis(x)
    BY <1>1 DEF Table
  <2> QED
    BY <1>1, <2>1, BasisKinds
<1>2. CASE Basis(x) = Closed
  <2>1. \/ fds[x] = Closed
        \/ fds[x] = Open("read", C - 1)
        \/ fds[x] = Open("read", OutEnd)
        \/ fds[x] = Open("write", OutEnd)
        \/ fds[x] = Open("file", 0)
    BY <1>2 DEF Table, IsOn
  <2> QED
    BY <2>1, OpenParts
<1> QED
  BY <1>1, <1>2

(* Before a command two numbers are free that the shell never uses.        *)
LEMMA TwoFree ==
    ASSUME CommandTypeOK, Table, stage = "start"
    PROVE  /\ \E a \in Free(fds), b \in Free(fds) : a # b
           /\ Free(fds) \in SUBSET Nums
           /\ \A x \in Free(fds) : x \in Nums /\ fds[x] = Closed /\ Basis(x) = Closed /\ x \notin 0..2
<1>1. \A x \in {10, 11, 12} : x \in Nums /\ Basis(x) = Closed
  BY Numbers, BasisParts
<1>2. ~KeepsRead /\ ~KeepsWrite /\ ~KeepsFile
  BY DEF KeepsRead, KeepsWrite, KeepsFile
<1>3. \A x \in {10, 11, 12} : fds[x] = Closed \/ x = pipes_fd[C - 1].r
  BY <1>1, <1>2 DEF Table
<1>4. \A x \in {10, 11, 12} : x \in Free(fds) \/ x = pipes_fd[C - 1].r
  BY <1>1, <1>3 DEF Free
<1>5. \E a \in Free(fds), b \in Free(fds) : a # b
  <2>1. CASE 10 \notin Free(fds)
    <3>1. 11 \in Free(fds) /\ 12 \in Free(fds)
      BY <1>4, <2>1
    <3> QED
      BY <3>1
  <2>2. CASE 11 \notin Free(fds)
    <3>1. 10 \in Free(fds) /\ 12 \in Free(fds)
      BY <1>4, <2>2
    <3> QED
      BY <3>1
  <2> QED
    BY <2>1, <2>2
<1>6. ASSUME NEW x \in Free(fds)
      PROVE  x \in Nums /\ fds[x] = Closed /\ Basis(x) = Closed /\ x \notin 0..2
  <2>1. x \in Nums /\ fds[x] = Closed
    BY DEF Free
  <2>2. Basis(x) = Closed
    BY <2>1 DEF Table
  <2>3. x # 0 /\ x # 1 /\ x # 2
    BY <2>2, BasisParts, OpenParts
  <2> QED
    BY <2>1, <2>2, <2>3
<1>7. Free(fds) \in SUBSET Nums
  BY DEF Free
<1> QED
  BY <1>5, <1>6, <1>7

(* What is opened for a command: new numbers, or the one that is there.    *)
LEMMA OpenedEffect ==
    ASSUME CommandTypeOK, Table, stage = "start"
    PROVE  /\ Opened.table \in Tables
           /\ Opened.w \in Nums /\ Opened.w \notin 0..2
           /\ \A x \in Nums : x # Opened.r /\ x # Opened.w => Opened.table[x] = fds[x]
           /\ Makes =>
                 /\ Opened.r \in Nums /\ Opened.r # Opened.w /\ Opened.r \notin 0..2
                 /\ fds[Opened.r] = Closed /\ fds[Opened.w] = Closed
                 /\ Opened.table[Opened.r] = Open("read", OutEnd)
                 /\ Opened.table[Opened.w] = Open("write", OutEnd)
           /\ ~Makes => Opened.r = NoFd
           /\ ToAFile => fds[Opened.w] = Closed /\ Opened.table[Opened.w] = Open("file", 0)
           /\ ~Makes /\ ~ToAFile => Opened.table = fds
           /\ ~Makes /\ line.out = "held" => Opened.w = target_in
           /\ ~Makes /\ line.out = "client" => Opened.w = clifd
<1>1. line.out \in {"client", "file", "new", "held"}
  BY LineIn, LineParts
<1>2. fds \in Tables /\ OutEnd \in Pipes /\ 0 \in Pipes /\ C \in Pipes
  BY LineIn, CommandLineAssumption DEF CommandTypeOK, Pipes, LostPipe
<1>3. CASE Makes
  <2>1. Opened = MakePipe(fds, OutEnd)
    BY <1>3 DEF Makes, Opened, OutEnd
  <2>2. PICK a \in Free(fds), b \in Free(fds) : a # b
    BY TwoFree
  <2>3. /\ Opened.r \in Nums /\ Opened.w \in Nums /\ Opened.r # Opened.w
        /\ fds[Opened.r] = Closed /\ fds[Opened.w] = Closed
        /\ Opened.table \in Tables
        /\ Opened.table[Opened.r] = Open("read", OutEnd)
        /\ Opened.table[Opened.w] = Open("write", OutEnd)
        /\ \A x \in Nums : x # Opened.r /\ x # Opened.w => Opened.table[x] = fds[x]
    BY <1>2, <2>1, <2>2, PipeMade
  <2>4. Opened.r \in Free(fds) /\ Opened.w \in Free(fds)
    BY <2>3 DEF Free
  <2>5. Opened.r \notin 0..2 /\ Opened.w \notin 0..2
    BY <2>4, TwoFree
  <2>6. ~ToAFile
    BY <1>3 DEF Makes, ToAFile
  <2> QED
    BY <1>3, <2>3, <2>5, <2>6
<1>4. CASE ToAFile
  <2> DEFINE w == Lowest(Free(fds))
             u == [fds EXCEPT ![w] = Open("file", 0)]
  <2>1. Opened = [table |-> u, r |-> NoFd, w |-> w]
    BY <1>4 DEF ToAFile, Opened
  <2>2. w \in Free(fds)
    BY TwoFree, LowestIn
  <2> HIDE DEF w
  <2>3. w \in Nums /\ fds[w] = Closed /\ w \notin 0..2
    BY <2>2, TwoFree
  <2>4. "file" \in Kinds
    BY DEF Kinds
  <2>5. u \in Tables /\ u[w] = Open("file", 0) /\ \A x \in Nums : x # w => u[x] = fds[x]
    BY <1>2, <2>3, <2>4, TablePut
  <2> HIDE DEF u
  <2>6. Opened.table = u /\ Opened.r = NoFd /\ Opened.w = w
    BY <2>1
  <2>7. ~Makes /\ line.out = "file"
    BY <1>4 DEF Makes, ToAFile
  <2> QED
    BY <1>4, <2>3, <2>5, <2>6, <2>7
<1>5. CASE ~Makes /\ ~ToAFile
  <2>1. LastCommand /\ line.out \in {"held", "client"}
    BY <1>1, <1>5 DEF Makes, ToAFile
  <2>2. Opened = [table |-> fds, r |-> NoFd,
                  w |-> IF line.out = "held" THEN target_in ELSE clifd]
    BY <2>1 DEF Opened
  <2>3. {target_in, clifd} \subseteq Nums /\ target_in \notin 0..2 /\ clifd \notin 0..2
    BY Numbers DEF target_in, clifd
  <2>4. Opened.table = fds /\ Opened.r = NoFd
        /\ Opened.w = IF line.out = "held" THEN target_in ELSE clifd
    BY <2>2
  <2> QED
    BY <1>2, <1>5, <2>1, <2>3, <2>4
<1> QED
  BY <1>3, <1>4, <1>5

(* The names of a turn do not change while the loop is at a command.       *)
LEMMA SameTurn ==
    ASSUME line' = line, C' = C
    PROVE  /\ LastCommand' = LastCommand /\ Makes' = Makes /\ OutEnd' = OutEnd /\ ToAFile' = ToAFile
           /\ fd_writein' = fd_writein /\ fd_readout' = fd_readout
           /\ ReleasesReadout' = ReleasesReadout
  BY DEF LastCommand, Makes, OutEnd, ToAFile, fd_writein, fd_readout, ReleasesReadout

(* A command is started: the table of the shell.                           *)
LEMMA StartTable ==
    ASSUME CommandIInv, Start
    PROVE  /\ Table' /\ Turn' /\ Above' /\ fds' \in Tables
           /\ pipes_fd' \in [0..MaxCmd -> [r : 0..NoFd, w : 0..NoFd]]
<1> DEFINE t == Opened.table
           r == Opened.r
           w == Opened.w
<1>1. /\ stage = "start" /\ stage' = "close" /\ line' = line /\ C' = C
      /\ fds' = (IF C = 0 THEN Shut(t, {fd_writein}) ELSE t)
      /\ pipes_fd' = (IF r = NoFd THEN pipes_fd ELSE [pipes_fd EXCEPT ![C] = [r |-> r, w |-> w]])
      /\ fd_out' = w /\ fd_in' = Input
      /\ fd_tofile' = (IF LastCommand /\ line.out = "file" THEN w ELSE NoFd)
  BY DEF Start
<1>2. CommandTypeOK /\ Table /\ Above
  BY DEF CommandIInv
<1>3. /\ t \in Tables
      /\ w \in Nums /\ w \notin 0..2
      /\ \A x \in Nums : x # r /\ x # w => t[x] = fds[x]
      /\ Makes =>
            /\ r \in Nums /\ r # w /\ r \notin 0..2
            /\ fds[r] = Closed /\ fds[w] = Closed
            /\ t[r] = Open("read", OutEnd) /\ t[w] = Open("write", OutEnd)
      /\ ~Makes => r = NoFd
      /\ ToAFile => fds[w] = Closed /\ t[w] = Open("file", 0)
      /\ ~Makes /\ ~ToAFile => t = fds
  BY <1>1, <1>2, OpenedEffect
<1> HIDE DEF t, r, w
<1>4. /\ LastCommand' = LastCommand /\ Makes' = Makes /\ OutEnd' = OutEnd /\ ToAFile' = ToAFile
      /\ fd_writein' = fd_writein /\ fd_readout' = fd_readout /\ ReleasesReadout' = ReleasesReadout
  BY <1>1, SameTurn
<1>5. /\ C \in Nat /\ C \in 0..MaxCmd
      /\ C > 0 => C - 1 \in 0..MaxCmd /\ C - 1 # C
  BY <1>2, LineIn
<1>6. /\ fds' \in Tables
      /\ \A x \in Nums : fds'[x] = IF C = 0 /\ x = fd_writein THEN Closed ELSE t[x]
  <2>1. Closed \in [kind : Kinds, pipe : Pipes]
    BY CommandLineAssumption DEF Closed, Open, Kinds, Pipes, OutPipe, LostPipe
  <2> QED
    BY <1>1, <1>3, <2>1 DEF Shut, Tables
<1>7. /\ pipes_fd' \in [0..MaxCmd -> [r : 0..NoFd, w : 0..NoFd]]
      /\ Makes => pipes_fd'[C].r = r /\ pipes_fd'[C].w = w
      /\ \A i \in 0..MaxCmd : i # C \/ ~Makes => pipes_fd'[i] = pipes_fd[i]
  <2>1. pipes_fd \in [0..MaxCmd -> [r : 0..NoFd, w : 0..NoFd]]
    BY <1>2 DEF CommandTypeOK
  <2>2. CASE Makes
    <3>1. r # NoFd /\ r \in 0..NoFd /\ w \in 0..NoFd
      BY <1>3, <2>2, Numbers
    <3>2. pipes_fd' = [pipes_fd EXCEPT ![C] = [r |-> r, w |-> w]]
      BY <1>1, <3>1
    <3>3. [r |-> r, w |-> w] \in [r : 0..NoFd, w : 0..NoFd]
      BY <3>1
    <3> QED
      BY <1>5, <2>1, <2>2, <3>2, <3>3
  <2>3. CASE ~Makes
    BY <1>1, <1>3, <2>1, <2>3
  <2> QED
    BY <2>2, <2>3
<1>8. \A x \in Nums : Basis(x)' = IF x = fd_writein THEN Closed ELSE Basis(x)
  BY <1>1, <1>4 DEF Basis, GivenUp, Begun, Passed, Before
<1>9. ~KeepsRead /\ ~KeepsWrite /\ ~KeepsFile /\ (KeepsFrom <=> C > 0)
  BY <1>1 DEF KeepsRead, KeepsWrite, KeepsFile, KeepsFrom
<1>10. /\ KeepsFrom' <=> C > 0
       /\ KeepsRead' <=> Makes
       /\ KeepsWrite' <=> Makes
       /\ KeepsFile' <=> ToAFile
  BY <1>1, <1>4 DEF KeepsRead, KeepsWrite, KeepsFile, KeepsFrom
<1>11. Makes => ~ToAFile
  BY DEF Makes, ToAFile
(* What is opened is not what is given up.                                 *)
<1>12. Makes => (C = 0 => r # fd_writein /\ w # fd_writein)
  <2>1. ASSUME C = 0, fd_writein \in Nums PROVE fds[fd_writein] # Closed
    <3>1. fd_writein = 6 /\ line.in \in {"pipe", "over"}
      BY <2>1, LineNumbers
    <3>2. Before(line)[fd_writein] # Closed
      BY <2>1, <3>1, BeforeParts DEF CommandIInv, CommandTypeOK
    <3>3. Basis(fd_writein) = Before(line)[fd_writein]
      BY <1>1, <2>1 DEF Basis, GivenUp, Begun, Passed
    <3> QED
      BY <1>2, <2>1, <3>2, <3>3 DEF Table
  <2> QED
    BY <1>3, <2>1
<1>13. ToAFile => (C = 0 => w # fd_writein)
  <2>1. ASSUME C = 0, fd_writein \in Nums PROVE fds[fd_writein] # Closed
    <3>1. fd_writein = 6 /\ line.in \in {"pipe", "over"}
      BY <2>1, LineNumbers
    <3>2. Before(line)[fd_writein] # Closed
      BY <2>1, <3>1, BeforeParts DEF CommandIInv, CommandTypeOK
    <3>3. Basis(fd_writein) = Before(line)[fd_writein]
      BY <1>1, <2>1 DEF Basis, GivenUp, Begun, Passed
    <3> QED
      BY <1>2, <2>1, <3>2, <3>3 DEF Table
  <2> QED
    BY <1>3, <2>1
<1>14. ASSUME NEW x \in Nums, fds[x] # Closed
       PROVE  t[x] = fds[x]
  BY <1>3, <1>14, Numbers
<1>15. \A x \in Nums : Basis(x)' # Closed => fds'[x] = Basis(x)'
  <2>1. TAKE x \in Nums
  <2>2. HAVE Basis(x)' # Closed
  <2>3. x # fd_writein /\ Basis(x)' = Basis(x)
    BY <1>8, <2>2
  <2>4. fds[x] = Basis(x)
    BY <1>2, <2>2, <2>3 DEF Table
  <2> QED
    BY <1>6, <1>14, <2>2, <2>3, <2>4
<1>16. ASSUME NEW x \in Nums, Basis(x)' = Closed
       PROVE  \/ fds'[x] = Closed
              \/ C > 0 /\ x = pipes_fd'[C - 1].r
              \/ Makes /\ x = pipes_fd'[C].r
              \/ Makes /\ x = pipes_fd'[C].w
              \/ ToAFile /\ x = fd_out'
  <2>1. CASE C = 0 /\ x = fd_writein
    BY <1>6, <2>1
  <2>2. CASE ~(C = 0 /\ x = fd_writein)
    <3>1. fds'[x] = t[x]
      BY <1>6, <2>2
    <3>2. Basis(x) = Closed
      <4>1. CASE x = fd_writein
        <5>1. C > 0
          BY <1>5, <2>2, <4>1
        <5> QED
          BY <4>1, <5>1 DEF Basis, GivenUp, Begun
      <4>2. CASE x # fd_writein
        BY <1>8, <1>16, <4>2
      <4> QED
        BY <4>1, <4>2
    <3>3. fds[x] = Closed \/ (C > 0 /\ x = pipes_fd[C - 1].r)
      BY <1>2, <1>9, <3>2 DEF Table
    <3>4. CASE Makes
      BY <1>3, <1>5, <1>7, <3>1, <3>3, <3>4
    <3>5. CASE ToAFile
      <4>1. ~Makes /\ r = NoFd /\ x # r
        BY <1>3, <1>11, <3>5, Numbers
      <4> QED
        BY <1>1, <1>3, <1>5, <1>7, <3>1, <3>3, <3>5, <4>1
    <3>6. CASE ~Makes /\ ~ToAFile
      BY <1>3, <1>5, <1>7, <3>1, <3>3, <3>6
    <3> QED
      BY <3>4, <3>5, <3>6
  <2> QED
    BY <2>1, <2>2
<1>17. C > 0 => pipes_fd'[C - 1].r \in Nums /\ fds'[pipes_fd'[C - 1].r] = Open("read", C - 1)
  <2>1. HAVE C > 0
  <2>2. IsOn(pipes_fd[C - 1].r, "read", C - 1)
    BY <1>2, <1>9, <2>1 DEF Table
  <2>3. pipes_fd'[C - 1] = pipes_fd[C - 1]
    BY <1>5, <1>7, <2>1
  <2>4. pipes_fd[C - 1].r \in Nums /\ fds[pipes_fd[C - 1].r] = Open("read", C - 1)
    BY <2>2 DEF IsOn
  <2>5. fds[pipes_fd[C - 1].r] # Closed
    BY <2>4, OpenParts
  <2>6. t[pipes_fd[C - 1].r] = Open("read", C - 1)
    BY <1>14, <2>4, <2>5
  <2>7. ~(C = 0)
    BY <2>1, <1>5
  <2> QED
    BY <1>6, <2>3, <2>4, <2>6, <2>7
<1>18. Makes => /\ pipes_fd'[C].r \in Nums /\ fds'[pipes_fd'[C].r] = Open("read", OutEnd)
                /\ pipes_fd'[C].w \in Nums /\ fds'[pipes_fd'[C].w] = Open("write", OutEnd)
  BY <1>3, <1>6, <1>7, <1>12
<1>19. ToAFile => fd_out' \in Nums /\ fds'[fd_out'] = Open("file", 0)
  BY <1>1, <1>3, <1>6, <1>13
<1>20. Table'
  <2>1. \A x \in Nums : Basis(x)' = Closed =>
           \/ fds'[x] = Closed
           \/ KeepsFrom' /\ x = pipes_fd'[C' - 1].r
           \/ KeepsRead' /\ x = pipes_fd'[C'].r
           \/ KeepsWrite' /\ x = pipes_fd'[C'].w
           \/ KeepsFile' /\ x = fd_out'
    BY <1>1, <1>10, <1>16
  <2>2. KeepsFrom' => IsOn(pipes_fd[C - 1].r, "read", C - 1)'
    BY <1>1, <1>10, <1>17 DEF IsOn
  <2>3. /\ KeepsRead' => IsOn(pipes_fd[C].r, "read", OutEnd)'
        /\ KeepsWrite' => IsOn(pipes_fd[C].w, "write", OutEnd)'
    BY <1>1, <1>4, <1>10, <1>18 DEF IsOn
  <2>4. KeepsFile' => IsOn(fd_out, "file", 0)'
    BY <1>10, <1>19 DEF IsOn
  <2> QED
    BY <1>15, <2>1, <2>2, <2>3, <2>4 DEF Table
<1>21. Turn'
  <2>1. Input' = Input
    <3>1. C > 0 => pipes_fd'[C - 1] = pipes_fd[C - 1]
      BY <1>5, <1>7
    <3> QED
      BY <1>1, <1>4, <3>1 DEF Input, NoFd
  <2> QED
    BY <1>1, <1>4, <1>7, <2>1 DEF Turn, ToAFile
<1>22. Above'
  <2>1. \A i \in 0..MaxCmd : pipes_fd'[i].r \notin 0..2 /\ pipes_fd'[i].w \notin 0..2
    <3>1. TAKE i \in 0..MaxCmd
    <3>2. CASE i = C /\ Makes
      BY <1>3, <1>7, <3>2
    <3>3. CASE i # C \/ ~Makes
      BY <1>2, <1>7, <3>3 DEF Above
    <3> QED
      BY <3>2, <3>3
  <2> QED
    BY <2>1 DEF Above
<1> QED
  BY <1>6, <1>7, <1>20, <1>21, <1>22

(* A command is started: it has the ends it should.                        *)
LEMMA StartKid ==
    ASSUME CommandIInv, Start
    PROVE  /\ RightEnds' /\ InputEnds'
           /\ kid' \in [state : {"none", "runs", "ended"}, fds : Tables,
                        reads : BOOLEAN, out : 0..MaxOut, ok : BOOLEAN]
<1> DEFINE w == Opened.w
           tofile == IF LastCommand /\ line.out = "file" THEN w ELSE NoFd
           k == ChildTable(fds', Input, w, tofile)
<1>1. /\ stage = "start" /\ stage' = "close" /\ line' = line /\ C' = C /\ fd_out' = w
  BY DEF Start
<1>2. PICK b \in Behaviours : kid' = [state |-> "runs", fds |-> k,
                                      reads |-> b.reads, out |-> b.out, ok |-> b.ok]
  BY DEF Start
<1>3. CommandTypeOK /\ Table /\ Above
  BY DEF CommandIInv
<1>4. /\ LastCommand' = LastCommand /\ Makes' = Makes /\ OutEnd' = OutEnd /\ ToAFile' = ToAFile
      /\ fd_writein' = fd_writein /\ fd_readout' = fd_readout
  BY <1>1, SameTurn
<1>5. Table' /\ Turn' /\ Above' /\ fds' \in Tables
  BY StartTable
<1>6. /\ w \in Nums /\ w \notin 0..2
      /\ ~Makes /\ line.out = "held" => w = target_in
      /\ ~Makes /\ line.out = "client" => w = clifd
  BY <1>1, <1>3, OpenedEffect
<1> HIDE DEF w
<1>7. /\ line \in Lines /\ C \in Nat /\ C \in 0..MaxCmd /\ OutEnd # InPipe
      /\ C > 0 => C - 1 \in 0..MaxCmd /\ C - 1 # OutEnd /\ C - 1 # InPipe /\ C - 1 # OutPipe
      /\ line.out \in {"client", "file", "new", "held"} /\ line.both \in BOOLEAN
      /\ line.in \in {"stdin", "pipe", "fifo", "over"} /\ InPipe # OutPipe
  BY <1>3, LineIn, LineParts
<1>8. tofile \notin 0..2
  BY <1>6, Numbers
<1> HIDE DEF tofile
<1>9. \A x \in Nums : Basis(x)' = IF x = fd_writein THEN Closed ELSE Basis(x)
  BY <1>1, <1>4 DEF Basis, GivenUp, Begun, Passed, Before, ReleasesReadout
<1>10. /\ fds'[0] = Open("std", 0) /\ fds'[clifd] = Open("client", 0)
       /\ line.out = "held" => fds'[target_in] = Open("write", OutPipe)
       /\ line.in # "stdin" /\ C = 0 => fds'[5] = Open("read", InPipe)
  <2>1. \A x \in Nums : Basis(x)' # Closed => fds'[x] = Basis(x)'
    BY <1>5 DEF Table
  <2>2. ~Passed \/ C # 0
    BY <1>1 DEF Passed
  <2>3. {0, 4, 5, 8} \subseteq Nums /\ fd_writein \notin {0, 4, 5, 8}
    BY LineNumbers
  <2> QED
    BY <1>3, <1>9, <2>1, <2>2, <2>3, BasisParts, OpenParts DEF clifd, target_in
<1>11. /\ C > 0 => Input \in Nums /\ fds'[Input] = Open("read", C - 1)
       /\ C = 0 /\ line.in = "stdin" => Input \in Nums /\ fds'[Input] = Open("std", 0)
       /\ C = 0 /\ line.in # "stdin" => Input \in Nums /\ fds'[Input] = Open("read", InPipe)
  <2>1. C > 0 => Input \in Nums /\ fds'[Input] = Open("read", C - 1)
    <3>1. HAVE C > 0
    <3>2. KeepsFrom' /\ KeepsFrom
      BY <1>1, <3>1 DEF KeepsFrom
    <3>3. IsOn(pipes_fd[C - 1].r, "read", C - 1)'
      BY <1>5, <3>2 DEF Table
    <3>4. Input' = Input
      <4>1. Turn' /\ fd_in' = Input
        BY <1>5 DEF Start
      <4> QED
        BY <1>1, <4>1 DEF Turn
    <3>5. Input' = pipes_fd'[C - 1].r
      BY <1>1, <3>1 DEF Input
    <3> QED
      BY <1>1, <3>3, <3>4, <3>5 DEF IsOn
  <2>2. C = 0 /\ line.in = "stdin" => Input = 0
    BY DEF Input, fd_readout
  <2>3. C = 0 /\ line.in # "stdin" => Input = 5
    BY Numbers DEF Input, fd_readout
  <2>4. 0 \in Nums /\ 5 \in Nums
    BY LineNumbers
  <2> QED
    BY <1>10, <2>1, <2>2, <2>3, <2>4
<1>12. /\ Makes => fds'[w] = Open("write", OutEnd)
       /\ ToAFile => fds'[w] = Open("file", 0)
  <2>1. Makes => KeepsWrite' /\ w = pipes_fd'[C].w
    BY <1>1, <1>4, <1>5 DEF KeepsWrite, Turn
  <2>2. ToAFile => KeepsFile'
    BY <1>1, <1>4 DEF KeepsFile
  <2> QED
    BY <1>1, <1>4, <1>5, <2>1, <2>2 DEF Table, IsOn
<1>13. Input \in Nums
  BY <1>7, <1>11
<1>14. /\ k \in Tables
       /\ k[0] = fds'[Input] /\ k[1] = fds'[w]
       /\ k[2] = IF LastCommand /\ line.both THEN fds'[w] ELSE fds'[clifd]
       /\ \A x \in Nums : k[x] = Closed \/ \E y \in Nums : k[x] = fds'[y]
  <2>1. \A i \in 0..C - 1 : pipes_fd[i].r \notin 0..2 /\ pipes_fd[i].w \notin 0..2
    <3>1. \A i \in 0..C - 1 : i \in 0..MaxCmd
      BY <1>7, Numbers
    <3> QED
      BY <1>3, <3>1 DEF Above
  <2> QED
    BY <1>5, <1>6, <1>7, <1>8, <1>13, <2>1, ChildMade
<1> HIDE DEF k
<1>15. kid'.fds = k /\ kid'.state = "runs"
  BY <1>2
<1>16. k[1] = CASE ~LastCommand                       -> Open("write", C)
                [] LastCommand /\ line.out = "client" -> Open("client", 0)
                [] LastCommand /\ line.out = "file"   -> Open("file", 0)
                [] OTHER                              -> Open("write", OutPipe)
  <2>1. CASE ~LastCommand
    BY <1>12, <1>14, <2>1 DEF Makes, OutEnd
  <2>2. CASE LastCommand /\ line.out = "client"
    BY <1>6, <1>10, <1>14, <2>2 DEF Makes
  <2>3. CASE LastCommand /\ line.out = "file"
    BY <1>12, <1>14, <2>3 DEF ToAFile
  <2>4. CASE LastCommand /\ line.out = "new"
    BY <1>12, <1>14, <2>4 DEF Makes, OutEnd
  <2>5. CASE LastCommand /\ line.out = "held"
    BY <1>6, <1>10, <1>14, <2>5 DEF Makes
  <2> QED
    BY <1>7, <2>1, <2>2, <2>3, <2>4, <2>5
<1>17. k[0] = IF C > 0 THEN Open("read", C - 1)
              ELSE IF line.in = "stdin" THEN Open("std", 0) ELSE Open("read", InPipe)
  BY <1>7, <1>11, <1>14
<1>18. k[2] = IF LastCommand /\ line.both THEN k[1] ELSE Open("client", 0)
  BY <1>10, <1>14
<1>19. RightEnds'
  BY <1>1, <1>4, <1>15, <1>16, <1>17, <1>18 DEF RightEnds, InPipe, OutPipe
<1>20. \A x \in Nums, p \in Pipes :
          fds'[x] = Open("write", p) => p = OutPipe \/ p = OutEnd
  <2>1. FewWriters'
    <3>1. (line \in Lines)' /\ Table'
      BY <1>1, <1>5, <1>7 DEF Lines
    <3> QED
      BY <3>1, WritersAre, PTL
  <2>2. Begun'
    BY <1>1 DEF Begun
  <2> QED
    BY <1>4, <2>1, <2>2 DEF FewWriters, OutPipe
<1>21. InputEnds'
  <2> SUFFICES ASSUME NEW p \in Pipes, k[0] = Open("read", p)
               PROVE  /\ ~HeldBy(fds', "write", p)
                      /\ ~HeldBy(k, "write", p)
    BY <1>15 DEF InputEnds, ReadsFrom, Writers, Pipes, OutPipe, LostPipe, HeldBy
  <2>1. p # OutPipe /\ p # OutEnd
    BY <1>7, <1>17, OpenParts DEF OutEnd
  <2>2. \A x \in Nums : fds'[x] # Open("write", p)
    BY <1>20, <2>1
  <2>3. \A x \in Nums : k[x] # Open("write", p)
    BY <1>14, <2>2, OpenParts
  <2> QED
    BY <2>2, <2>3 DEF HeldBy
<1>22. kid' \in [state : {"none", "runs", "ended"}, fds : Tables,
               reads : BOOLEAN, out : 0..MaxOut, ok : BOOLEAN]
  BY <1>2, <1>14 DEF Behaviours
<1> QED
  BY <1>19, <1>21, <1>22

-----------------------------------------------------------------------------
(* Every step of the shell and of the command keeps the invariant.         *)

LEMMA StartStep ==
    ASSUME CommandIInv, Start
    PROVE  CommandIInv'
<1>1. /\ stage' = "close" /\ line' = line /\ C' = C /\ level' = level /\ fd_in' = Input
      /\ fd_out' = Opened.w /\ stage = "start"
      /\ fd_tofile' = (IF LastCommand /\ line.out = "file" THEN Opened.w ELSE NoFd)
  BY DEF Start
<1>2. Table' /\ Turn' /\ Above' /\ fds' \in Tables
      /\ pipes_fd' \in [0..MaxCmd -> [r : 0..NoFd, w : 0..NoFd]]
  BY StartTable
<1>3. /\ RightEnds' /\ InputEnds'
      /\ kid' \in [state : {"none", "runs", "ended"}, fds : Tables,
                   reads : BOOLEAN, out : 0..MaxOut, ok : BOOLEAN]
  BY StartKid
<1>4. {fd_in, fd_out, fd_tofile}' \subseteq 0..NoFd
  <2>1. Opened.w \in 0..NoFd
    BY <1>1, OpenedEffect, Numbers DEF CommandIInv
  <2>2. Input \in 0..NoFd
    <3>1. C > 0 => Input = pipes_fd[C - 1].r /\ C - 1 \in 0..MaxCmd
      BY LineIn DEF CommandIInv, Input
    <3>2. ~(C > 0) => Input \in 0..NoFd
      BY Numbers DEF Input, fd_readout
    <3> QED
      BY <3>1, <3>2 DEF CommandIInv, CommandTypeOK
  <2> QED
    BY <1>1, <2>1, <2>2, Numbers
<1>5. CommandTypeOK'
  BY <1>1, <1>2, <1>3, <1>4 DEF CommandIInv, CommandTypeOK, Lines, Pipes, OutPipe, LostPipe
<1>6. Alone'
  BY <1>1 DEF Alone
<1> QED
  BY <1>2, <1>3, <1>5, <1>6 DEF CommandIInv

(* A command that stays as it is while the shell closes numbers still has  *)
(* its ends, and nobody gets a new one.                                    *)
LEMMA SameKid ==
    ASSUME RightEnds, InputEnds, line' = line, C' = C,
           kid'.fds = kid.fds, kid'.state = "runs" => kid.state = "runs",
           \A x \in Nums : fds'[x] = fds[x] \/ fds'[x] = Closed
    PROVE  RightEnds' /\ InputEnds'
<1>1. RightEnds'
  <2>1. LastCommand' = LastCommand
    BY SameTurn
  <2> QED
    BY <2>1 DEF RightEnds, InPipe, OutPipe
<1>2. InputEnds'
  <2>1. SUFFICES ASSUME kid'.state = "runs", NEW p \in Pipes, kid.fds[0] = Open("read", p)
                 PROVE  ~HeldBy(fds', "write", p) /\ ~HeldBy(kid.fds, "write", p)
    BY DEF InputEnds, ReadsFrom, Writers, Pipes, OutPipe, LostPipe, HeldBy
  <2>2. ~HeldBy(fds, "write", p) /\ ~HeldBy(kid.fds, "write", p)
    BY <2>1 DEF InputEnds, ReadsFrom, Writers
  <2> QED
    BY <2>2, OpenParts DEF HeldBy
<1> QED
  BY <1>1, <1>2

LEMMA CloseEndsStep ==
    ASSUME CommandIInv, CloseEnds
    PROVE  CommandIInv'
<1> DEFINE S == {n \in {fd_out} : ~LastCommand \/ fd_tofile # NoFd}
                  \union {n \in {fd_readout} : C = 0 /\ ReleasesReadout}
                  \union {n \in {fd_in} : C # 0}
<1>1. /\ stage = "close" /\ stage' = "wait" /\ fds' = Shut(fds, S)
      /\ line' = line /\ C' = C /\ pipes_fd' = pipes_fd /\ fd_in' = fd_in
      /\ fd_out' = fd_out /\ fd_tofile' = fd_tofile /\ kid' = kid /\ level' = level
  BY DEF CloseEnds
<1>2. CommandTypeOK /\ Table /\ Turn /\ Above /\ RightEnds /\ InputEnds
  BY DEF CommandIInv
<1>3. /\ LastCommand' = LastCommand /\ Makes' = Makes /\ OutEnd' = OutEnd /\ ToAFile' = ToAFile
      /\ fd_writein' = fd_writein /\ fd_readout' = fd_readout /\ ReleasesReadout' = ReleasesReadout
  BY <1>1, SameTurn
<1>4. /\ line \in Lines /\ C \in Nat /\ C \notin {InPipe, LostPipe, OutPipe}
      /\ InPipe # OutPipe /\ OutEnd \notin {InPipe, LostPipe}
      /\ C > 0 => C - 1 # C /\ C - 1 # OutEnd /\ C - 1 \notin {InPipe, LostPipe, OutPipe}
  BY <1>2, LineIn
<1>5. /\ KeepsFrom <=> C > 0
      /\ KeepsRead <=> Makes
      /\ KeepsWrite <=> Makes
      /\ KeepsFile <=> ToAFile
      /\ ~KeepsFrom'
      /\ KeepsRead' <=> Makes
      /\ KeepsWrite' <=> Makes /\ LastCommand
      /\ ~KeepsFile'
  BY <1>1, <1>3 DEF KeepsFrom, KeepsRead, KeepsWrite, KeepsFile
<1>6. /\ C > 0 => /\ pipes_fd[C - 1].r \in Nums
                  /\ fds[pipes_fd[C - 1].r] = Open("read", C - 1)
      /\ Makes => /\ pipes_fd[C].r \in Nums /\ fds[pipes_fd[C].r] = Open("read", OutEnd)
                  /\ pipes_fd[C].w \in Nums /\ fds[pipes_fd[C].w] = Open("write", OutEnd)
      /\ ToAFile => fd_out \in Nums /\ fds[fd_out] = Open("file", 0)
  BY <1>2, <1>5 DEF Table, IsOn
(* What is closed.                                                         *)
<1>7. \A x \in Nums :
          (x \in S)
            <=> \/ ~LastCommand /\ x = pipes_fd[C].w
                \/ ToAFile /\ x = fd_out
                \/ C = 0 /\ ReleasesReadout /\ x = fd_readout
                \/ C > 0 /\ x = pipes_fd[C - 1].r
  <2>1. ~LastCommand => fd_out = pipes_fd[C].w
    BY <1>1, <1>2 DEF Turn, Makes
  <2>2. C > 0 => fd_in = pipes_fd[C - 1].r
    BY <1>1, <1>2 DEF Turn, Input
  <2>3. C # 0 <=> C > 0
    BY <1>4
  <2>4. LastCommand => (fd_tofile # NoFd <=> ToAFile)
    BY <1>1, <1>2, <1>6, Numbers DEF Turn
  <2>5. ToAFile => LastCommand
    BY DEF ToAFile
  <2>6. TAKE x \in Nums
  <2>7. (x \in S)
          <=> \/ x = fd_out /\ (~LastCommand \/ fd_tofile # NoFd)
              \/ x = fd_readout /\ C = 0 /\ ReleasesReadout
              \/ x = fd_in /\ C # 0
    OBVIOUS
  <2> HIDE DEF S
  <2>8. (x \in S)
          <=> \/ ~LastCommand /\ x = pipes_fd[C].w
              \/ ToAFile /\ x = fd_out
              \/ C = 0 /\ ReleasesReadout /\ x = fd_readout
              \/ C > 0 /\ x = pipes_fd[C - 1].r
    BY <2>1, <2>2, <2>3, <2>4, <2>5, <2>7
  <2> QED
    BY <2>8
<1> HIDE DEF S
<1>8. /\ fds' \in Tables
      /\ \A x \in Nums : fds'[x] = IF x \in S THEN Closed ELSE fds[x]
  <2>1. Closed \in [kind : Kinds, pipe : Pipes]
    BY CommandLineAssumption DEF Closed, Open, Kinds, Pipes, OutPipe, LostPipe
  <2> QED
    BY <1>1, <1>2, <2>1 DEF Shut, Tables, CommandTypeOK
<1>9. \A x \in Nums : Basis(x)' = IF ReleasesReadout /\ x = fd_readout THEN Closed ELSE Basis(x)
  BY <1>1, <1>3 DEF Basis, GivenUp, Begun, Passed, Before
<1>10. \A x \in Nums : Basis(x) # Closed => fds[x] = Basis(x)
  BY <1>2 DEF Table
<1>11. C = 0 /\ fd_readout \in Nums => fds[fd_readout] = Open("read", InPipe)
  <2>1. HAVE C = 0 /\ fd_readout \in Nums
  <2>2. fd_readout = 5 /\ line.in # "stdin" /\ ~Passed
    BY <1>1, <2>1, LineNumbers DEF Passed
  <2> QED
    BY <1>2, <1>10, <2>1, <2>2, BasisParts, OpenParts
<1>12. ~LastCommand => Makes /\ OutEnd = C
  BY DEF Makes, OutEnd
<1>13. \A x \in Nums : Basis(x)' # Closed => fds'[x] = Basis(x)'
  <2>1. TAKE x \in Nums
  <2>2. HAVE Basis(x)' # Closed
  <2>3. Basis(x)' = Basis(x) /\ Basis(x) # Closed /\ ~(ReleasesReadout /\ x = fd_readout)
    BY <1>9, <2>2
  <2>4. fds[x] = Basis(x)
    BY <1>10, <2>3
  <2>5. /\ \A p : Basis(x) # Open("file", p)
        /\ \A p : Basis(x) = Open("read", p) => p \in {InPipe, OutPipe, LostPipe}
        /\ \A p : Basis(x) = Open("write", p) =>
              p = OutPipe \/ (p \in {InPipe, LostPipe} /\ x = fd_writein /\ ~Begun)
    BY <1>4, <2>3, BasisKinds
  <2>6. ~(~LastCommand /\ x = pipes_fd[C].w)
    BY <1>4, <1>6, <1>12, <2>4, <2>5
  <2>7. ~(ToAFile /\ x = fd_out)
    BY <1>6, <2>4, <2>5
  <2>8. ~(C > 0 /\ x = pipes_fd[C - 1].r)
    BY <1>4, <1>6, <2>4, <2>5
  <2>9. x \notin S
    BY <1>7, <2>3, <2>6, <2>7, <2>8
  <2> QED
    BY <1>8, <2>3, <2>4, <2>9
<1>14. \A x \in Nums : Basis(x)' = Closed =>
           \/ fds'[x] = Closed
           \/ Makes /\ x = pipes_fd[C].r
           \/ Makes /\ LastCommand /\ x = pipes_fd[C].w
  <2>1. TAKE x \in Nums
  <2>2. HAVE Basis(x)' = Closed
  <2>3. CASE x \in S
    BY <1>8, <2>3
  <2>4. CASE x \notin S
    <3>1. Basis(x) = Closed
      <4>1. CASE ReleasesReadout /\ x = fd_readout
        <5>1. ~(C = 0)
          BY <1>7, <2>4, <4>1
        <5>2. C > 0
          BY <1>4, <5>1
        <5> QED
          BY <4>1, <5>2 DEF Basis, GivenUp, Passed
      <4>2. CASE ~(ReleasesReadout /\ x = fd_readout)
        BY <1>9, <2>2, <4>2
      <4> QED
        BY <4>1, <4>2
    <3>2. \/ fds[x] = Closed
          \/ C > 0 /\ x = pipes_fd[C - 1].r
          \/ Makes /\ x = pipes_fd[C].r
          \/ Makes /\ x = pipes_fd[C].w
          \/ ToAFile /\ x = fd_out
      BY <1>2, <1>5, <3>1 DEF Table
    <3>3. fds'[x] = fds[x]
      BY <1>8, <2>4
    <3> QED
      BY <1>7, <2>4, <3>2, <3>3
  <2> QED
    BY <2>3, <2>4
<1>15. Makes => pipes_fd[C].r \notin S
  <2>1. HAVE Makes
  <2>2. fds[pipes_fd[C].r] = Open("read", OutEnd) /\ pipes_fd[C].r \in Nums
    BY <1>6, <2>1
  <2>3. ~(~LastCommand /\ pipes_fd[C].r = pipes_fd[C].w) /\ ~(ToAFile /\ pipes_fd[C].r = fd_out)
    BY <1>6, <2>1, <2>2, OpenParts
  <2>4. ~(C = 0 /\ ReleasesReadout /\ pipes_fd[C].r = fd_readout)
    BY <1>4, <1>11, <2>2, OpenParts
  <2>5. ~(C > 0 /\ pipes_fd[C].r = pipes_fd[C - 1].r)
    BY <1>4, <1>6, <2>2, OpenParts
  <2> QED
    BY <1>7, <2>2, <2>3, <2>4, <2>5
<1>16. Makes /\ LastCommand => pipes_fd[C].w \notin S
  <2>1. HAVE Makes /\ LastCommand
  <2>2. fds[pipes_fd[C].w] = Open("write", OutEnd) /\ pipes_fd[C].w \in Nums
    BY <1>6, <2>1
  <2>3. ~ToAFile
    BY <2>1 DEF Makes, ToAFile
  <2>4. ~(C = 0 /\ ReleasesReadout /\ pipes_fd[C].w = fd_readout)
    BY <1>11, <2>2, OpenParts
  <2>5. ~(C > 0 /\ pipes_fd[C].w = pipes_fd[C - 1].r)
    BY <1>6, <2>2, OpenParts
  <2> QED
    BY <1>7, <2>1, <2>2, <2>3, <2>4, <2>5
<1>17. Table'
  <2>1. \A x \in Nums : Basis(x)' = Closed =>
           \/ fds'[x] = Closed
           \/ KeepsFrom' /\ x = pipes_fd'[C' - 1].r
           \/ KeepsRead' /\ x = pipes_fd'[C'].r
           \/ KeepsWrite' /\ x = pipes_fd'[C'].w
           \/ KeepsFile' /\ x = fd_out'
    BY <1>1, <1>5, <1>14
  <2>2. KeepsRead' => IsOn(pipes_fd[C].r, "read", OutEnd)'
    BY <1>1, <1>3, <1>5, <1>6, <1>8, <1>15 DEF IsOn
  <2>3. KeepsWrite' => IsOn(pipes_fd[C].w, "write", OutEnd)'
    BY <1>1, <1>3, <1>5, <1>6, <1>8, <1>16 DEF IsOn
  <2> QED
    BY <1>5, <1>13, <2>1, <2>2, <2>3 DEF Table
<1>18. RightEnds' /\ InputEnds'
  BY <1>1, <1>2, <1>8, SameKid
<1>19. CommandTypeOK'
  BY <1>1, <1>2, <1>8 DEF CommandTypeOK, Lines, Pipes, OutPipe, LostPipe
<1>20. Turn' /\ Alone' /\ Above'
  BY <1>1, <1>2 DEF Turn, Alone, Above
<1> QED
  BY <1>17, <1>18, <1>19, <1>20 DEF CommandIInv

LEMMA WaitStep ==
    ASSUME CommandIInv, Wait
    PROVE  CommandIInv'
<1>1. /\ stage = "wait" /\ kid' = [NoKid EXCEPT !.ok = kid.ok]
      /\ line' = line /\ fds' = fds /\ pipes_fd' = pipes_fd /\ fd_in' = fd_in
      /\ fd_out' = fd_out /\ fd_tofile' = fd_tofile /\ level' = level
      /\ \/ stage' = "done" /\ C' = C
         \/ ~LastCommand /\ stage' = "start" /\ C' = C + 1
  BY DEF Wait
<1>2. CommandTypeOK /\ Table /\ Above
  BY DEF CommandIInv
<1>3. kid'.state = "none"
  BY <1>1 DEF NoKid
<1>4. kid' \in [state : {"none", "runs", "ended"}, fds : Tables,
                reads : BOOLEAN, out : 0..MaxOut, ok : BOOLEAN]
  <2>1. Closed \in [kind : Kinds, pipe : Pipes]
    BY CommandLineAssumption DEF Closed, Open, Kinds, Pipes, OutPipe, LostPipe
  <2>2. [n \in Nums |-> Closed] \in Tables
    BY <2>1 DEF Tables
  <2>3. kid.ok \in BOOLEAN /\ 0 \in 0..MaxOut
    BY <1>2, CommandLineAssumption DEF CommandTypeOK
  <2>4. kid' = [state |-> "none", fds |-> [n \in Nums |-> Closed],
                reads |-> FALSE, out |-> 0, ok |-> kid.ok]
    BY <1>1 DEF NoKid
  <2> QED
    BY <2>2, <2>3, <2>4
<1>5. RightEnds' /\ InputEnds' /\ Alone'
  BY <1>3 DEF RightEnds, InputEnds, Alone
<1>6. Turn' /\ Above'
  BY <1>1, <1>2 DEF Turn, Above
<1>7. C' \in 0..line.n - 1 /\ C' \in Nat
  BY <1>1, <1>2, LineIn
<1>8. CommandTypeOK'
  BY <1>1, <1>2, <1>4, <1>7 DEF CommandTypeOK, Lines, Pipes, OutPipe, LostPipe
<1>9. \A x \in Nums : Basis(x)' = Basis(x)
  <2>1. C' > 0 \/ stage' = "done"
    BY <1>1, <1>2, LineIn
  <2>2. Begun /\ Passed /\ Begun' /\ Passed'
    BY <1>1, <2>1 DEF Begun, Passed
  <2>3. fd_writein' = fd_writein /\ fd_readout' = fd_readout /\ ReleasesReadout' = ReleasesReadout
    BY <1>1 DEF fd_writein, fd_readout, ReleasesReadout
  <2> QED
    BY <1>1, <2>2, <2>3 DEF Basis, GivenUp, Before
<1>10. ~KeepsFrom /\ ~KeepsFile
  BY <1>1 DEF KeepsFrom, KeepsFile
<1>11. CASE stage' = "done"
  <2>1. C' = C
    BY <1>1, <1>11
  <2>2. Makes' = Makes /\ OutEnd' = OutEnd /\ LastCommand' = LastCommand
    BY <1>1, <2>1, SameTurn
  <2>3. /\ ~KeepsFrom' /\ ~KeepsFile'
        /\ KeepsRead' <=> KeepsRead
        /\ KeepsWrite' <=> KeepsWrite
    BY <1>1, <1>11, <2>2 DEF KeepsFrom, KeepsFile, KeepsRead, KeepsWrite
  <2>4. Table'
    BY <1>1, <1>2, <1>9, <1>10, <2>1, <2>2, <2>3 DEF Table, IsOn
  <2> QED
    BY <1>5, <1>6, <1>8, <2>4 DEF CommandIInv
<1>12. CASE ~LastCommand /\ stage' = "start" /\ C' = C + 1
  <2>1. C' > 0 /\ C' - 1 = C
    BY <1>2, <1>12, LineIn
  <2>2. KeepsFrom' /\ ~KeepsRead' /\ ~KeepsWrite' /\ ~KeepsFile'
    BY <1>12, <2>1 DEF KeepsFrom, KeepsFile, KeepsRead, KeepsWrite
  <2>3. KeepsRead /\ ~KeepsWrite /\ OutEnd = C
    BY <1>1, <1>12 DEF KeepsRead, KeepsWrite, Makes, OutEnd
  <2>4. IsOn(pipes_fd[C].r, "read", C)
    BY <1>2, <2>3 DEF Table
  <2>5. \A x \in Nums : Basis(x)' = Closed =>
            fds'[x] = Closed \/ x = pipes_fd'[C' - 1].r
    BY <1>1, <1>2, <1>9, <1>10, <2>1, <2>3 DEF Table
  <2>6. \A x \in Nums : Basis(x)' # Closed => fds'[x] = Basis(x)'
    BY <1>1, <1>2, <1>9 DEF Table
  <2>7. IsOn(pipes_fd[C - 1].r, "read", C - 1)'
    BY <1>1, <2>1, <2>4 DEF IsOn
  <2>8. Table'
    BY <2>2, <2>5, <2>6, <2>7 DEF Table
  <2> QED
    BY <1>5, <1>6, <1>8, <2>8 DEF CommandIInv
<1> QED
  BY <1>1, <1>11, <1>12

(* A command does not touch the table of the shell.                        *)
LEMMA KidFrame ==
    ASSUME CommandIInv, UNCHANGED shell, kid'.fds = kid.fds, kid.state = "runs",
           kid' \in [state : {"none", "runs", "ended"}, fds : Tables,
                     reads : BOOLEAN, out : 0..MaxOut, ok : BOOLEAN],
           level' \in [Pipes -> 0..Capacity]
    PROVE  CommandIInv'
<1>1. /\ line' = line /\ C' = C /\ stage' = stage /\ fds' = fds /\ pipes_fd' = pipes_fd
      /\ fd_in' = fd_in /\ fd_out' = fd_out /\ fd_tofile' = fd_tofile
  BY DEF shell
<1>2. CommandTypeOK'
  BY <1>1 DEF CommandIInv, CommandTypeOK, Lines, Pipes, OutPipe, LostPipe
<1>3. Table'
  BY <1>1 DEF CommandIInv, Table, Basis, GivenUp, Begun, Passed, KeepsFrom, KeepsRead, KeepsWrite,
        KeepsFile, IsOn, Makes, OutEnd, ToAFile, LastCommand, Before, ReleasesReadout,
        fd_writein, fd_readout, OutPipe
<1>4. Turn' /\ Above'
  BY <1>1 DEF CommandIInv, Turn, Above, Input, Makes, ToAFile, LastCommand, fd_readout
<1>5. Alone'
  BY <1>1 DEF CommandIInv, Alone
<1>6. RightEnds' /\ InputEnds'
  BY <1>1, SameKid DEF CommandIInv
<1> QED
  BY <1>2, <1>3, <1>4, <1>5, <1>6 DEF CommandIInv

LEMMA KidStep ==
    ASSUME CommandIInv, Kid
    PROVE  CommandIInv'
<1>1. /\ kid \in [state : {"none", "runs", "ended"}, fds : Tables,
                  reads : BOOLEAN, out : 0..MaxOut, ok : BOOLEAN]
      /\ level \in [Pipes -> 0..Capacity] /\ Capacity \in Nat /\ MaxOut \in Nat
  BY CommandLineAssumption DEF CommandIInv, CommandTypeOK
<1>2. ASSUME NEW p \in Pipes, KidRead(p) PROVE CommandIInv'
  <2>1. kid' = kid /\ kid.state = "runs" /\ UNCHANGED shell
    BY <1>2 DEF KidRead
  <2>2. level[p] - 1 \in 0..Capacity
    BY <1>1, <1>2 DEF KidRead
  <2>3. level' \in [Pipes -> 0..Capacity]
    BY <1>1, <1>2, <2>2 DEF KidRead
  <2> QED
    BY <1>1, <2>1, <2>3, KidFrame
<1>3. CASE KidSeesEnd
  <2>1. /\ kid' = [kid EXCEPT !.reads = FALSE] /\ kid.state = "runs" /\ UNCHANGED shell
        /\ level' = level
    BY <1>3 DEF KidSeesEnd
  <2> QED
    BY <1>1, <2>1, KidFrame
<1>4. CASE KidWrite
  <2>1. /\ kid' = [kid EXCEPT !.out = @ - 1] /\ kid.state = "runs" /\ UNCHANGED shell
        /\ kid.out > 0
    BY <1>4 DEF KidWrite
  <2>2. kid.out - 1 \in 0..MaxOut
    BY <1>1, <2>1
  <2>3. \A p \in Pipes : (IF WritesTo(p) THEN level[p] + 1 ELSE level[p]) \in 0..Capacity
    BY <1>1, <1>4 DEF KidWrite
  <2>4. level' \in [Pipes -> 0..Capacity]
    BY <1>4, <2>3 DEF KidWrite
  <2> QED
    BY <1>1, <2>1, <2>2, <2>4, KidFrame
<1>5. CASE KidEnds
  <2>1. /\ kid' = [kid EXCEPT !.state = "ended", !.fds = NoKid.fds] /\ kid.state = "runs"
        /\ UNCHANGED shell /\ level' = level
    BY <1>5 DEF KidEnds
  <2>2. NoKid.fds \in Tables
    BY CommandLineAssumption DEF NoKid, Closed, Open, Kinds, Pipes, OutPipe, LostPipe, Tables
  <2>3. kid'.state = "ended" /\ kid' \in [state : {"none", "runs", "ended"}, fds : Tables,
                                         reads : BOOLEAN, out : 0..MaxOut, ok : BOOLEAN]
    BY <1>1, <2>1, <2>2
  <2>4. /\ line' = line /\ C' = C /\ stage' = stage /\ fds' = fds /\ pipes_fd' = pipes_fd
        /\ fd_in' = fd_in /\ fd_out' = fd_out /\ fd_tofile' = fd_tofile
    BY <2>1 DEF shell
  <2>5. CommandTypeOK'
    BY <2>1, <2>3, <2>4 DEF CommandIInv, CommandTypeOK, Lines, Pipes, OutPipe, LostPipe
  <2>6. Table'
    BY <2>4 DEF CommandIInv, Table, Basis, GivenUp, Begun, Passed, KeepsFrom, KeepsRead, KeepsWrite,
          KeepsFile, IsOn, Makes, OutEnd, ToAFile, LastCommand, Before, ReleasesReadout,
          fd_writein, fd_readout, OutPipe
  <2>7. Turn' /\ Above'
    BY <2>4 DEF CommandIInv, Turn, Above, Input, Makes, ToAFile, LastCommand, fd_readout
  <2>8. Alone'
    BY <2>1, <2>4 DEF CommandIInv, Alone
  <2>9. RightEnds' /\ InputEnds'
    BY <2>3 DEF RightEnds, InputEnds
  <2> QED
    BY <2>5, <2>6, <2>7, <2>8, <2>9 DEF CommandIInv
<1> QED
  BY <1>2, <1>3, <1>4, <1>5 DEF Kid

LEMMA CommandInitHolds == CommandInit => CommandIInv
<1> SUFFICES ASSUME CommandInit PROVE CommandIInv
  OBVIOUS
<1>1. /\ line \in Lines /\ C = 0 /\ stage = "start" /\ fds = Before(line)
      /\ pipes_fd = [i \in 0..MaxCmd |-> [r |-> NoFd, w |-> NoFd]]
      /\ fd_in = NoFd /\ fd_out = NoFd /\ fd_tofile = NoFd /\ kid = NoKid
      /\ level \in [Pipes -> 0..Capacity]
  BY DEF CommandInit
<1>2. fds \in Tables
  <2>1. \A x \in Nums : Before(line)[x] \in [kind : Kinds, pipe : Pipes]
    BY <1>1, BeforePipes
  <2>2. Before(line) = [x \in Nums |-> Before(line)[x]]
    BY DEF Before
  <2> QED
    BY <1>1, <2>1, <2>2 DEF Tables
<1>3. CommandTypeOK
  <2>1. line.n \in 1..MaxCmd
    BY <1>1, LineParts
  <2>2. 0 \in 0..line.n - 1
    BY <2>1, Numbers
  <2>3. NoFd \in 0..NoFd
    BY Numbers
  <2>4. [n \in Nums |-> Closed] \in Tables
    BY CommandLineAssumption DEF Closed, Open, Kinds, Pipes, OutPipe, LostPipe, Tables
  <2>5. 0 \in 0..MaxOut
    BY CommandLineAssumption
  <2>6. kid \in [state : {"none", "runs", "ended"}, fds : Tables,
                reads : BOOLEAN, out : 0..MaxOut, ok : BOOLEAN]
    BY <1>1, <2>4, <2>5 DEF NoKid
  <2> QED
    BY <1>1, <1>2, <2>2, <2>3, <2>6 DEF CommandTypeOK
<1>4. Table
  <2>1. ~KeepsFrom /\ ~KeepsRead /\ ~KeepsWrite /\ ~KeepsFile
    BY <1>1 DEF KeepsFrom, KeepsRead, KeepsWrite, KeepsFile
  <2>2. ~Begun /\ ~Passed
    BY <1>1 DEF Begun, Passed
  <2>3. \A x \in Nums : Basis(x) = fds[x]
    BY <1>1, <2>2 DEF Basis, GivenUp
  <2> QED
    BY <2>1, <2>3 DEF Table
<1>5. Turn /\ Alone /\ RightEnds /\ InputEnds
  BY <1>1 DEF Turn, Alone, RightEnds, InputEnds, NoKid
<1>6. Above
  <2>1. NoFd \notin 0..2
    BY Numbers
  <2>2. \A i \in 0..MaxCmd : pipes_fd[i].r = NoFd /\ pipes_fd[i].w = NoFd
    BY <1>1
  <2> QED
    BY <2>1, <2>2 DEF Above
<1> QED
  BY <1>3, <1>4, <1>5, <1>6 DEF CommandIInv

-----------------------------------------------------------------------------
(* Theorems.                                                               *)

THEOREM CommandInductiveInvariant == CommandSpec => []CommandIInv
<1>1. ASSUME CommandIInv, [CommandNext]_command_vars PROVE CommandIInv'
  <2>1. CASE Start
    BY <1>1, <2>1, StartStep
  <2>2. CASE CloseEnds
    BY <1>1, <2>2, CloseEndsStep
  <2>3. CASE Wait
    BY <1>1, <2>3, WaitStep
  <2>4. CASE Kid
    BY <1>1, <2>4, KidStep
  <2>5. CASE UNCHANGED command_vars
    <3>1. /\ line' = line /\ C' = C /\ stage' = stage /\ fds' = fds /\ pipes_fd' = pipes_fd
          /\ fd_in' = fd_in /\ fd_out' = fd_out /\ fd_tofile' = fd_tofile
          /\ kid' = kid /\ level' = level
      BY <2>5 DEF command_vars
    <3>2. CommandTypeOK'
      BY <1>1, <3>1 DEF CommandIInv, CommandTypeOK, Lines, Pipes, OutPipe, LostPipe
    <3>3. Table'
      BY <1>1, <3>1 DEF CommandIInv, Table, Basis, GivenUp, Begun, Passed, KeepsFrom, KeepsRead,
            KeepsWrite, KeepsFile, IsOn, Makes, OutEnd, ToAFile, LastCommand, Before,
            ReleasesReadout, fd_writein, fd_readout, OutPipe
    <3>4. Turn' /\ Above' /\ Alone'
      BY <1>1, <3>1 DEF CommandIInv, Turn, Above, Alone, Input, Makes, ToAFile, LastCommand, fd_readout
    <3>5. RightEnds' /\ InputEnds'
      BY <1>1, <3>1, SameKid DEF CommandIInv
    <3> QED
      BY <3>2, <3>3, <3>4, <3>5 DEF CommandIInv
  <2> QED
    BY <1>1, <2>1, <2>2, <2>3, <2>4, <2>5 DEF CommandNext, Shell, Over
<1> QED
  BY <1>1, CommandInitHolds, PTL DEF CommandSpec

(* Every variable of the loop keeps its type: the numbers are numbers of   *)
(* the table, or none.                                                     *)
THEOREM CommandTypeCorrect == CommandSpec => []CommandTypeOK
<1>1. CommandIInv => CommandTypeOK
  BY DEF CommandIInv
<1> QED
  BY <1>1, CommandInductiveInvariant, PTL

(* However numbers are given out again, a command reads what the command   *)
(* before it writes, writes where the line says, sees the end of what it   *)
(* reads and is read by somebody.                                          *)
THEOREM CommandsConnected == CommandSpec => []EndsRight
<1>1. CommandIInv => EndsRight
  <2> SUFFICES ASSUME CommandIInv PROVE OutputKept
    BY DEF CommandIInv, EndsRight
  <2> SUFFICES ASSUME kid.state = "runs", NEW p \in Pipes, WritesTo(p)
               PROVE  \E x \in Nums : fds[x] = Open("read", p)
    BY DEF OutputKept, HeldBy
  <2>1. CommandTypeOK /\ Table /\ Alone /\ RightEnds
    BY DEF CommandIInv
  <2>2. stage # "start" /\ stage # "done" /\ stage \in {"start", "close", "wait", "done"}
    BY <2>1 DEF Alone, CommandTypeOK
  <2>3. line.out \in {"client", "file", "new", "held"}
    BY <2>1, LineIn, LineParts
  <2>4. kid.fds[1] = Open("write", p)
    BY DEF WritesTo
  <2>5. CASE Makes
    <3>1. p = OutEnd
      <4>1. CASE ~LastCommand
        <5>1. kid.fds[1] = Open("write", C)
          BY <2>1, <4>1 DEF RightEnds
        <5> QED
          BY <2>4, <4>1, <5>1, OpenParts DEF OutEnd
      <4>2. CASE LastCommand
        <5>1. kid.fds[1] = Open("write", OutPipe)
          BY <2>1, <2>5, <4>2 DEF RightEnds, Makes
        <5> QED
          BY <2>4, <4>2, <5>1, OpenParts DEF OutEnd
      <4> QED
        BY <4>1, <4>2
    <3>2. KeepsRead
      BY <2>2, <2>5 DEF KeepsRead
    <3>3. IsOn(pipes_fd[C].r, "read", OutEnd)
      BY <2>1, <3>2 DEF Table
    <3> QED
      BY <3>1, <3>3 DEF IsOn
  <2>6. CASE ~Makes /\ line.out = "held"
    <3>1. p = OutPipe
      <4>1. kid.fds[1] = Open("write", OutPipe)
        BY <2>1, <2>6 DEF RightEnds, Makes
      <4> QED
        BY <2>4, <4>1, OpenParts
    <3>2. Basis(7) = Open("read", OutPipe) /\ 7 \in Nums
      BY <2>1, <2>6, BasisParts, LineNumbers
    <3>3. fds[7] = Open("read", OutPipe)
      BY <2>1, <3>2, OpenParts DEF Table
    <3> QED
      BY <3>1, <3>2, <3>3
  <2>7. CASE ~Makes /\ line.out \in {"client", "file"}
    <3>1. kid.fds[1] = Open("client", 0) \/ kid.fds[1] = Open("file", 0)
      BY <2>1, <2>7 DEF RightEnds, Makes
    <3> QED
      BY <2>4, <3>1, OpenParts
  <2> QED
    BY <2>3, <2>5, <2>6, <2>7 DEF Makes
<1> QED
  BY <1>1, CommandInductiveInvariant, PTL

(* A line that is over has closed what it opened and given up the ends     *)
(* curnode has of the pipe to it; what it leaves is the pipe to a later    *)
(* line, and, given up at a command that failed, the read end of that      *)
(* command's pipe.                                                         *)
THEOREM NumbersGivenBack == CommandSpec => []DescriptorsRestored
<1>1. CommandIInv => DescriptorsRestored
  <2> SUFFICES ASSUME CommandIInv, stage = "done", NEW x \in Nums
               PROVE  \/ fds[x] = Before(line)[x]
                            /\ x # fd_writein /\ (ReleasesReadout => x # fd_readout)
                      \/ x \in {fd_readout, fd_writein} /\ fds[x] = Closed
                      \/ line.out = "new" /\ LastCommand
                            /\ fds[x] \in {Open("read", OutPipe), Open("write", OutPipe)}
                      \/ ~LastCommand /\ fds[x] = Open("read", C)
    BY DEF DescriptorsRestored
  <2>1. Table
    BY DEF CommandIInv
  <2>2. Begun /\ Passed /\ ~KeepsFrom /\ ~KeepsFile
    BY DEF Begun, Passed, KeepsFrom, KeepsFile
  <2>3. CASE Basis(x) # Closed
    <3>1. fds[x] = Basis(x)
      BY <2>1, <2>3 DEF Table
    <3>2. Basis(x) = Before(line)[x] /\ ~GivenUp(x)
      BY <2>3 DEF Basis
    <3> QED
      BY <2>2, <3>1, <3>2 DEF GivenUp
  <2>4. CASE Basis(x) = Closed /\ fds[x] = Closed
    <3>1. CASE GivenUp(x)
      BY <2>4, <3>1 DEF GivenUp
    <3>2. CASE ~GivenUp(x)
      BY <2>2, <2>4, <3>2 DEF Basis, GivenUp
    <3> QED
      BY <3>1, <3>2
  <2>5. CASE Basis(x) = Closed /\ fds[x] # Closed
    <3>1. \/ KeepsRead /\ fds[x] = Open("read", OutEnd)
          \/ KeepsWrite /\ LastCommand /\ fds[x] = Open("write", OutEnd)
      BY <2>1, <2>2, <2>5 DEF Table, IsOn, KeepsWrite
    <3> QED
      BY <3>1 DEF KeepsRead, KeepsWrite, Makes, OutEnd
  <2> QED
    BY <2>3, <2>4, <2>5
<1> QED
  BY <1>1, CommandInductiveInvariant, PTL
============================================================================
