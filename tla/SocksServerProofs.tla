------------------------- MODULE SocksServerProofs -------------------------
(***************************************************************************)
(* The relay of the SOCKS server implements TwoWayStream for every         *)
(* capacity of the sockets, every number of pieces and every set of rules. *)
(*                                                                         *)
(* Where a piece is says which number it has: what an end has received     *)
(* comes first, then what is written to it, then the piece in the buffer,  *)
(* if it goes in that direction, then what has not been read.  Pieces are  *)
(* lost only when the connection of their sender or receiver has ended,    *)
(* and then nothing behind the gap gets through.                           *)
(*                                                                         *)
(* The firewall compares masked addresses; that is to compare prefixes, as *)
(* the file of rules means it, wherever a prefix has a bit at all.         *)
(***************************************************************************)
EXTENDS SocksServer, FiniteSetTheorems, TLAPS

(* What has left the process towards the end that receives from e.         *)
Passed(e) == Len(got[Other(e)]) + Len(outq[Other(e)])
Held(e)   == IF hold.by = e THEN 1 ELSE 0

Arrived(e) ==
    /\ \A k \in 1..Len(got[Other(e)]) : got[Other(e)][k] = Piece(e, k)
    /\ \A k \in 1..Len(outq[Other(e)]) :
          outq[Other(e)][k] = Piece(e, Len(got[Other(e)]) + k)
    /\ Passed(e) <= sent[e]

(* The part of the way that leads to the process.  ReadFails empties inq[e] *)
(* only if e has closed, and then e sends nothing more.                    *)
Underway(e) ==
    /\ hold.by = e => hold.no = Passed(e) + 1
    /\ \A k \in 1..Len(inq[e]) : inq[e][k] = Piece(e, Passed(e) + Held(e) + k)
    /\ Passed(e) + Held(e) + Len(inq[e]) <= sent[e]
    /\ end[e] # "closed" => Passed(e) + Held(e) + Len(inq[e]) = sent[e]

Flow(e) ==
    /\ Arrived(e)
    /\ stage # "over" /\ end[Other(e)] # "closed" => Underway(e)
    /\ end[e] = "closed" => outq[e] = <<>>
    /\ \A k \in 1..Len(inq[e]) : inq[e][k].by = e

Control ==
    /\ stage \in {"request", "check", "connect", "bind"} => replies = <<>>
    /\ stage = "accept" => Len(replies) = 1
    /\ pos = "write" <=> hold # NoPiece

IInv ==
    /\ TypeOK
    /\ Control
    /\ \A e \in Ends : Flow(e)

-----------------------------------------------------------------------------
(* The end that is not e.                                                  *)

(* There are two ends, each the other's other.                             *)
LEMMA TwoEnds ==
    /\ \A e \in Ends : Other(e) \in Ends /\ Other(e) # e /\ Other(Other(e)) = e
    /\ \A e, x \in Ends : x = e \/ x = Other(e)
    /\ "nobody" \notin Ends
  BY DEF Ends, Other

(* Nothing outside Ends sends.                                             *)
LEMMA Heads ==
    \A p \in Pieces \union {NoPiece} :
        /\ p = NoPiece <=> p.by \notin Ends
        /\ p # NoPiece => p \in Pieces
        /\ \A e : p.by = e => p = Piece(e, p.no)
  BY TwoEnds DEF Pieces, NoPiece, Piece

(* Lengths are added up.                                                   *)
LEMMA Sums ==
    \A a, b \in Nat :
        /\ a + b \in Nat
        /\ a + (b + 1) = (a + b) + 1
        /\ a + (b + 1) = (a + 1) + b
        /\ (a + 1) + (b - 1) = a + b
        /\ \A n \in Nat : a + b <= n => a <= n
  OBVIOUS

(* What the type invariant says of the queues.                             *)
LEMMA Queues ==
    ASSUME TypeOK, NEW e \in Ends
    PROVE  /\ inq[e] \in Seq(Pieces) /\ Len(inq[e]) \in Nat /\ Len(inq[e]) <= Capacity
           /\ outq[e] \in Seq(Pieces) /\ Len(outq[e]) \in Nat /\ Len(outq[e]) <= Capacity
           /\ got[e] \in Seq(Pieces) /\ Len(got[e]) \in Nat
           /\ sent[e] \in Nat /\ sent[e] <= MaxPiece
           /\ Passed(e) \in Nat /\ Held(e) \in Nat
  <1>1. \A x \in Ends :
           /\ inq[x] \in Seq(Pieces) /\ Len(inq[x]) \in Nat /\ Len(inq[x]) <= Capacity
           /\ outq[x] \in Seq(Pieces) /\ Len(outq[x]) \in Nat /\ Len(outq[x]) <= Capacity
           /\ got[x] \in Seq(Pieces) /\ Len(got[x]) \in Nat
           /\ sent[x] \in Nat /\ sent[x] <= MaxPiece
    BY SocksServerAssumption DEF TypeOK
  <1>2. Passed(e) \in Nat
    <2>1. Passed(e) = Len(got[Other(e)]) + Len(outq[Other(e)])
      BY DEF Passed
    <2>2. Len(got[Other(e)]) \in Nat /\ Len(outq[Other(e)]) \in Nat
      BY <1>1, TwoEnds
    <2>3. Len(got[Other(e)]) + Len(outq[Other(e)]) \in Nat
      BY <2>2, Sums
    <2> QED
      BY <2>1, <2>3, Zenon
  <1>3. Held(e) \in Nat
    BY DEF Held
  <1> QED
    BY <1>1, <1>2, <1>3

(* A queue that is emptied.                                                *)
LEMMA Empty == <<>> \in Seq(Pieces) /\ Len(<<>>) = 0 /\ Len(<<>>) <= Capacity
  BY SocksServerAssumption

(* A step that does not touch what e sends leaves its pieces in order.     *)
LEMMA FlowStays ==
    ASSUME NEW e \in Ends, Flow(e),
           got'[Other(e)] = got[Other(e)], outq'[Other(e)] = outq[Other(e)],
           inq'[e] = inq[e], sent'[e] = sent[e],
           hold' = hold \/ (hold.by # e /\ hold'.by # e),
           end' = end, outq'[e] = outq[e] \/ end[e] # "closed", stage = "over" => stage' = "over"
    PROVE  Flow(e)'
  <1>1. Passed(e)' = Passed(e) /\ Held(e)' = Held(e)
    BY DEF Passed, Held
  <1>2. Arrived(e)'
    BY <1>1 DEF Flow, Arrived
  <1>3. Underway(e) => Underway(e)'
    BY <1>1 DEF Underway
  <1> QED
    BY <1>2, <1>3 DEF Flow

(* A step of the relay, or of an end, that keeps the queues well formed.   *)
LEMMA TypeStays ==
    ASSUME TypeOK, UNCHANGED <<main, stage>>,
           end' \in [Ends -> {"open", "shut", "closed"}],
           inq' \in [Ends -> Seq(Pieces)], outq' \in [Ends -> Seq(Pieces)],
           \A e \in Ends : Len(inq'[e]) <= Capacity /\ Len(outq'[e]) <= Capacity,
           sent' \in [Ends -> 0..MaxPiece],
           got' \in [Ends -> Seq(Pieces)],
           ready' \subseteq Ends,
           pos' \in Ends \union {"select", "write"},
           hold' \in Pieces \union {NoPiece}
    PROVE  TypeOK'
  BY DEF TypeOK, main

-----------------------------------------------------------------------------
(* Before the relay starts, and where it ends, the data stands still.      *)

(* The steps of the request, the firewall, CONNECT and BIND keep IInv.     *)
LEMMA RequestKeepsIInv ==
    ASSUME IInv, Request \/ CheckAccess \/ Connect \/ Bind \/ AcceptServer
    PROVE  IInv'
  <1>1. UNCHANGED relay
    BY DEF Request, CheckAccess, Connect, Bind, AcceptServer, Over, Refuse, StartRelay
  <1>2. \/ /\ replies' = replies
           /\ stage \in {"request", "check", "bind"}
           /\ stage' \in {"check", "connect", "bind", "over"}
        \/ /\ stage \in {"check", "connect", "bind"}
           /\ stage' \in {"accept", "relay", "over"}
           /\ replies' \in {Append(replies, 90), Append(replies, 91)}
        \/ /\ stage = "accept" /\ stage' = "relay"
           /\ replies' = Append(replies, 90)
    BY DEF Request, CheckAccess, Connect, Bind, AcceptServer, Over, Refuse, StartRelay, Reply
  <1>3. rules' \in {getFirewallRules(conf'), {}}
    <2>1. rules \in {getFirewallRules(conf), {}}
      BY DEF IInv, TypeOK
    <2>2. rules' = {} \/ (rules' = rules /\ conf' = conf)
      BY DEF Request, CheckAccess, Connect, Bind, AcceptServer, Over, Refuse, StartRelay
    <2> QED
      BY <2>1, <2>2
  <1>4. stage' \in {"request", "check", "connect", "bind", "accept", "relay", "over"}
    BY <1>2
  <1>5. /\ replies' \in Seq({90, 91}) /\ Len(replies') <= 2
        /\ stage' \in {"request", "check", "connect", "bind"} => replies' = <<>>
        /\ stage' = "accept" => Len(replies') = 1
    <2>1. replies \in Seq({90, 91}) /\ Control
      BY DEF IInv, TypeOK
    <2>2. replies = <<>> \/ (stage = "accept" /\ Len(replies) = 1)
      BY <1>2, <2>1 DEF Control
    <2>3. \A r \in {90, 91} : /\ Append(replies, r) \in Seq({90, 91})
                              /\ Len(Append(replies, r)) = Len(replies) + 1
      BY <2>1
    <2> QED
      BY <1>2, <2>1, <2>2, <2>3
  <1>6. TypeOK'
    BY <1>1, <1>3, <1>4, <1>5 DEF relay, IInv, TypeOK
  <1>7. Control'
    BY <1>1, <1>5 DEF relay, IInv, Control
  <1>8. \A e \in Ends : Flow(e)'
    BY <1>1, <1>2, FlowStays DEF relay, IInv
  <1> QED
    BY <1>6, <1>7, <1>8 DEF IInv

(* What an end holds or has received, and where, does not depend on the    *)
(* queues that are emptied when the process ends.                          *)
LEMMA CloseBothKeepsIInv ==
    ASSUME IInv, CloseBoth
    PROVE  IInv'
  <1>1. UNCHANGED <<rules, conn, conf, replies, end, sent, got, ready, pos, hold>> /\ stage' = "over"
    BY DEF CloseBoth, main, ends
  <1>2. \A e \in Ends : inq'[e] = <<>> /\ outq'[e] \in {outq[e], <<>>}
    BY DEF CloseBoth
  <1>3. TypeOK'
    <2>1. inq' \in [Ends -> Seq(Pieces)] /\ outq' \in [Ends -> Seq(Pieces)]
      BY Empty, Queues DEF CloseBoth, IInv
    <2>2. \A e \in Ends : Len(inq'[e]) <= Capacity /\ Len(outq'[e]) <= Capacity
      BY <1>2, Empty, Queues DEF IInv
    <2> QED
      BY <1>1, <2>1, <2>2 DEF IInv, TypeOK
  <1>4. Control'
    BY <1>1 DEF IInv, Control
  <1>5. ASSUME NEW e \in Ends PROVE Flow(e)'
    <2>1. outq'[Other(e)] \in {outq[Other(e)], <<>>} /\ got'[Other(e)] = got[Other(e)] /\ sent'[e] = sent[e]
      BY <1>1, <1>2, TwoEnds
    <2>2. Len(got[Other(e)]) \in Nat /\ Len(outq[Other(e)]) \in Nat /\ sent[e] \in Nat /\ Arrived(e)
      BY TwoEnds, Queues DEF IInv, Flow
    <2>3. Arrived(e)'
      <3>1. CASE outq'[Other(e)] = outq[Other(e)]
        BY <2>1, <2>2, <3>1 DEF Arrived, Passed
      <3>2. CASE outq'[Other(e)] = <<>>
        <4>1. Len(outq'[Other(e)]) = 0 /\ got'[Other(e)] = got[Other(e)] /\ sent'[e] = sent[e]
          BY <2>1, <3>2, Empty
        <4>2. Len(got[Other(e)]) <= sent[e]
          <5>1. Passed(e) <= sent[e]
            BY <2>2 DEF Arrived
          <5>2. Len(got[Other(e)]) + Len(outq[Other(e)]) <= sent[e]
            BY <5>1, Zenon DEF Passed
          <5> QED
            BY <2>2, <5>2, Sums
        <4> QED
          BY <2>2, <4>1, <4>2 DEF Arrived, Passed
      <3> QED
        BY <2>1, <3>1, <3>2
    <2> QED
      BY <1>1, <1>2, <2>3 DEF IInv, Flow
  <1> QED
    BY <1>3, <1>4, <1>5 DEF IInv

-----------------------------------------------------------------------------
(* doRedirect.                                                             *)

(* Between two pieces the process looks for what is readable.              *)
LEMMA TurnKeepsIInv ==
    ASSUME IInv, Select \/ \E e \in Ends : Skip(e)
    PROVE  IInv'
  <1>1. UNCHANGED <<main, stage, ends, inq, outq, hold>> /\ ready' \subseteq Ends
    BY DEF Select, Skip, IInv, TypeOK
  <1>2. pos # "write" /\ pos' \in {"client", "server", "select"}
    BY DEF Select, Skip, After, Ends
  <1>3. TypeOK'
    BY <1>1, <1>2, TypeStays DEF ends, IInv, TypeOK, Ends
  <1>4. Control'
    BY <1>1, <1>2 DEF main, IInv, Control
  <1>5. \A e \in Ends : Flow(e)'
    BY <1>1, FlowStays DEF ends, IInv
  <1> QED
    BY <1>3, <1>4, <1>5 DEF IInv

(* The piece that is read is the first that has not been.                  *)
LEMMA ReadKeepsIInv ==
    ASSUME IInv, NEW e \in Ends, Read(e)
    PROVE  IInv'
  <1>1. UNCHANGED <<main, stage, ends, outq, ready>> /\ pos = e /\ pos' = "write"
    BY DEF Read, Turn
  <1>2. /\ hold' = Head(inq[e]) /\ inq[e] # <<>>
        /\ inq'[e] = Tail(inq[e]) /\ inq'[Other(e)] = inq[Other(e)]
    BY TwoEnds DEF Read, IInv, TypeOK
  <1>3. hold = NoPiece
    BY <1>1 DEF IInv, Control, Ends
  <1>4. /\ inq[e] \in Seq(Pieces) /\ Len(inq[e]) \in Nat /\ Len(inq[e]) <= Capacity
        /\ inq[Other(e)] \in Seq(Pieces) /\ Len(inq[Other(e)]) <= Capacity
    BY Queues, TwoEnds DEF IInv
  <1>5. /\ Head(inq[e]) = inq[e][1] /\ Head(inq[e]) \in Pieces /\ 1 \in 1..Len(inq[e])
        /\ Tail(inq[e]) \in Seq(Pieces) /\ Len(Tail(inq[e])) = Len(inq[e]) - 1
        /\ \A k \in 1..Len(Tail(inq[e])) : Tail(inq[e])[k] = inq[e][k + 1] /\ k + 1 \in 1..Len(inq[e])
    BY <1>2, <1>4
  <1>6. hold'.by = e /\ hold'.by # Other(e) /\ hold.by \notin Ends
    BY <1>2, <1>3, <1>5, TwoEnds DEF IInv, Flow, NoPiece, Piece
  <1>7. TypeOK'
    <2>1. inq' \in [Ends -> Seq(Pieces)]
      BY <1>5 DEF Read, IInv, TypeOK
    <2>2. Len(inq'[e]) <= Capacity /\ Len(inq'[Other(e)]) <= Capacity
      BY <1>2, <1>4, <1>5, SocksServerAssumption
    <2>3. \A x \in Ends : Len(inq'[x]) <= Capacity
      BY <2>2, TwoEnds
    <2> QED
      BY <1>1, <1>2, <1>5, <2>1, <2>3, TypeStays DEF ends, IInv, TypeOK
  <1>8. Control'
    <2>1. hold' # NoPiece
      BY <1>6, TwoEnds DEF NoPiece, Piece
    <2> QED
      BY <1>1, <2>1 DEF main, IInv, Control
  <1>9. Flow(Other(e))'
    BY <1>1, <1>2, <1>6, FlowStays, TwoEnds DEF ends, IInv
  <1>10. Flow(e)'
    <2>1. Passed(e)' = Passed(e) /\ Held(e) = 0 /\ Held(e)' = 1 /\ Passed(e) \in Nat /\ sent[e] \in Nat
      BY <1>1, <1>6, Queues, TwoEnds DEF ends, IInv, Passed, Held
    <2>2. Arrived(e)'
      BY <1>1, <2>1 DEF ends, IInv, Flow, Arrived
    <2>3. ASSUME Underway(e) PROVE Underway(e)'
      <3>1. hold'.no = Passed(e)' + 1
        <4>1. hold' = Piece(e, Passed(e) + Held(e) + 1)
          BY <1>2, <1>5, <2>3 DEF Underway
        <4> QED
          BY <2>1, <4>1 DEF Piece
      <3>2. \A k \in 1..Len(inq'[e]) : inq'[e][k] = Piece(e, Passed(e)' + Held(e)' + k)
        <4> SUFFICES ASSUME NEW k \in 1..Len(inq'[e])
                     PROVE  inq'[e][k] = Piece(e, Passed(e)' + Held(e)' + k)
          OBVIOUS
        <4>1. inq'[e][k] = Piece(e, Passed(e) + Held(e) + (k + 1))
          BY <1>2, <1>5, <2>3 DEF Underway
        <4>2. Passed(e) + Held(e) + (k + 1) = Passed(e)' + Held(e)' + k
          BY <1>2, <1>4, <1>5, <2>1
        <4> QED
          BY <4>1, <4>2
      <3>3. Passed(e)' + Held(e)' + Len(inq'[e]) = Passed(e) + Held(e) + Len(inq[e])
        BY <1>2, <1>4, <1>5, <2>1
      <3> QED
        BY <1>1, <2>3, <3>1, <3>2, <3>3 DEF ends, Underway
    <2>4. \A k \in 1..Len(inq'[e]) : inq'[e][k].by = e
      BY <1>2, <1>5 DEF IInv, Flow
    <2> QED
      BY <1>1, <2>2, <2>3, <2>4 DEF ends, IInv, Flow
  <1> QED
    BY <1>7, <1>8, <1>9, <1>10, TwoEnds DEF IInv

(* What a failing read loses was sent by an end that sends no more.        *)
LEMMA ReadFailsKeepsIInv ==
    ASSUME IInv, NEW e \in Ends, ReadFails(e)
    PROVE  IInv'
  <1>1. /\ UNCHANGED <<main, stage, ends, outq, ready, hold>>
        /\ pos = e /\ pos' \in {"select", "server"}
        /\ end[e] = "closed"
    BY DEF ReadFails, Turn, After
  <1>2. inq'[e] = <<>> /\ inq'[Other(e)] = inq[Other(e)]
    BY TwoEnds DEF ReadFails, IInv, TypeOK
  <1>3. TypeOK'
    <2>1. inq' \in [Ends -> Seq(Pieces)]
      BY Empty DEF ReadFails, IInv, TypeOK
    <2>2. \A x \in Ends : Len(inq'[x]) <= Capacity
      BY <1>2, Empty, Queues, TwoEnds DEF IInv
    <2> QED
      BY <1>1, <2>1, <2>2, TypeStays DEF ends, IInv, TypeOK, Ends
  <1>4. Control'
    BY <1>1 DEF main, IInv, Control, Ends
  <1>5. Flow(Other(e))'
    BY <1>1, <1>2, FlowStays, TwoEnds DEF ends, IInv
  <1>6. Flow(e)'
    <2>1. Passed(e)' = Passed(e) /\ Held(e)' = Held(e) /\ Passed(e) \in Nat /\ Held(e) \in Nat /\ sent[e] \in Nat
      BY <1>1, Queues, TwoEnds DEF ends, IInv, Passed, Held
    <2>2. Len(inq'[e]) = 0 /\ Len(inq[e]) \in Nat
      BY <1>2, Empty, Queues DEF IInv
    <2>3. Arrived(e)'
      BY <1>1, <2>1 DEF ends, IInv, Flow, Arrived
    <2>4. Underway(e) => Underway(e)'
      BY <1>1, <2>1, <2>2 DEF ends, Underway
    <2>5. \A k \in 1..Len(inq'[e]) : inq'[e][k].by = e
      BY <2>2
    <2> QED
      BY <1>1, <2>3, <2>4, <2>5 DEF ends, IInv, Flow
  <1> QED
    BY <1>3, <1>4, <1>5, <1>6, TwoEnds DEF IInv

(* The piece that is written is the one after those that have been.        *)
LEMMA WriteKeepsIInv ==
    ASSUME IInv, NEW e \in Ends, Write(e)
    PROVE  IInv'
  <1> DEFINE o == Other(e)
  <1>1. /\ UNCHANGED <<main, stage, ends, inq, ready>>
        /\ hold.by = e /\ hold' = NoPiece
        /\ stage # "over" /\ end[o] # "closed" /\ Len(outq[o]) < Capacity
        /\ pos' \in {"select", "server"}
    BY DEF Write, After
  <1>2. outq'[o] = Append(outq[o], hold) /\ outq'[e] = outq[e]
    BY TwoEnds DEF Write, IInv, TypeOK
  <1>3. /\ o \in Ends /\ o # e /\ Other(o) = e
        /\ outq[o] \in Seq(Pieces) /\ Len(outq[o]) \in Nat
        /\ Len(got[o]) \in Nat /\ sent[e] \in Nat /\ Passed(e) \in Nat /\ Len(inq[e]) \in Nat
    BY TwoEnds, Queues DEF IInv
  <1>4. hold \in Pieces /\ hold = Piece(e, hold.no) /\ Underway(e)
    BY <1>1, <1>3, Heads DEF IInv, TypeOK, Flow
  <1>5. /\ Append(outq[o], hold) \in Seq(Pieces)
        /\ Len(outq'[o]) = Len(outq[o]) + 1
        /\ \A k \in 1..Len(outq[o]) : outq'[o][k] = outq[o][k]
        /\ outq'[o][Len(outq[o]) + 1] = hold
    BY <1>2, <1>3, <1>4
  <1>6. hold'.by \notin Ends
    BY <1>1, TwoEnds DEF NoPiece, Piece
  <1>7. TypeOK'
    <2>1. outq' \in [Ends -> Seq(Pieces)]
      BY <1>3, <1>5 DEF Write, IInv, TypeOK
    <2>2. Len(outq'[o]) <= Capacity
      BY <1>1, <1>3, <1>5, SocksServerAssumption
    <2>3. \A x \in Ends : Len(outq'[x]) <= Capacity
      BY <1>2, <2>2, TwoEnds DEF IInv, TypeOK
    <2> QED
      BY <1>1, <2>1, <2>3, TypeStays DEF ends, IInv, TypeOK, Ends
  <1>8. Control'
    BY <1>1 DEF main, IInv, Control
  <1>9. Flow(o)'
    BY <1>1, <1>2, <1>3, <1>6, FlowStays DEF ends, IInv
  <1>10. Flow(e)'
    <2>1. Len(got'[o]) = Len(got[o]) /\ got'[o] = got[o] /\ sent'[e] = sent[e] /\ inq'[e] = inq[e] /\ end' = end
      BY <1>1 DEF ends
    <2>2. Passed(e) = Len(got[o]) + Len(outq[o]) /\ Passed(e)' = Len(got[o]) + (Len(outq[o]) + 1)
      BY <1>5, <2>1 DEF Passed
    <2>3. Passed(e)' = Passed(e) + 1
      <3>1. Len(got[o]) + (Len(outq[o]) + 1) = (Len(got[o]) + Len(outq[o])) + 1
        BY <1>3, Sums
      <3> QED
        BY <2>2, <3>1
    <2>4. Held(e) = 1 /\ Held(e)' = 0
      BY <1>1, <1>6 DEF Held
    <2>5. Arrived(e)'
      <3>1. \A k \in 1..Len(got'[o]) : got'[o][k] = Piece(e, k)
        BY <2>1 DEF IInv, Flow, Arrived
      <3>2. \A k \in 1..Len(outq'[o]) : outq'[o][k] = Piece(e, Len(got'[o]) + k)
        <4>1. \A k \in 1..Len(outq[o]) : outq'[o][k] = Piece(e, Len(got'[o]) + k)
          BY <1>5, <2>1 DEF IInv, Flow, Arrived
        <4>2. outq'[o][Len(outq[o]) + 1] = Piece(e, Len(got'[o]) + (Len(outq[o]) + 1))
          <5>1. hold.no = Passed(e) + 1
            BY <1>1, <1>4 DEF Underway
          <5>2. Passed(e) + 1 = Len(got'[o]) + (Len(outq[o]) + 1)
            BY <2>1, <2>2, <2>3
          <5> QED
            BY <1>4, <1>5, <5>1, <5>2
        <4>3. \A k \in 1..Len(outq'[o]) : k \in 1..Len(outq[o]) \/ k = Len(outq[o]) + 1
          BY <1>3, <1>5
        <4> QED
          BY <4>1, <4>2, <4>3
      <3>3. Passed(e)' <= sent'[e]
        BY <1>3, <1>4, <2>1, <2>3, <2>4 DEF Underway
      <3> QED
        BY <3>1, <3>2, <3>3 DEF Arrived
    <2>6. Underway(e)'
      <3>1. hold'.by # e
        BY <1>6
      <3>2. Passed(e)' + Held(e)' = Passed(e) + Held(e)
        BY <1>3, <2>3, <2>4
      <3> QED
        BY <1>4, <2>1, <3>1, <3>2 DEF Underway
    <2> QED
      BY <1>1, <1>2, <2>1, <2>5, <2>6 DEF IInv, Flow
  <1> QED
    BY <1>3, <1>7, <1>8, <1>9, <1>10, TwoEnds DEF IInv

(* What is written to an end that has closed nobody waits for.             *)
LEMMA WriteToClosedKeepsIInv ==
    ASSUME IInv, NEW e \in Ends, WriteToClosed(e)
    PROVE  IInv'
  <1>1. CASE CloseBoth
    BY <1>1, CloseBothKeepsIInv
  <1>2. CASE hold' = NoPiece /\ pos' = After(e) /\ UNCHANGED <<main, stage, ends, inq, outq, ready>>
    <2>1. hold.by = e /\ end[Other(e)] = "closed" /\ hold'.by \notin Ends /\ pos' \in {"select", "server"}
      BY <1>2, TwoEnds DEF WriteToClosed, NoPiece, Piece, After
    <2>2. TypeOK'
      BY <1>2, <2>1, TypeStays DEF ends, IInv, TypeOK, Ends
    <2>3. Control'
      BY <1>2, <2>1 DEF main, IInv, Control
    <2>4. Flow(Other(e))'
      BY <1>2, <2>1, FlowStays, TwoEnds DEF ends, IInv
    <2>5. Flow(e)'
      <3>1. Passed(e)' = Passed(e) /\ UNCHANGED <<end, got, sent, outq, inq>>
        BY <1>2 DEF ends, Passed
      <3>2. Arrived(e)'
        BY <3>1 DEF IInv, Flow, Arrived
      <3> QED
        BY <2>1, <3>1, <3>2 DEF IInv, Flow
    <2> QED
      BY <2>2, <2>3, <2>4, <2>5, TwoEnds DEF IInv
  <1> QED
    BY <1>1, <1>2 DEF WriteToClosed

-----------------------------------------------------------------------------
(* The client and the server.                                              *)

(* An end that is still open has a number for the next piece.              *)
LEMMA SendKeepsIInv ==
    ASSUME IInv, NEW e \in Ends, Send(e)
    PROVE  IInv'
  <1>1. /\ UNCHANGED <<main, stage, end, outq, got, ready, pos, hold>>
        /\ end[e] = "open" /\ sent[e] < MaxPiece /\ Len(inq[e]) < Capacity
    BY DEF Send
  <1>2. /\ sent'[e] = sent[e] + 1 /\ sent'[Other(e)] = sent[Other(e)]
        /\ inq'[e] = Append(inq[e], Piece(e, sent[e] + 1)) /\ inq'[Other(e)] = inq[Other(e)]
    BY TwoEnds DEF Send, IInv, TypeOK
  <1>3. /\ inq[e] \in Seq(Pieces) /\ Len(inq[e]) \in Nat /\ sent[e] \in Nat /\ sent[e] + 1 \in 1..MaxPiece
        /\ Passed(e) \in Nat /\ Held(e) \in Nat
    BY <1>1, Queues, SocksServerAssumption DEF IInv
  <1>4. Piece(e, sent[e] + 1) \in Pieces
    BY <1>3 DEF Pieces, Piece
  <1>5. /\ inq'[e] \in Seq(Pieces) /\ Len(inq'[e]) = Len(inq[e]) + 1
        /\ \A k \in 1..Len(inq[e]) : inq'[e][k] = inq[e][k]
        /\ inq'[e][Len(inq[e]) + 1] = Piece(e, sent[e] + 1)
        /\ \A k \in 1..Len(inq'[e]) : k \in 1..Len(inq[e]) \/ k = Len(inq[e]) + 1
    BY <1>2, <1>3, <1>4
  <1>6. TypeOK'
    <2>1. inq' \in [Ends -> Seq(Pieces)] /\ sent' \in [Ends -> 0..MaxPiece]
      BY <1>2, <1>3, <1>5 DEF Send, IInv, TypeOK
    <2>2. Len(inq'[e]) <= Capacity
      BY <1>1, <1>3, <1>5, SocksServerAssumption
    <2>3. Len(inq'[Other(e)]) <= Capacity
      BY <1>2, TwoEnds, Queues DEF IInv
    <2>4. \A x \in Ends : Len(inq'[x]) <= Capacity
      BY <2>2, <2>3, TwoEnds
    <2> QED
      BY <1>1, <2>1, <2>4, TypeStays DEF IInv, TypeOK
  <1>7. Control'
    BY <1>1 DEF main, IInv, Control
  <1>8. Flow(Other(e))'
    BY <1>1, <1>2, FlowStays, TwoEnds DEF IInv
  <1>9. Flow(e)'
    <2>1. Passed(e)' = Passed(e) /\ Held(e)' = Held(e)
      BY <1>1 DEF Passed, Held
    <2>2. Arrived(e)'
      <3>1. Passed(e)' <= sent'[e]
        BY <1>2, <1>3, <2>1 DEF IInv, Flow, Arrived
      <3> QED
        BY <1>1, <3>1 DEF IInv, Flow, Arrived
    <2>3. ASSUME Underway(e) PROVE Underway(e)'
      <3>1. Passed(e) + Held(e) + Len(inq[e]) = sent[e]
        BY <1>1, <2>3 DEF Underway
      <3>2. \A k \in 1..Len(inq'[e]) : inq'[e][k] = Piece(e, Passed(e) + Held(e) + k)
        <4>1. \A k \in 1..Len(inq[e]) : inq'[e][k] = Piece(e, Passed(e) + Held(e) + k)
          BY <1>5, <2>3 DEF Underway
        <4>2. Passed(e) + Held(e) + (Len(inq[e]) + 1) = sent[e] + 1
          BY <1>3, <3>1
        <4> QED
          BY <1>5, <4>1, <4>2
      <3>3. Passed(e) + Held(e) + Len(inq'[e]) = sent'[e]
        BY <1>2, <1>3, <1>5, <3>1
      <3> QED
        BY <1>1, <1>2, <1>3, <2>1, <2>3, <3>2, <3>3 DEF Underway
    <2>4. \A k \in 1..Len(inq'[e]) : inq'[e][k].by = e
      BY <1>5 DEF IInv, Flow, Piece
    <2> QED
      BY <1>1, <2>2, <2>3, <2>4 DEF IInv, Flow
  <1> QED
    BY <1>6, <1>7, <1>8, <1>9, TwoEnds DEF IInv

(* A piece that is received was the first of those written.                *)
LEMMA ReceiveKeepsIInv ==
    ASSUME IInv, NEW e \in Ends, Receive(e)
    PROVE  IInv'
  <1> DEFINE o == Other(e)
  <1>1. UNCHANGED <<main, stage, end, inq, sent, ready, pos, hold>> /\ end[e] # "closed"
    BY DEF Receive
  <1>2. /\ got'[e] = Append(got[e], Head(outq[e])) /\ got'[o] = got[o]
        /\ outq'[e] = Tail(outq[e]) /\ outq'[o] = outq[o] /\ outq[e] # <<>>
    BY TwoEnds DEF Receive, IInv, TypeOK
  <1>3. /\ o \in Ends /\ o # e /\ Other(o) = e
        /\ outq[e] \in Seq(Pieces) /\ Len(outq[e]) \in Nat /\ Len(outq[e]) <= Capacity
        /\ got[e] \in Seq(Pieces) /\ Len(got[e]) \in Nat
    BY TwoEnds, Queues DEF IInv
  <1>4. /\ Head(outq[e]) = outq[e][1] /\ Head(outq[e]) \in Pieces /\ 1 \in 1..Len(outq[e])
        /\ Tail(outq[e]) \in Seq(Pieces) /\ Len(Tail(outq[e])) = Len(outq[e]) - 1
        /\ \A k \in 1..Len(Tail(outq[e])) :
              Tail(outq[e])[k] = outq[e][k + 1] /\ k + 1 \in 1..Len(outq[e])
    BY <1>2, <1>3
  <1>5. /\ got'[e] \in Seq(Pieces) /\ Len(got'[e]) = Len(got[e]) + 1
        /\ \A k \in 1..Len(got[e]) : got'[e][k] = got[e][k]
        /\ got'[e][Len(got[e]) + 1] = Head(outq[e])
        /\ \A k \in 1..Len(got'[e]) : k \in 1..Len(got[e]) \/ k = Len(got[e]) + 1
    BY <1>2, <1>3, <1>4
  <1>6. TypeOK'
    <2>1. outq' \in [Ends -> Seq(Pieces)] /\ got' \in [Ends -> Seq(Pieces)]
      BY <1>2, <1>4, <1>5 DEF Receive, IInv, TypeOK
    <2>2. Len(outq'[e]) <= Capacity
      BY <1>2, <1>3, <1>4, SocksServerAssumption
    <2>3. Len(outq'[Other(e)]) <= Capacity
      BY <1>2, TwoEnds, Queues DEF IInv
    <2>4. \A x \in Ends : Len(outq'[x]) <= Capacity
      BY <2>2, <2>3, TwoEnds
    <2> QED
      BY <1>1, <2>1, <2>4, TypeStays DEF IInv, TypeOK
  <1>7. Control'
    BY <1>1 DEF main, IInv, Control
  <1>8. Flow(e)'
    BY <1>1, <1>2, FlowStays DEF IInv
  <1>9. Flow(o)'
    <2>1. /\ Passed(o) = Len(got[e]) + Len(outq[e])
          /\ Passed(o)' = (Len(got[e]) + 1) + (Len(outq[e]) - 1)
      BY <1>2, <1>3, <1>4, <1>5 DEF Passed
    <2>2. Passed(o)' = Passed(o)
      <3>1. (Len(got[e]) + 1) + (Len(outq[e]) - 1) = Len(got[e]) + Len(outq[e])
        BY <1>3, Sums
      <3> QED
        BY <2>1, <3>1
    <2>3. Held(o)' = Held(o)
      BY <1>1 DEF Held
    <2>4. Arrived(o)
      BY <1>3 DEF IInv, Flow
    <2>5. Arrived(o)'
      <3>1. \A k \in 1..Len(got'[e]) : got'[e][k] = Piece(o, k)
        <4>1. \A k \in 1..Len(got[e]) : got'[e][k] = Piece(o, k)
          BY <1>3, <1>5, <2>4 DEF Arrived
        <4>2. outq[e][1] = Piece(o, Len(got[e]) + 1)
          BY <1>3, <1>4, <2>4 DEF Arrived
        <4> QED
          BY <1>4, <1>5, <4>1, <4>2
      <3>2. \A k \in 1..Len(outq'[e]) : outq'[e][k] = Piece(o, Len(got'[e]) + k)
        <4> SUFFICES ASSUME NEW k \in 1..Len(outq'[e])
                     PROVE  outq'[e][k] = Piece(o, Len(got'[e]) + k)
          OBVIOUS
        <4>1. outq'[e][k] = outq[e][k + 1] /\ k + 1 \in 1..Len(outq[e])
          BY <1>2, <1>4
        <4>2. outq[e][k + 1] = Piece(o, Len(got[e]) + (k + 1))
          BY <1>3, <2>4, <4>1 DEF Arrived
        <4>3. Len(got[e]) + (k + 1) = Len(got'[e]) + k
          <5>1. k \in Nat /\ Len(got'[e]) = Len(got[e]) + 1
            BY <1>2, <1>3, <1>4, <1>5
          <5>2. Len(got[e]) + (k + 1) = (Len(got[e]) + 1) + k
            BY <1>3, <5>1, Sums
          <5> QED
            BY <5>1, <5>2
        <4> QED
          BY <4>1, <4>2, <4>3
      <3>3. Passed(o)' <= sent'[o]
        BY <1>1, <2>2, <2>4 DEF Arrived
      <3> QED
        BY <1>3, <3>1, <3>2, <3>3 DEF Arrived
    <2>6. Underway(o) => Underway(o)'
      BY <1>1, <2>2, <2>3 DEF Underway
    <2>7. UNCHANGED <<stage, end, inq>> /\ outq'[o] = outq[o]
      BY <1>1, <1>2
    <2> QED
      BY <1>3, <2>5, <2>6, <2>7 DEF IInv, Flow
  <1> QED
    BY <1>3, <1>6, <1>7, <1>8, <1>9, TwoEnds DEF IInv

(* An end that sends no more, or is gone.                                  *)
LEMMA ShutKeepsIInv ==
    ASSUME IInv, NEW e \in Ends, Shut(e) \/ Close(e)
    PROVE  IInv'
  <1>1. /\ UNCHANGED <<main, stage, inq, sent, got, ready, pos, hold>>
        /\ end'[e] \in {"shut", "closed"}
        /\ end[e] # "closed" /\ (end'[e] = "shut" => outq' = outq)
        /\ end'[Other(e)] = end[Other(e)] /\ outq'[Other(e)] = outq[Other(e)]
        /\ outq'[e] \in {outq[e], <<>>}
        /\ end'[e] = "closed" => outq'[e] = <<>>
    BY TwoEnds DEF Shut, Close, IInv, TypeOK
  <1>2. TypeOK'
    <2>1. outq' \in [Ends -> Seq(Pieces)] /\ end' \in [Ends -> {"open", "shut", "closed"}]
      BY Empty DEF Shut, Close, IInv, TypeOK
    <2>2. Len(outq'[e]) <= Capacity /\ Len(outq'[Other(e)]) <= Capacity
      BY <1>1, Empty, Queues, TwoEnds DEF IInv
    <2>3. \A x \in Ends : Len(outq'[x]) <= Capacity
      BY <2>2, TwoEnds
    <2> QED
      BY <1>1, <2>1, <2>3, TypeStays DEF IInv, TypeOK
  <1>3. Control'
    BY <1>1 DEF main, IInv, Control
  <1>4. Flow(e)'
    <2>1. Passed(e)' = Passed(e) /\ Held(e)' = Held(e)
      BY <1>1 DEF Passed, Held
    <2>2. Arrived(e)'
      BY <1>1, <2>1 DEF IInv, Flow, Arrived
    <2>3. Underway(e) => Underway(e)'
      BY <1>1, <2>1 DEF Underway
    <2> QED
      BY <1>1, <2>2, <2>3 DEF IInv, Flow
  <1>5. Flow(Other(e))'
    <2> DEFINE o == Other(e)
    <2>1. o \in Ends /\ Other(o) = e
      BY TwoEnds
    <2>2. CASE end'[e] = "shut"
      <3>1. Passed(o)' = Passed(o) /\ Held(o)' = Held(o)
        BY <1>1, <2>2 DEF Passed, Held
      <3>2. Arrived(o)'
        BY <1>1, <2>1, <2>2, <3>1 DEF IInv, Flow, Arrived
      <3>3. Underway(o) => Underway(o)'
        BY <1>1, <3>1 DEF Underway
      <3> QED
        BY <1>1, <2>1, <2>2, <3>2, <3>3 DEF IInv, Flow
    <2>3. CASE end'[e] = "closed"
      <3>1. /\ Len(got[e]) \in Nat /\ Len(outq[e]) \in Nat /\ sent[o] \in Nat
            /\ Len(outq'[e]) = 0 /\ got'[e] = got[e] /\ sent'[o] = sent[o]
        BY <1>1, <2>1, <2>3, Empty, Queues DEF IInv
      <3>2. Len(got[e]) <= sent[o]
        <4>1. Passed(o) <= sent[o]
          BY <2>1 DEF IInv, Flow, Arrived
        <4>2. Len(got[e]) + Len(outq[e]) <= sent[o]
          BY <2>1, <4>1 DEF Passed
        <4> QED
          BY <3>1, <4>2, Sums
      <3>3. Passed(o)' = Len(got[e]) + 0
        BY <2>1, <3>1 DEF Passed
      <3>4. Arrived(o)'
        <4>1. Passed(o)' <= sent'[o]
          BY <3>1, <3>2, <3>3
        <4> QED
          BY <2>1, <3>1, <4>1 DEF IInv, Flow, Arrived
      <3> QED
        BY <1>1, <2>1, <2>3, <3>4 DEF IInv, Flow
    <2> QED
      BY <1>1, <2>2, <2>3
  <1> QED
    BY <1>2, <1>3, <1>4, <1>5, TwoEnds DEF IInv

-----------------------------------------------------------------------------
(* The theorems.                                                           *)

LEMMA InitIInv == Init => IInv
  <1> SUFFICES ASSUME Init PROVE IInv
    OBVIOUS
  <1>1. \A e \in Ends : inq[e] = <<>> /\ outq[e] = <<>> /\ got[e] = <<>> /\ sent[e] = 0 /\ end[e] = "open"
    BY DEF Init
  <1>2. TypeOK
    <2>1. inq \in [Ends -> Seq(Pieces)] /\ outq \in [Ends -> Seq(Pieces)] /\ got \in [Ends -> Seq(Pieces)]
      BY Empty DEF Init
    <2>2. \A e \in Ends : Len(inq[e]) <= Capacity /\ Len(outq[e]) <= Capacity
      BY <1>1, Empty
    <2>3. replies = <<>> /\ replies \in Seq({90, 91}) /\ Len(replies) <= 2
      BY DEF Init
    <2>4. sent \in [Ends -> 0..MaxPiece] /\ end \in [Ends -> {"open", "shut", "closed"}]
      BY SocksServerAssumption DEF Init
    <2> QED
      BY <2>1, <2>2, <2>3, <2>4 DEF Init, TypeOK
  <1>3. Control
    BY DEF Init, Control
  <1>4. ASSUME NEW e \in Ends PROVE Flow(e)
    <2>1. /\ Len(got[Other(e)]) = 0 /\ Len(outq[Other(e)]) = 0 /\ Len(inq[e]) = 0
          /\ sent[e] = 0 /\ hold.by # e
      BY <1>1, TwoEnds, Empty DEF Init, NoPiece, Piece
    <2>2. Passed(e) = 0 /\ Held(e) = 0
      BY <2>1 DEF Passed, Held
    <2> QED
      BY <1>1, <2>1, <2>2 DEF Flow, Arrived, Underway
  <1> QED
    BY <1>2, <1>3, <1>4 DEF IInv

LEMMA StepIInv == IInv /\ [Next]_vars => IInv'
  <1> SUFFICES ASSUME IInv, [Next]_vars PROVE IInv'
    OBVIOUS
  <1>1. CASE Request \/ CheckAccess \/ Connect \/ Bind \/ AcceptServer
    BY <1>1, RequestKeepsIInv
  <1>2. CASE Redirect
    <2>1. ASSUME NEW e \in Ends, ReadEnd(e) PROVE IInv'
      BY <2>1, CloseBothKeepsIInv DEF ReadEnd
    <2> QED
      BY <1>2, <2>1, TurnKeepsIInv, ReadKeepsIInv, ReadFailsKeepsIInv, WriteKeepsIInv,
         WriteToClosedKeepsIInv DEF Redirect
  <1>3. CASE \E e \in Ends : Send(e) \/ Receive(e) \/ Shut(e) \/ Close(e)
    BY <1>3, SendKeepsIInv, ReceiveKeepsIInv, ShutKeepsIInv
  <1>4. CASE UNCHANGED vars
    <2>1. UNCHANGED <<main, stage, relay>> /\ UNCHANGED <<end, inq, outq, sent, got, ready, pos, hold>>
      BY <1>4 DEF vars, main, relay
    <2>2. TypeOK' /\ Control'
      BY <2>1 DEF main, IInv, TypeOK, Control
    <2>3. \A e \in Ends : Flow(e)'
      BY <2>1, FlowStays DEF IInv
    <2> QED
      BY <2>2, <2>3 DEF IInv
  <1> QED
    BY <1>1, <1>2, <1>3, <1>4 DEF Next, Server

(* The strengthening that the theorems about the SOCKS server follow from  *)
(* is an invariant: every piece on its way has the number its place says.  *)
THEOREM InductiveInvariant == Spec => []IInv
  BY InitIInv, StepIInv, PTL DEF Spec

(* Queues, replies and the one buffer of doRedirect stay well formed.      *)
THEOREM TypeCorrect == Spec => []TypeOK
  BY InductiveInvariant, PTL DEF IInv

(* doRedirect implements TwoWayStream: what an end receives is what the    *)
(* other has sent, in order and without gaps, and nothing is accepted once *)
(* the process has closed both sockets.                                    *)
THEOREM RelayImplementsStream == Spec => Relayed
  <1>1. Init => STREAM!Init
    BY DEF Init, STREAM!Init
  <1>2. ASSUME IInv, [Next]_vars PROVE [STREAM!Next]_(STREAM!vars)
    <2>1. ASSUME UNCHANGED <<sent, got>>, stage = "over" => stage' = "over"
          PROVE  [STREAM!Next]_(STREAM!vars)
      BY <2>1 DEF STREAM!Next, STREAM!Cut, STREAM!vars
    <2>2. ASSUME NEW e \in Ends, Send(e) PROVE STREAM!Next
      <3>1. STREAM!Send(e)
        BY <2>2 DEF Send, STREAM!Send
      <3> QED
        BY <3>1 DEF STREAM!Next
    <2>3. ASSUME NEW e \in Ends, Receive(e) PROVE STREAM!Next
      <3> DEFINE o == Other(e)
      <3>1. o \in Ends /\ o # e /\ Other(o) = e
        BY TwoEnds
      <3>2. /\ outq[e] \in Seq(Pieces) /\ Len(outq[e]) \in Nat /\ outq[e] # <<>>
            /\ Len(got[e]) \in Nat /\ sent[o] \in Nat
        BY <1>2, <2>3, <3>1, Queues DEF IInv, Receive
      <3>3. Head(outq[e]) = outq[e][1] /\ 1 \in 1..Len(outq[e])
        BY <3>2
      <3>4. outq[e][1] = Piece(o, Len(got[e]) + 1)
        BY <1>2, <3>1, <3>3 DEF IInv, Flow, Arrived
      <3>5. Len(got[e]) < sent[o]
        <4>1. Passed(o) <= sent[o]
          BY <1>2, <3>1 DEF IInv, Flow, Arrived
        <4>2. Len(got[e]) + Len(outq[e]) <= sent[o]
          BY <3>1, <4>1 DEF Passed
        <4>3. \A a, b, n \in Nat : b # 0 /\ a + b <= n => a < n
          OBVIOUS
        <4>4. Len(outq[e]) # 0
          BY <3>3
        <4> QED
          BY <3>2, <4>2, <4>3, <4>4
      <3>6. STREAM!Receive(e, o)
        BY <2>3, <3>1, <3>3, <3>4, <3>5 DEF Receive, STREAM!Receive, Piece, STREAM!Piece
      <3> QED
        BY <3>1, <3>6 DEF STREAM!Next
    <2>4. CASE Request \/ CheckAccess \/ Connect \/ Bind \/ AcceptServer
      BY <2>1, <2>4 DEF Request, CheckAccess, Connect, Bind, AcceptServer, Over, Refuse, StartRelay,
                        relay
    <2>5. CASE Redirect
      BY <2>1, <2>5 DEF Redirect, Select, Skip, Read, ReadFails, ReadEnd, Write, WriteToClosed,
                        CloseBoth, ends
    <2>6. CASE \E e \in Ends : Shut(e) \/ Close(e)
      BY <2>1, <2>6 DEF Shut, Close
    <2>7. CASE UNCHANGED vars
      BY <2>1, <2>7 DEF vars, relay
    <2> QED
      BY <1>2, <2>2, <2>3, <2>4, <2>5, <2>6, <2>7 DEF Next, Server
  <1> QED
    BY <1>1, <1>2, InductiveInvariant, PTL DEF Spec, Relayed, STREAM!Spec

-----------------------------------------------------------------------------
(* The firewall.                                                           *)

Connections == [vn : Nat, cd : Nat, src : Addresses, dst : Addresses,
                sport : Nat, dport : Nat, named : BOOLEAN]

Permitting(c) == {k \in DOMAIN c : c[k].first = "permit"}

(* Numbers that differ in less than m, or in nothing, from a multiple of m *)
(* are as far from it when they are divided by m to the same.              *)
LEMMA Multiples ==
    ASSUME NEW m \in Nat \ {0}, NEW a \in Nat, NEW b \in Nat
    PROVE  a - (a % m) = b - (b % m) <=> a \div m = b \div m
  OBVIOUS

LEMMA LessThanOne ==
    ASSUME NEW m \in Nat \ {0}, NEW a \in 0..m - 1
    PROVE  a \div m = 0
  OBVIOUS

(* Addresses that are masked to the same have the same prefix, and the     *)
(* other way round unless the prefix is empty.                             *)
LEMMA PrefixIs ==
    ASSUME NEW a \in Addresses, NEW net, net.ip \in Addresses, net.len \in 0..Width
    PROVE  /\ InNet(a, net) => SamePrefix(a, net)
           /\ net.any \/ net.len # 0 => (SamePrefix(a, net) => InNet(a, net))
  <1> DEFINE b == net.ip
             n == net.len
  <1>1. Width \in Nat /\ n \in 0..Width /\ Width - n \in 0..Width /\ a \in Nat /\ b \in Nat
    BY SocksServerAssumption DEF Addresses
  <1>2. 2^(Width - n) \in Nat \ {0}
    BY <1>1, PowersAssumption
  <1>3. CASE n # 0
    <2>1. Masked(a, n) = Masked(b, n) <=> a \div 2^(Width - n) = b \div 2^(Width - n)
      BY <1>1, <1>2, <1>3, Multiples DEF Masked
    <2> QED
      BY <2>1 DEF InNet, SamePrefix
  <1>4. CASE n = 0
    <2>1. 2^Width \in Nat \ {0} /\ Width - n = Width
      BY <1>1, <1>2, <1>4
    <2>2. a \div 2^Width = 0 /\ b \div 2^Width = 0
      BY <2>1, LessThanOne DEF Addresses
    <2>3. SamePrefix(a, net)
      BY <2>1, <2>2 DEF SamePrefix
    <2> QED
      BY <1>4, <2>3 DEF InNet
  <1> QED
    BY <1>3, <1>4

(* The rules are lines of the file that start with permit, all of them if  *)
(* they fit into the array.                                                *)
LEMMA RulesAre ==
    ASSUME NEW c \in Confs
    PROVE  /\ \A rule \in getFirewallRules(c) : \E k \in Permitting(c) : rule = c[k]
           /\ Regular(c) => \A k \in Permitting(c) : c[k] \in getFirewallRules(c)
  <1> DEFINE P == Permitting(c)
             Before(k) == {l \in P : l < k}
  <1>1. P \subseteq Nat /\ IsFiniteSet(P)
    BY SocksServerAssumption, FS_Subset DEF Permitting
  <1>2. getFirewallRules(c) = {c[k] : k \in {l \in P : Cardinality(Before(l)) < MaxRule}}
    BY DEF getFirewallRules, Permitting
  <1>3. ASSUME Regular(c), NEW k \in P
        PROVE  Cardinality(Before(k)) < MaxRule
    <2>1. Before(k) \subseteq P /\ k \notin Before(k)
      BY <1>1
    <2>2. Before(k) # P /\ IsFiniteSet(Before(k))
      BY <1>1, <2>1, FS_Subset
    <2>3. Cardinality(Before(k)) < Cardinality(P)
      <3>1. Cardinality(Before(k)) <= Cardinality(P) /\ Cardinality(Before(k)) # Cardinality(P)
        BY <1>1, <2>1, <2>2, FS_Subset
      <3>2. Cardinality(Before(k)) \in Nat /\ Cardinality(P) \in Nat
        BY <1>1, <2>2, FS_CardinalityType
      <3> QED
        BY <3>1, <3>2
    <2>4. Cardinality(Before(k)) \in Nat /\ Cardinality(P) \in Nat /\ MaxRule \in Nat
      BY <1>1, <2>2, FS_CardinalityType, SocksServerAssumption
    <2> QED
      BY <1>3, <2>3, <2>4 DEF Regular, Permitting
  <1> QED
    BY <1>2, <1>3

(* What the rules let through is permitted by the file; and what a regular *)
(* file permits is let through.                                            *)
LEMMA AccessIs ==
    ASSUME NEW c \in Confs, rules = getFirewallRules(c), NEW r \in Connections
    PROVE  /\ firewallAccessCheck(r) /\ r.cd \in {1, 2} => Permits(c, r)
           /\ Regular(c) /\ Permits(c, r) => firewallAccessCheck(r) /\ r.cd \in {1, 2}
  <1>1. r.src \in Addresses /\ r.dst \in Addresses
    BY DEF Connections
  <1>2. \A k \in Permitting(c) : /\ c[k].src.ip \in Addresses /\ c[k].src.len \in 0..Width
                                 /\ c[k].dst.ip \in Addresses /\ c[k].dst.len \in 0..Width
    BY SocksServerAssumption DEF Permitting
  <1>3. ASSUME firewallAccessCheck(r), r.cd \in {1, 2}
        PROVE  Permits(c, r)
    <2>1. PICK k \in Permitting(c) : Matches(c[k], r)
      BY <1>3, RulesAre DEF firewallAccessCheck
    <2>2. SamePrefix(r.src, c[k].src) /\ SamePrefix(r.dst, c[k].dst)
      BY <1>1, <1>2, <2>1, PrefixIs DEF Matches
    <2> QED
      BY <1>3, <2>1, <2>2 DEF Matches, Mode, Permits, Permitting
  <1>4. ASSUME Regular(c), Permits(c, r)
        PROVE  firewallAccessCheck(r) /\ r.cd \in {1, 2}
    <2>1. PICK k \in Permitting(c) :
             /\ (r.cd = 1 /\ c[k].mode = "c") \/ (r.cd = 2 /\ c[k].mode = "b")
             /\ SamePrefix(r.src, c[k].src) /\ SamePrefix(r.dst, c[k].dst)
             /\ c[k].sport \in {0, r.sport} /\ c[k].dport \in {0, r.dport}
      BY <1>4 DEF Permits, Permitting
    <2>2. InNet(r.src, c[k].src) /\ InNet(r.dst, c[k].dst)
      BY <1>1, <1>2, <1>4, <2>1, PrefixIs DEF Regular, Permitting
    <2>3. Matches(c[k], r) /\ r.cd \in {1, 2}
      BY <2>1, <2>2 DEF Matches, Mode
    <2> QED
      BY <1>4, <2>3, RulesAre DEF firewallAccessCheck
  <1> QED
    BY <1>3, <1>4

(* The rules are those of the file until the relay starts, a request that  *)
(* has passed the check is permitted, and no data has moved.               *)
Checked ==
    /\ stage \in {"request", "check", "connect", "bind", "accept"} =>
          /\ conf \in Confs /\ rules = getFirewallRules(conf) /\ conn \in Connections
          /\ \A e \in Ends : outq[e] = <<>>
    /\ stage \in {"connect", "bind", "accept"} => Permits(conf, conn)

LEMMA CheckedHolds == Spec => []Checked
  <1>1. Init => Checked
    <2> SUFFICES ASSUME Init PROVE Checked
      OBVIOUS
    <2>1. conn \in Connections
      BY SocksServerAssumption DEF Init, Connections
    <2> QED
      BY <2>1 DEF Init, Checked
  <1>2. ASSUME Checked, [Next]_vars PROVE Checked'
    <2>1. CASE Request
      <3>1. outq' = outq /\ conf' = conf /\ rules' = rules /\ stage = "request"
            /\ stage' \in {"check", "over"}
        BY <2>1 DEF Request, Over, relay
      <3>2. stage' = "check" => conn' \in Connections
        <4>1. conn \in Connections
          BY <1>2, <3>1 DEF Checked
        <4>2. \A a \in Addresses : [conn EXCEPT !.dst = a] \in Connections
          BY <4>1 DEF Connections
        <4> QED
          BY <2>1, <4>1, <4>2 DEF Request, Over
      <3> QED
        BY <1>2, <3>1, <3>2 DEF Checked
    <2>2. CASE CheckAccess
      <3>1. /\ stage = "check" /\ outq' = outq /\ conf' = conf /\ rules' = rules /\ conn' = conn
            /\ stage' = "over" \/ (/\ stage' \in {"connect", "bind"}
                                  /\ firewallAccessCheck(conn) /\ conn.cd \in {1, 2})
        BY <2>2 DEF CheckAccess, Refuse, Over, relay
      <3>2. stage' # "over" => Permits(conf, conn)
        BY <1>2, <3>1, AccessIs DEF Checked
      <3> QED
        BY <1>2, <3>1, <3>2 DEF Checked, Permits
    <2>3. CASE Connect \/ Bind \/ AcceptServer
      <3>1. \/ stage' \in {"relay", "over"}
            \/ /\ stage = "bind" /\ stage' = "accept" /\ outq' = outq
               /\ conf' = conf /\ rules' = rules /\ conn' = conn
        BY <2>3 DEF Connect, Bind, AcceptServer, StartRelay, Refuse, Over, relay
      <3> QED
        BY <1>2, <3>1 DEF Checked, Permits
    <2>4. CASE Redirect \/ \E e \in Ends : Send(e) \/ Shut(e) \/ Close(e)
      <3>1. stage' = "over" \/ (stage' = stage /\ stage \in {"relay", "over"})
        BY <1>2, <2>4 DEF Redirect, Select, Skip, Read, ReadFails, ReadEnd, Turn, Write, WriteToClosed,
           CloseBoth, Send, Shut, Close
      <3> QED
        BY <3>1 DEF Checked
    <2>5. ASSUME NEW e \in Ends, Receive(e) PROVE Checked'
      <3>1. outq[e] # <<>> /\ stage' = stage
        BY <2>5 DEF Receive
      <3> QED
        BY <1>2, <3>1 DEF Checked
    <2>6. CASE UNCHANGED vars
      BY <1>2, <2>6 DEF vars, relay, Checked, Permits
    <2> QED
      BY <1>2, <2>1, <2>2, <2>3, <2>4, <2>5, <2>6 DEF Next, Server
  <1> QED
    BY <1>1, <1>2, PTL DEF Spec

(* A reply that grants comes only after the check.                         *)
LEMMA GrantedAreChecked ==
    ASSUME IInv, Checked, [Next]_vars, Len(replies') > Len(replies), replies'[Len(replies')] = 90
    PROVE  Permits(conf, conn)
  <1>1. replies \in Seq({90, 91}) /\ Len(replies) \in Nat
    BY DEF IInv, TypeOK
  <1>2. replies' # replies
    BY <1>1
  <1>3. replies' # Append(replies, 91)
    BY <1>1
  <1>4. stage \in {"connect", "bind", "accept"}
    <2>1. CASE Request \/ CheckAccess \/ Connect \/ Bind \/ AcceptServer
      BY <1>2, <1>3, <2>1 DEF Request, CheckAccess, Connect, Bind, AcceptServer, Refuse, Over, Reply
    <2>2. CASE Redirect \/ \E e \in Ends : Send(e) \/ Receive(e) \/ Shut(e) \/ Close(e)
      BY <1>2, <2>2 DEF Redirect, Select, Skip, Read, ReadFails, ReadEnd, Write, WriteToClosed,
         CloseBoth, Send, Receive, Shut, Close, main
    <2>3. CASE UNCHANGED vars
      BY <1>2, <2>3 DEF vars
    <2> QED
      BY <2>1, <2>2, <2>3 DEF Next, Server
  <1> QED
    BY <1>4 DEF Checked

(* Whatever is in the file, firewallAccessCheck lets nothing pass, and     *)
(* nothing is granted, that the file does not permit; and if the file is   *)
(* regular, everything that it permits is let pass.                        *)
THEOREM GrantsWhatIsPermitted == Spec => GrantsPermitted
  <1>1. ASSUME IInv, Checked, [Next]_vars
        PROVE  [/\ stage = "check" => /\ stage' # "over" => Permits(conf, conn)
                                      /\ Regular(conf) /\ Permits(conf, conn) => stage' # "over"
                /\ Len(replies') > Len(replies) /\ replies'[Len(replies')] = 90
                      => Permits(conf, conn)]_vars
    <2>1. ASSUME stage = "check", ~ UNCHANGED vars
          PROVE  /\ stage' # "over" => Permits(conf, conn)
                 /\ Regular(conf) /\ Permits(conf, conn) => stage' # "over"
      <3>1. conf \in Confs /\ rules = getFirewallRules(conf) /\ conn \in Connections
            /\ \A e \in Ends : outq[e] = <<>>
        BY <1>1, <2>1 DEF Checked
      <3>2. CheckAccess
        <4>1. ~ (Request \/ Connect \/ Bind \/ AcceptServer)
          BY <2>1 DEF Request, Connect, Bind, AcceptServer
        <4>2. ~ Redirect
          BY <2>1 DEF Redirect, Select, Skip, Read, ReadFails, ReadEnd, Turn, Write, WriteToClosed
        <4>3. ~ \E e \in Ends : Send(e) \/ Receive(e) \/ Shut(e) \/ Close(e)
          BY <2>1, <3>1 DEF Send, Receive, Shut, Close
        <4> QED
          BY <1>1, <2>1, <4>1, <4>2, <4>3 DEF Next, Server
      <3>3. stage' # "over" <=> firewallAccessCheck(conn) /\ conn.cd \in {1, 2}
        BY <3>2 DEF CheckAccess, Refuse, Over
      <3> QED
        BY <3>1, <3>3, AccessIs
    <2> QED
      BY <1>1, <2>1, GrantedAreChecked
  <1> QED
    BY <1>1, InductiveInvariant, CheckedHolds, PTL DEF Spec, GrantsPermitted

=============================================================================
