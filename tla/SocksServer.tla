---------------------------- MODULE SocksServer ----------------------------
(***************************************************************************)
(* One connection of the SOCKS4 server (socksServer.c): the request, the   *)
(* firewall, CONNECT or BIND, and doRedirect between the client and the    *)
(* server it asked for.  Every connection has a process of its own and     *)
(* reads the rules once, so connections do not meet.                       *)
(*                                                                         *)
(* A piece of data is what one read and one write move.  A socket is two   *)
(* queues: inq[e] holds what the end e has sent and the process not read,  *)
(* outq[e] what the process has written and e not received.                *)
(***************************************************************************)
EXTENDS Integers, Sequences, FiniteSets

CONSTANTS
    Width,      \* bits of an address (32 in the code)
    Confs,      \* contents of the file of rules
    Requests,   \* requests of clients
    MaxRule,    \* rules that are kept
    MaxPiece,   \* bound: pieces an end sends
    Capacity    \* what a queue holds

Addresses == 0..2^Width - 1

(* A net is an address and the length of its prefix.                       *)
ASSUME SocksServerAssumption ==
    /\ Width \in Nat \ {0}
    /\ MaxRule \in Nat /\ MaxPiece \in Nat /\ Capacity \in Nat \ {0}
    /\ \A c \in Confs : DOMAIN c \subseteq Nat /\ IsFiniteSet(DOMAIN c)
    /\ \A c \in Confs : \A k \in DOMAIN c :
          c[k].first = "permit" =>
              /\ c[k].src.ip \in Addresses /\ c[k].src.len \in 0..Width
              /\ c[k].dst.ip \in Addresses /\ c[k].dst.len \in 0..Width
    /\ Requests \subseteq [vn : Nat, cd : Nat, src : Addresses, dst : Addresses,
                           sport : Nat, dport : Nat, named : BOOLEAN]

(* True of every Width.                                                    *)
ASSUME PowersAssumption == \A k \in 0..Width : 2^k \in Nat \ {0}

VARIABLES
    rules,      \* what is in the array of rules, read at the start
    conn,       \* the request; gone when the relay starts
    conf,       \* the file it was started with; likewise
    stage,      \* where main is
    replies,    \* the SOCKS replies sent to the client
    end,        \* end[e]: "open", "shut" (sends no more) or "closed"
    inq, outq,
    sent,       \* history: sent[e], how many pieces e has sent
    got,        \* history: got[e], the pieces e has received
    ready,      \* readfds after select
    pos,        \* where doRedirect is
    hold        \* buffer: the piece between its read and its write

relay == <<end, inq, outq, sent, got, ready, pos, hold>>
vars  == <<rules, conn, conf, stage, replies, relay>>

Ends == {"client", "server"}
Other(e) == IF e = "client" THEN "server" ELSE "client"
Piece(e, k) == [by |-> e, no |-> k]
NoPiece == Piece("nobody", 0)
Nothing == [cd |-> 0]

-----------------------------------------------------------------------------
(* The rules.                                                              *)

(* x & (0xffffffff << (32 - len)).  For len = 0 the shift is as long as    *)
(* the word, and the processor's shift leaves the word as it is.           *)
Masked(x, len) == IF len = 0 THEN x ELSE x - (x % 2^(Width - len))

(* "-" has the mask 0, which no length has.                                *)
Any == [ip |-> 0, len |-> 0, any |-> TRUE]
InNet(a, net) == net.any \/ Masked(a, net.len) = Masked(net.ip, net.len)

(* The lines that start with "permit", the first MaxRule of them.  In what *)
(* order the array holds them makes no difference to firewallAccessCheck.  *)
getFirewallRules(c) ==
    LET permits   == {k \in DOMAIN c : c[k].first = "permit"}
        Before(k) == {l \in permits : l < k}
    IN  {c[k] : k \in {l \in permits : Cardinality(Before(l)) < MaxRule}}

Mode(r) == IF r.cd = 1 THEN "c" ELSE "b"

(* (Changed by a mutation: the source's port is not compared.)             *)
Matches_any_port(rule, r) ==
    /\ rule.mode = Mode(r)
    /\ InNet(r.src, rule.src)
    /\ InNet(r.dst, rule.dst)
    /\ rule.dport \in {0, r.dport}

(* "-" in a column of ports is 0, and stands for every port.               *)
Matches(rule, r) ==
    /\ rule.mode = Mode(r)
    /\ InNet(r.src, rule.src)
    /\ rule.sport \in {0, r.sport}
    /\ InNet(r.dst, rule.dst)
    /\ rule.dport \in {0, r.dport}

firewallAccessCheck(r) == \E rule \in rules : Matches(rule, r)

-----------------------------------------------------------------------------
Init ==
    /\ conf \in Confs
    /\ rules = getFirewallRules(conf)
    /\ conn \in Requests
    /\ stage = "request"
    /\ replies = <<>>
    /\ end = [e \in Ends |-> "open"]
    /\ inq = [e \in Ends |-> <<>>]
    /\ outq = [e \in Ends |-> <<>>]
    /\ sent = [e \in Ends |-> 0]
    /\ got = [e \in Ends |-> <<>>]
    /\ ready = {}
    /\ pos = "select"
    /\ hold = NoPiece

Reply(code) == replies' = Append(replies, code)

(* The process ends, and its sockets with it.                              *)
Over == stage' = "over" /\ UNCHANGED <<rules, conn, conf, relay>>

(* handleSocksRequest: a request of another version ends the process.  A   *)
(* name that is not found leaves the address as it came.                   *)
Request ==
    /\ stage = "request"
    /\ IF conn.vn # 4
       THEN Over /\ UNCHANGED replies
       ELSE /\ stage' = "check"
            /\ conn' \in {conn} \union
                  {[conn EXCEPT !.dst = a] : a \in IF conn.named THEN Addresses ELSE {}}
            /\ UNCHANGED <<rules, conf, replies, relay>>

Refuse == Reply(91) /\ Over

CheckAccess ==
    /\ stage = "check"
    /\ IF firewallAccessCheck(conn) /\ conn.cd \in {1, 2}
       THEN /\ stage' = IF conn.cd = 1 THEN "connect" ELSE "bind"
            /\ UNCHANGED <<rules, conn, conf, replies, relay>>
       ELSE Refuse

StartRelay ==
    /\ stage' = "relay"
    /\ Reply(90)
    /\ conn' = Nothing /\ rules' = {} /\ conf' = <<>>
    /\ UNCHANGED relay

Connect ==
    /\ stage = "connect"
    /\ StartRelay \/ Refuse

(* passiveTCP.  getsockname fails when it has failed, and main returns     *)
(* without a reply.                                                        *)
Bind ==
    /\ stage = "bind"
    /\ \/ /\ stage' = "accept"
          /\ Reply(90)
          /\ UNCHANGED <<rules, conn, conf, relay>>
       \/ Over /\ UNCHANGED replies

AcceptServer == stage = "accept" /\ StartRelay

-----------------------------------------------------------------------------
(* doRedirect.                                                             *)

main == <<rules, conn, conf, replies>>
ends == <<end, sent, got>>

Readable(e) == inq[e] # <<>> \/ end[e] # "open"

(* (Changed by a mutation: readfds is not set again from allfds.)          *)
Select_stale_set ==
    /\ stage = "relay" /\ pos = "select"
    /\ LET R == {e \in Ends : Readable(e) /\ (ready # {} => e \in ready)}
       IN  R # {} /\ ready' = R
    /\ pos' = "client"
    /\ UNCHANGED <<main, stage, ends, inq, outq, hold>>

Select ==
    /\ stage = "relay" /\ pos = "select"
    /\ ready' = {e \in Ends : Readable(e)}
    /\ ready' # {}
    /\ pos' = "client"
    /\ UNCHANGED <<main, stage, ends, inq, outq, hold>>

After(e) == IF e = "client" THEN "server" ELSE "select"

Skip(e) ==
    /\ stage = "relay" /\ pos = e
    /\ e \notin ready
    /\ pos' = After(e)
    /\ UNCHANGED <<main, stage, ends, inq, outq, ready, hold>>

Turn(e) == stage = "relay" /\ pos = e /\ e \in ready

Read(e) ==
    /\ Turn(e)
    /\ inq[e] # <<>>
    /\ hold' = Head(inq[e])
    /\ inq' = [inq EXCEPT ![e] = Tail(@)]
    /\ pos' = "write"
    /\ UNCHANGED <<main, stage, ends, outq, ready>>

(* An end that has closed may reset the connection: read fails, what it    *)
(* had sent is gone, and the loop goes on.                                 *)
ReadFails(e) ==
    /\ Turn(e)
    /\ end[e] = "closed" /\ inq[e] # <<>>
    /\ inq' = [inq EXCEPT ![e] = <<>>]
    /\ pos' = After(e)
    /\ UNCHANGED <<main, stage, ends, outq, ready, hold>>

(* The process closes both sockets.  What it has not read of an end's data *)
(* may cost that end what has been written to it.                          *)
CloseBoth ==
    /\ stage' = "over"
    /\ inq' = [e \in Ends |-> <<>>]
    /\ \E kept \in SUBSET {e \in Ends : inq[e] # <<>>} :
          outq' = [e \in Ends |-> IF inq[e] = <<>> \/ e \in kept THEN outq[e] ELSE <<>>]
    /\ UNCHANGED <<main, ends, ready, pos, hold>>

ReadEnd(e) == Turn(e) /\ inq[e] = <<>> /\ CloseBoth

(* (Changed by mutations: the piece goes back to who sent it; the write    *)
(* does not wait.)                                                         *)
Write_back(e) ==
    /\ stage = "relay" /\ pos = "write" /\ hold.by = e
    /\ Len(outq[e]) < Capacity
    /\ outq' = [outq EXCEPT ![e] = Append(@, hold)]
    /\ hold' = NoPiece
    /\ pos' = After(e)
    /\ UNCHANGED <<main, stage, ends, inq, ready>>

Write_overflows(e) ==
    /\ stage = "relay" /\ pos = "write" /\ hold.by = e
    /\ outq' = [outq EXCEPT ![Other(e)] = Append(@, hold)]
    /\ hold' = NoPiece
    /\ pos' = After(e)
    /\ UNCHANGED <<main, stage, ends, inq, ready>>

(* write waits until there is room, and does not look at the other socket  *)
(* meanwhile.                                                              *)
Write(e) ==
    /\ stage = "relay" /\ pos = "write" /\ hold.by = e
    /\ end[Other(e)] # "closed"
    /\ Len(outq[Other(e)]) < Capacity
    /\ outq' = [outq EXCEPT ![Other(e)] = Append(@, hold)]
    /\ hold' = NoPiece
    /\ pos' = After(e)
    /\ UNCHANGED <<main, stage, ends, inq, ready>>

(* The first write to an end that has closed is lost, the next raises      *)
(* SIGPIPE, which ends the process.                                        *)
WriteToClosed(e) ==
    /\ stage = "relay" /\ pos = "write" /\ hold.by = e
    /\ end[Other(e)] = "closed"
    /\ \/ /\ hold' = NoPiece
          /\ pos' = After(e)
          /\ UNCHANGED <<main, stage, ends, inq, outq, ready>>
       \/ CloseBoth

-----------------------------------------------------------------------------
(* The client and the server.                                              *)

Send(e) ==
    /\ stage = "relay"
    /\ end[e] = "open"
    /\ sent[e] < MaxPiece
    /\ Len(inq[e]) < Capacity
    /\ sent' = [sent EXCEPT ![e] = @ + 1]
    /\ inq' = [inq EXCEPT ![e] = Append(@, Piece(e, sent[e] + 1))]
    /\ UNCHANGED <<main, stage, end, outq, got, ready, pos, hold>>

Receive(e) ==
    /\ end[e] # "closed"
    /\ outq[e] # <<>>
    /\ got' = [got EXCEPT ![e] = Append(@, Head(outq[e]))]
    /\ outq' = [outq EXCEPT ![e] = Tail(@)]
    /\ UNCHANGED <<main, stage, end, inq, sent, ready, pos, hold>>

Shut(e) ==
    /\ stage = "relay" /\ end[e] = "open"
    /\ end' = [end EXCEPT ![e] = "shut"]
    /\ UNCHANGED <<main, stage, inq, outq, sent, got, ready, pos, hold>>

Close(e) ==
    /\ stage = "relay" /\ end[e] # "closed"
    /\ end' = [end EXCEPT ![e] = "closed"]
    /\ outq' = [outq EXCEPT ![e] = <<>>]
    /\ UNCHANGED <<main, stage, inq, sent, got, ready, pos, hold>>

-----------------------------------------------------------------------------
Redirect ==
    \/ Select
    \/ \E e \in Ends : Skip(e) \/ Read(e) \/ ReadFails(e) \/ ReadEnd(e)
                          \/ Write(e) \/ WriteToClosed(e)

Server == Request \/ CheckAccess \/ Connect \/ Bind \/ AcceptServer \/ Redirect

Next ==
    \/ Server
    \/ \E e \in Ends : Send(e) \/ Receive(e) \/ Shut(e) \/ Close(e)

Spec == Init /\ [][Next]_vars

(* The process is scheduled, and the ends read what comes for them.        *)
FairSpec == Spec /\ WF_vars(Server) /\ \A e \in Ends : WF_vars(Receive(e))

-----------------------------------------------------------------------------
(* Properties.                                                             *)

Pieces == [by : Ends, no : 1..MaxPiece]

TypeOK ==
    /\ rules \in {getFirewallRules(conf), {}}
    /\ stage \in {"request", "check", "connect", "bind", "accept", "relay", "over"}
    /\ replies \in Seq({90, 91}) /\ Len(replies) <= 2
    /\ end \in [Ends -> {"open", "shut", "closed"}]
    /\ inq \in [Ends -> Seq(Pieces)] /\ outq \in [Ends -> Seq(Pieces)]
    /\ \A e \in Ends : Len(inq[e]) <= Capacity /\ Len(outq[e]) <= Capacity
    /\ sent \in [Ends -> 0..MaxPiece]
    /\ got \in [Ends -> Seq(Pieces)]
    /\ ready \subseteq Ends
    /\ pos \in Ends \union {"select", "write"}
    /\ hold \in Pieces \union {NoPiece}

(* The rules as socks.conf explains them: a line that starts with permit   *)
(* lets through what has its mode, whose addresses share the prefix of the *)
(* line's networks, and whose ports, the source's and the destination's,   *)
(* are the line's; everything else is refused, a mode that is neither      *)
(* connect nor bind included.                                              *)
SamePrefix(a, net) ==
    net.any \/ a \div 2^(Width - net.len) = net.ip \div 2^(Width - net.len)

Permits(c, r) ==
    \E k \in DOMAIN c :
        /\ c[k].first = "permit"
        /\ (r.cd = 1 /\ c[k].mode = "c") \/ (r.cd = 2 /\ c[k].mode = "b")
        /\ SamePrefix(r.src, c[k].src) /\ c[k].sport \in {0, r.sport}
        /\ SamePrefix(r.dst, c[k].dst) /\ c[k].dport \in {0, r.dport}

(* A file whose permit lines fit into the array and whose prefixes, where  *)
(* there are any, have at least one bit.                                   *)
Regular(c) ==
    LET permits == {k \in DOMAIN c : c[k].first = "permit"}
    IN  /\ Cardinality(permits) <= MaxRule
        /\ \A k \in permits : \A net \in {c[k].src, c[k].dst} : net.any \/ net.len # 0

(* A server is connected to, and a client is granted anything, only if the *)
(* file permits it; what a regular file permits, the firewall lets pass.   *)
GrantsPermitted ==
    [][/\ stage = "check" => /\ stage' # "over" => Permits(conf, conn)
                             /\ Regular(conf) /\ Permits(conf, conn) => stage' # "over"
       /\ Len(replies') > Len(replies) /\ replies'[Len(replies')] = 90
             => Permits(conf, conn)]_vars

(* Each end receives what the other has sent, in order and without gaps.   *)
STREAM == INSTANCE TwoWayStream WITH cut <- (stage = "over")
Relayed == STREAM!Spec

(* If nobody ends the connection, everything that is sent arrives, however *)
(* full the queues are in both directions.                                 *)
Delivered ==
    \A e \in Ends :
        [](end = [x \in Ends |-> "open"])
            => []<>(stage = "over" \/ Len(got[Other(e)]) = sent[e])

(* When either end has ended, both connections are closed at last.         *)
TornDown ==
    \A e \in Ends : stage = "relay" /\ end[e] # "open" ~> stage = "over"

(* The relay gets stuck neither while both ends are there nor after.       *)
NeverStuck == Delivered /\ TornDown
=============================================================================
