---------------------------- MODULE TwoWayStream ----------------------------
(***************************************************************************)
(* What a relay between two ends promises: each end receives what the      *)
(* other has sent, in order and without gaps, up to some point.  Once the  *)
(* connection has been cut nothing more is accepted from either.           *)
(***************************************************************************)
EXTENDS Naturals, Sequences

CONSTANT Ends       \* the two ends

VARIABLES
    sent,       \* sent[e]: how many pieces e has sent
    got,        \* got[e]: the pieces e has received, each with its sender
    cut         \* the connection is over

vars == <<sent, got, cut>>

Piece(e, k) == [by |-> e, no |-> k]

Init ==
    /\ sent = [e \in Ends |-> 0]
    /\ got = [e \in Ends |-> <<>>]
    /\ cut = FALSE

Send(e) ==
    /\ ~cut
    /\ sent' = [sent EXCEPT ![e] = @ + 1]
    /\ UNCHANGED <<got, cut>>

Receive(e, from) ==
    /\ e # from
    /\ Len(got[e]) < sent[from]
    /\ got' = [got EXCEPT ![e] = Append(@, Piece(from, Len(@) + 1))]
    /\ UNCHANGED <<sent, cut>>

Cut == ~cut /\ cut' = TRUE /\ UNCHANGED <<sent, got>>

Next ==
    \/ \E e \in Ends : Send(e)
    \/ \E e, from \in Ends : Receive(e, from)
    \/ Cut

Spec == Init /\ [][Next]_vars
=============================================================================
