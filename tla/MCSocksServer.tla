---------------------------- MODULE MCSocksServer ----------------------------
(* SocksServer with addresses of three bits, files of two lines at most,    *)
(* and some with an empty prefix or with more lines than the array holds.   *)
EXTENDS SocksServer

Net(a, l) == [ip |-> a, len |-> l, any |-> FALSE]

(* Every column with and without a restriction; where the line asks for a   *)
(* port of the source, both ports vary and the networks less.               *)
PermitLines ==
    [first : {"permit"}, mode : {"c", "b"}, src : {Any, Net(5, 2)}, sport : {0},
     dst : {Any, Net(4, 1), Net(5, 3)}, dport : {0, 80}]
      \union
    [first : {"permit"}, mode : {"c"}, src : {Any, Net(5, 2)}, sport : {1024},
     dst : {Net(4, 1)}, dport : {0, 80}]
OtherLines == [first : {"#permit"}]

EmptyPrefixes ==
    [first : {"permit"}, mode : {"c"}, src : {Any, Net(1, 0)}, sport : {0},
     dst : {Net(4, 0)}, dport : {0}]

Filler == [first |-> "permit", mode |-> "b", src |-> Any, sport |-> 0,
           dst |-> Net(5, 3), dport |-> 80]

MCConfs ==
    UNION {[1..n -> PermitLines \union OtherLines] : n \in 0..2}
      \union [1..1 -> EmptyPrefixes]
      \union {<<Filler, Filler, line>> : line \in PermitLines}

MCRequests ==
    [vn : {4}, cd : 1..3, src : {1, 4}, sport : {1024, 1025}, dst : {1, 4, 5},
     dport : {80, 81}, named : {FALSE}]
      \union
    [vn : {4, 5}, cd : {1}, src : {4}, sport : {1024}, dst : {0}, dport : {80}, named : {TRUE}]
=============================================================================
