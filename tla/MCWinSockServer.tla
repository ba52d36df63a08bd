-------------------------- MODULE MCWinSockServer ---------------------------
(* WinSockServer with browsers, and numbers of sockets, that nothing tells   *)
(* apart.                                                                   *)
EXTENDS WinSockServer, TLC

Page(p, h) == [path |-> p, hosts |-> h]

MCQueries ==
    {Page("form_get.htm", <<"none", "none">>), Page("other", <<"none", "none">>)}
    \union {Page("hw3.cgi", h) : h \in {<<"none", "none">>, <<"on", "none">>, <<"on", "on">>, <<"refused", "on">>}}

Symmetry == Permutations(Browsers) \union Permutations(Socks)
=============================================================================
