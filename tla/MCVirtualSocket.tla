--------------------------- MODULE MCVirtualSocket ---------------------------
EXTENDS VirtualSocket, TLC

CONSTANTS a1, a2, c1, c2, p1, p2, p3, p4

MCApps == {a1, a2}
MCChildren == {c1, c2}
MCPSocks == {p1, p2, p3, p4}

(* One option call of each kind the two functions tell apart: refused    *)
(* with ENOPROTOOPT, forwarded with the engine's result, forwarded as a   *)
(* comparison, read and then answered -1, needing a pcb, and unlisted.    *)
MCOptCalls ==
  {<<"SOL_SOCKET", "SO_DEBUG">>, <<"SOL_SOCKET", "SO_LINGER">>,
   <<"SOL_SOCKET", "SO_RCVBUF">>, <<"SOL_SOCKET", "SO_PEERCRED">>,
   <<"IPPROTO_IP", "IP_MULTICAST_TTL">>, <<"IPPROTO_TCP", "TCP_NODELAY">>}

(* Children, and engine sockets, are interchangeable. *)
Symm == Permutations(MCChildren) \cup Permutations(MCPSocks)
=============================================================================
