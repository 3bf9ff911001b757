------------------------------- MODULE SockOpt -------------------------------
(***************************************************************************)
(* rd_pico_setsockopt and rd_pico_getsockopt (src/libzt/attic/picoTCP.cpp) *)
(* as pure operators: given the level, the option name, whether vs->pcb  *)
(* is NULL and whether picoTCP's pico_socket_setoption / _getoption       *)
(* succeeds, the result of the call: what it returns, the errno it       *)
(* leaves, and which engine option (if any) it passed to picoTCP. Both    *)
(* functions clear errno first and start with err = -1. Option values   *)
(* are not modelled: no property depends on them.                         *)
(***************************************************************************)
EXTENDS Integers

Levels == {"SOL_SOCKET", "IPPROTO_IP", "IPPROTO_TCP", "IPPROTO_UDP"}

(* What a call returns: ret, errno, and the engine option it reached.     *)
OptResult == [ret : {-1, 0, 1}, errno : {"0", "ENOPROTOOPT"},
              eng : {"none", "LINGER", "SNDBUF", "RCVBUF", "MCAST_LOOP",
                     "MCAST_TTL", "NODELAY"}]

(* SOL_SOCKET options both functions refuse with ENOPROTOOPT. *)
SolUnsupported ==
  {"SO_DEBUG", "SO_REUSEADDR", "SO_KEEPALIVE", "SO_DONTROUTE", "SO_BROADCAST",
   "SO_OOBINLINE", "SO_STYLE", "SO_TYPE", "SO_ERROR"}

(* IPPROTO_IP options both functions refuse with ENOPROTOOPT. *)
IpUnsupported ==
  {"IP_ADD_MEMBERSHIP", "IP_ADD_SOURCE_MEMBERSHIP", "IP_BIND_ADDRESS_NO_PORT",
   "IP_BLOCK_SOURCE", "IP_DROP_MEMBERSHIP", "IP_DROP_SOURCE_MEMBERSHIP",
   "IP_FREEBIND", "IP_HDRINCL", "IP_MSFILTER", "IP_MTU", "IP_MTU_DISCOVER",
   "IP_MULTICAST_ALL", "IP_MULTICAST_IF", "IP_NODEFRAG", "IP_OPTIONS",
   "IP_PKTINFO", "IP_RECVOPTS", "IP_RECVORIGDSTADDR", "IP_RECVTOS",
   "IP_RECVTTL", "IP_RETOPTS", "IP_ROUTER_ALERT", "IP_TOS", "IP_TRANSPARENT",
   "IP_TTL", "IP_UNBLOCK_SOURCE"}

(* IPPROTO_TCP options both functions refuse with ENOPROTOOPT. *)
TcpUnsupported ==
  {"TCP_CORK", "TCP_DEFER_ACCEPT", "TCP_INFO", "TCP_KEEPCNT", "TCP_KEEPIDLE",
   "TCP_LINGER2", "TCP_MAXSEG", "TCP_QUICKACK", "TCP_SYNCNT",
   "TCP_WINDOW_CLAMP"}

(* A "TODO: errno = ENOPROTOOPT; return -1" branch. *)
Unsupported == [ret |-> -1, errno |-> "ENOPROTOOPT", eng |-> "none"]

(* Mutant of Unhandled: err starts at 0 instead of -1. *)
UnhandledZero == [ret |-> 0, errno |-> "0", eng |-> "none"]

(* A path that reaches return err (or a bare return -1) with err never    *)
(* assigned: -1, errno left at 0.                                          *)
Unhandled == [ret |-> -1, errno |-> "0", eng |-> "none"]

(* err = pico_socket_..option(ps, o, ...); return err: 0 or -1. *)
Forward(o, ok) == [ret |-> IF ok THEN 0 ELSE -1, errno |-> "0", eng |-> o]

(* err = pico_socket_setoption(ps, o, ...) < 0: err holds the comparison, *)
(* 1 on failure, and the err == PICO_ERR_EINVAL test never holds.         *)
ForwardAsBool(o, ok) == [ret |-> IF ok THEN 0 ELSE 1, errno |-> "0", eng |-> o]

(***************************************************************************)
(* rd_pico_setsockopt, one operator per level block.                       *)
(***************************************************************************)
SetSol(opt, ok) ==
  CASE opt \in SolUnsupported -> Unsupported
    [] opt = "SO_LINGER"      -> Forward("LINGER", ok)
    [] opt = "SO_SNDBUF"      -> ForwardAsBool("SNDBUF", ok)
    [] opt = "SO_RCVBUF"      -> ForwardAsBool("RCVBUF", ok)
    [] OTHER                  -> Unhandled

SetIp(opt, ok) ==
  CASE opt \in IpUnsupported       -> Unsupported
    [] opt = "IP_MULTICAST_LOOP"   -> ForwardAsBool("MCAST_LOOP", ok)
    [] opt = "IP_MULTICAST_TTL"    -> ForwardAsBool("MCAST_TTL", ok)
    [] OTHER                       -> Unhandled

(* The IPPROTO_TCP block returns -1 at once when ps is NULL; TCP_KEEPINTVL *)
(* returns -1 without setting errno.                                       *)
SetTcp(opt, psNull, ok) ==
  CASE psNull                   -> Unhandled
    [] opt \in TcpUnsupported   -> Unsupported
    [] opt = "TCP_KEEPINTVL"    -> Unhandled
    [] opt = "TCP_NODELAY"      -> ForwardAsBool("NODELAY", ok)
    [] OTHER                    -> Unhandled

Udp(opt) == IF opt = "UDP_CORK" THEN Unsupported ELSE Unhandled

SetSockOpt(level, opt, psNull, ok) ==
  CASE level = "SOL_SOCKET"  -> SetSol(opt, ok)
    [] level = "IPPROTO_IP"  -> SetIp(opt, ok)
    [] level = "IPPROTO_TCP" -> SetTcp(opt, psNull, ok)
    [] level = "IPPROTO_UDP" -> Udp(opt)
    [] OTHER                 -> Unhandled

(***************************************************************************)
(* rd_pico_getsockopt.                                                     *)
(***************************************************************************)

(* SO_SNDBUF and SO_RCVBUF fall out of the SOL_SOCKET block to return err;*)
(* SO_RCVBUF asks picoTCP for PICO_SOCKET_OPT_SNDBUF. SO_LINGER is refused.*)
GetSol(opt, ok) ==
  CASE opt \in SolUnsupported \cup {"SO_LINGER"} -> Unsupported
    [] opt = "SO_SNDBUF" -> Forward("SNDBUF", ok)
    [] opt = "SO_RCVBUF" -> Forward("SNDBUF", ok)
    [] OTHER             -> Unhandled

(* The multicast options read the engine and then fall through to the    *)
(* block's trailing return -1, whatever picoTCP answered.                 *)
GetIp(opt, ok) ==
  CASE opt \in IpUnsupported -> Unsupported
    [] opt = "IP_MULTICAST_LOOP" -> [Forward("MCAST_LOOP", ok) EXCEPT !.ret = -1]
    [] opt = "IP_MULTICAST_TTL"  -> [Forward("MCAST_TTL", ok) EXCEPT !.ret = -1]
    [] OTHER                     -> Unhandled

GetTcp(opt, psNull, ok) ==
  CASE psNull                 -> Unhandled
    [] opt \in TcpUnsupported -> Unsupported
    [] opt = "TCP_KEEPINTVL"  -> Unhandled
    [] opt = "TCP_NODELAY"    -> Forward("NODELAY", ok)
    [] OTHER                  -> Unhandled

GetSockOpt(level, opt, psNull, ok) ==
  CASE level = "SOL_SOCKET"  -> GetSol(opt, ok)
    [] level = "IPPROTO_IP"  -> GetIp(opt, ok)
    [] level = "IPPROTO_TCP" -> GetTcp(opt, psNull, ok)
    [] level = "IPPROTO_UDP" -> Udp(opt)
    [] OTHER                 -> Unhandled
=============================================================================
