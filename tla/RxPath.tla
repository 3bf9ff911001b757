------------------------------- MODULE RxPath -------------------------------
(***************************************************************************)
(* The receive path of one connected VirtualSocket                         *)
(* (src/libzt/attic/picoTCP.cpp). When picoTCP raises PICO_SOCK_EV_RD the *)
(* dispatcher calls rd_pico_cb_tcp_read for a SOCK_STREAM socket and      *)
(* rd_pico_cb_udp_read for a SOCK_DGRAM one; the type is fixed when the   *)
(* socket is opened, and the datagram path is the module DgramPath. For a *)
(* stream socket, rd_pico_cb_tcp_read under vs->_rx_m loops:               *)
(* pico_socket_recvfrom into vs->RXbuf, produce, streamSend to the        *)
(* application's end of the socket pair, consume what was sent, and set   *)
(* the multiplexer's writable-notify flag to whether RXbuf still holds    *)
(* bytes; it loops while the last recvfrom returned r > 0.                 *)
(*                                                                         *)
(* Bytes are counted, not named. One loop iteration is one step: the run  *)
(* loop runs the callback, and the application reads its socket from its  *)
(* own thread in between. What the multiplexer does with the flag          *)
(* (VirtualTap, not in this repository) follows spec.md 4.4: while it is  *)
(* set and the socket has room, it forwards RXbuf from the run loop.       *)
(***************************************************************************)
EXTENDS Integers

CONSTANTS
  RxBufSz,    \* ZT_TCP_RX_BUF_SZ
  RdMax,      \* ZT_STACK_SOCKET_RD_MAX, what recvfrom is asked for
  SockBufSz,  \* room of the application's end of the socket pair
  SegLens,    \* sizes of the peer's data arrivals
  MaxSegs,    \* bound on the number of arrivals
  Undef,      \* the value of r before it is first assigned
  LenFieldSz, StorageSz, DgLens, SendLens, SockBufBytes, MaxDgrams, MaxSends
              \* the constants of DgramPath

ASSUME RxBufSz \in Nat \ {0} /\ RdMax \in Nat \ {0} /\ SockBufSz \in Nat \ {0}
ASSUME SegLens \subseteq Nat \ {0} /\ MaxSegs \in Nat

VARIABLES
  engineQ,    \* bytes picoTCP holds for the socket
  rx,         \* vs->RXbuf->count()
  sockQ,      \* bytes in the socket pair, not yet read by the application
  appRead,    \* bytes the application has read
  arrived,    \* bytes the peer has sent
  segs,       \* arrivals so far
  notify,     \* the flag given to _phy.setNotifyWritable
  pc,         \* "idle", or "loop" while rd_pico_cb_tcp_read runs
  r,          \* the callback's local r
  stype,      \* vs->socket_type
  peerSent, sockRecs, appRecs, sends, engineOut, wret
              \* the variables of DgramPath

tcpVars == <<engineQ, rx, sockQ, appRead, arrived, segs, notify, pc, r>>

dgVars == <<peerSent, sockRecs, appRecs, sends, engineOut, wret>>

Dgram == INSTANCE DgramPath

vars == <<stype, tcpVars, dgVars>>

MaxBytes == MaxSegs * (CHOOSE m \in SegLens : \A l \in SegLens : l <= m)

TypeOK ==
  /\ engineQ \in 0..MaxBytes /\ rx \in 0..RxBufSz
  /\ sockQ \in 0..SockBufSz /\ appRead \in 0..MaxBytes
  /\ arrived \in 0..MaxBytes /\ segs \in 0..MaxSegs
  /\ notify \in BOOLEAN
  /\ pc \in {"idle", "loop"}
  /\ r \in 0..RdMax \cup {Undef}
  /\ stype \in {"SOCK_STREAM", "SOCK_DGRAM"}

Init ==
  /\ stype \in {"SOCK_STREAM", "SOCK_DGRAM"}
  /\ Dgram!Init
  /\ engineQ = 0 /\ rx = 0 /\ sockQ = 0 /\ appRead = 0
  /\ arrived = 0 /\ segs = 0
  /\ notify = FALSE
  /\ pc = "idle"
  /\ r = Undef

MinOf(a, b) == IF a <= b THEN a ELSE b

(* Data from the peer reaches the socket during pico_stack_tick, which    *)
(* raises PICO_SOCK_EV_RD: rd_pico_cb_tcp_read starts with r unassigned.  *)
PeerData(len) ==
  /\ pc = "idle"
  /\ segs < MaxSegs
  /\ engineQ' = engineQ + len
  /\ arrived' = arrived + len
  /\ segs' = segs + 1
  /\ pc' = "loop"
  /\ r' = Undef
  /\ UNCHANGED <<rx, sockQ, appRead, notify>>

(* consume(n) after streamSend: only what the socket took leaves RXbuf. *)
Consumed(got, n) == n

(* Mutant of Notify: setNotifyWritable(true) is never called. *)
NotifyClearOnly(count) == FALSE

(* setNotifyWritable(vs->sock, count != 0) after each receive. *)
Notify(count) == count # 0

(* Mutant of Produce: the count grows past the ring's size. *)
ProduceUnclamped(count, k) == count + k

(* produce(k): the ring's occupied region grows by at most getFree()      *)
(* bytes; begin, end and wrap (RingBuffer.h) cannot describe more than    *)
(* size bytes, and spec.md 4.1 keeps occupied + free = capacity.          *)
Produce(count, k) == MinOf(count + k, RxBufSz)

(* consume(k): never past the occupied region (spec.md 4.1). *)
ConsumeCount(count, k) == count - MinOf(k, count)

(***************************************************************************)
(* One pass of the do ... while (r > 0) loop. With room left (avail, which *)
(* is ZT_TCP_RX_BUF_SZ - count and is tested only for being nonzero),     *)
(* recvfrom is asked for ZT_STACK_SOCKET_RD_MAX bytes whatever the room,  *)
(* and returns what the engine has, up to that: those bytes have left     *)
(* picoTCP. A positive r is produced into RXbuf, which keeps at most its  *)
(* free room of them; streamSend passes r bytes on, what the socket took  *)
(* is consumed, and the flag is set from the count. With no room the pass *)
(* only logs, and r keeps the value of the previous pass; on the first    *)
(* pass it was never assigned, and the build may read any value there.    *)
(***************************************************************************)
RxIter ==
  /\ pc = "loop"
  /\ IF RxBufSz - rx # 0
     THEN LET got  == MinOf(RdMax, engineQ)
              held == IF got > 0 THEN Produce(rx, got) ELSE rx
              n    == IF got > 0 THEN MinOf(got, SockBufSz - sockQ) ELSE 0
              out  == IF got > 0 THEN Consumed(got, n) ELSE 0
          IN /\ r' = got
             /\ engineQ' = engineQ - got
             /\ rx' = ConsumeCount(held, out)
             /\ sockQ' = sockQ + n
             /\ notify' = Notify(ConsumeCount(held, out))
             /\ pc' = IF got > 0 THEN "loop" ELSE "idle"
     ELSE /\ \E v \in IF r = Undef THEN {0, 1} ELSE {r} :
               /\ r' = v
               /\ pc' = IF v > 0 THEN "loop" ELSE "idle"
          /\ UNCHANGED <<engineQ, rx, sockQ, notify>>
  /\ UNCHANGED <<appRead, arrived, segs>>

(* The application reads from its end of the socket pair. *)
AppRead ==
  /\ sockQ > 0
  /\ \E k \in 1..sockQ :
       /\ sockQ' = sockQ - k
       /\ appRead' = appRead + k
  /\ UNCHANGED <<engineQ, rx, arrived, segs, notify, pc, r>>

(* The multiplexer, between callbacks on the run loop, forwards RXbuf to  *)
(* the socket while the flag is set and clears the flag once it is empty. *)
Forward ==
  /\ pc = "idle"
  /\ notify
  /\ rx > 0 /\ sockQ < SockBufSz
  /\ LET n == MinOf(rx, SockBufSz - sockQ)
     IN /\ rx' = rx - n
        /\ sockQ' = sockQ + n
        /\ notify' = (rx - n # 0)
  /\ UNCHANGED <<engineQ, appRead, arrived, segs, pc, r>>

(* The PICO_SOCK_EV_RD branch of rd_pico_cb_socket_ev: the read callback *)
(* of the socket's type.                                                   *)
EvRd ==
  \/ /\ stype = "SOCK_STREAM"
     /\ \E len \in SegLens : PeerData(len)
     /\ UNCHANGED dgVars
  \/ /\ stype = "SOCK_DGRAM"
     /\ \E n \in DgLens : Dgram!UdpRead(n)
     /\ UNCHANGED tcpVars

(* rd_pico_write takes its SOCK_DGRAM branch only for a datagram socket. *)
DgramWrite ==
  /\ stype = "SOCK_DGRAM"
  /\ \E len \in SendLens : Dgram!AppSend(len)

(* A step of the stream path leaves the datagram path alone, and back. *)
TcpStep(A) == A /\ UNCHANGED <<stype, dgVars>>
DgramStep(A) == A /\ UNCHANGED <<stype, tcpVars>>

Next ==
  \/ EvRd /\ UNCHANGED stype
  \/ TcpStep(RxIter) \/ TcpStep(AppRead) \/ TcpStep(Forward)
  \/ DgramStep(DgramWrite) \/ DgramStep(Dgram!AppRecv)

(* The run loop keeps running the callback and the multiplexer, and the   *)
(* application keeps reading.                                              *)
Spec == Init /\ [][Next]_vars
        /\ WF_vars(TcpStep(RxIter)) /\ WF_vars(TcpStep(Forward)) /\ WF_vars(TcpStep(AppRead))

-----------------------------------------------------------------------------
(***************************************************************************)
(* Properties.                                                             *)
(***************************************************************************)

(* Between callbacks the writable-notify flag says whether RXbuf holds    *)
(* bytes still to forward (spec 8, backpressure toggling).                *)
NotifyTracksBacklog == pc = "idle" => (notify <=> rx > 0)

(* Every rd_pico_cb_tcp_read call returns to the run loop. *)
ReadCallbackReturns == (pc = "loop") ~> (pc = "idle")
=============================================================================
