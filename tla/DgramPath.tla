------------------------------ MODULE DgramPath ------------------------------
(***************************************************************************)
(* The datagram path of one SOCK_DGRAM VirtualSocket                        *)
(* (src/libzt/attic/picoTCP.cpp).                                           *)
(*                                                                         *)
(* Outbound, rd_pico_write (application thread, under vs->_tx_m) passes    *)
(* each call's buffer to pico_socket_write as one datagram; there is no     *)
(* TX ring on this branch.                                                  *)
(*                                                                         *)
(* Inbound, picoTCP raises PICO_SOCK_EV_RD once per datagram it queues for  *)
(* the socket, during pico_stack_tick on the run loop, and the dispatcher   *)
(* calls rd_pico_cb_udp_read. Under vs->_rx_m that reads one datagram with *)
(* pico_socket_recvfrom, builds the record [int32 len | sockaddr_storage |  *)
(* payload] in udp_msg_buf and writes it to vs->sdk_fd, the driver's end of *)
(* the socket pair; a failed write is only logged. Arrival and callback are *)
(* one step. The AF_INET and AF_INET6 blocks differ only in the address     *)
(* they copy, and addresses are abstracted away: a datagram is its payload  *)
(* length, named by its position in the peer's sequence.                    *)
(*                                                                         *)
(* The socket pair takes a record whole or not at all: the behaviour of a  *)
(* datagram socket pair and of a blocking stream one. Its type is set in    *)
(* VirtualSocket.cpp, which is not in this repository.                      *)
(***************************************************************************)
EXTENDS Integers, SequencesExt

CONSTANTS
  LenFieldSz,   \* sizeof(int32_t), the record's length prefix
  StorageSz,    \* sizeof(struct sockaddr_storage)
  DgLens,       \* payload lengths of the peer's datagrams
  SendLens,     \* len arguments of the application's writes
  SockBufBytes, \* bytes the socket pair holds before write() fails
  MaxDgrams,    \* bound on the peer's datagrams
  MaxSends      \* bound on the application's write calls

ASSUME LenFieldSz \in Nat /\ StorageSz \in Nat /\ SockBufBytes \in Nat
ASSUME DgLens \subseteq Nat /\ SendLens \subseteq Int
ASSUME MaxDgrams \in Nat /\ MaxSends \in Nat

VARIABLES
  peerSent,   \* payload length of every datagram the peer sent, by id
  sockRecs,   \* records in the socket pair, oldest first: [len, id]
  appRecs,    \* records the application has read
  sends,      \* len argument of every rd_pico_write call, by call
  engineOut,  \* datagrams pico_socket_write took: [call, len]
  wret        \* what the last rd_pico_write call returned

dgVars == <<peerSent, sockRecs, appRecs, sends, engineOut, wret>>

Init ==
  /\ peerSent = <<>>
  /\ sockRecs = <<>>
  /\ appRecs = <<>>
  /\ sends = <<>>
  /\ engineOut = <<>>
  /\ wret = 0

(* int32_t len = sizeof(struct sockaddr_storage) + r: the record's length *)
(* prefix, covering the address block and the payload.                    *)
RecordLen(r) == StorageSz + r

(* tot_len = sizeof(int32_t) + len: the bytes write() is asked to send. *)
TotLen(rec) == LenFieldSz + rec.len

(* Bytes the records occupy in the socket pair. *)
Queued(recs) == FoldLeft(LAMBDA acc, rec : acc + TotLen(rec), 0, recs)

(***************************************************************************)
(* A datagram of n bytes arrives and rd_pico_cb_udp_read runs: recvfrom    *)
(* returns r = n (ZT_SDK_MTU is asked for, and a datagram on the tap is    *)
(* never longer), the record is built and written to sdk_fd. When the     *)
(* socket pair lacks room for tot_len bytes, write() returns -1, which is  *)
(* logged, and the datagram is gone.                                       *)
(***************************************************************************)
UdpRead(n) ==
  LET rec == [len |-> RecordLen(n), id |-> Len(peerSent) + 1]
  IN /\ Len(peerSent) < MaxDgrams
     /\ peerSent' = Append(peerSent, n)
     /\ sockRecs' = IF Queued(sockRecs) + TotLen(rec) <= SockBufBytes
                    THEN Append(sockRecs, rec) ELSE sockRecs
     /\ UNCHANGED <<appRecs, sends, engineOut, wret>>

(* The application's receive call takes the oldest record from its end   *)
(* of the socket pair (libzt's reader, which is not in this repository,   *)
(* parses the prefix and reads len bytes: spec.md 4.4 and 5).             *)
AppRecv ==
  /\ sockRecs # <<>>
  /\ appRecs' = Append(appRecs, Head(sockRecs))
  /\ sockRecs' = Tail(sockRecs)
  /\ UNCHANGED <<peerSent, sends, engineOut, wret>>

(***************************************************************************)
(* rd_pico_write(vs, data, len) for SOCK_DGRAM: len <= 0 returns -1;       *)
(* otherwise pico_socket_write(ps, data, len) is called once, and the call *)
(* returns what it returned (the whole datagram) or -1 when it failed.     *)
(***************************************************************************)
AppSend(len) ==
  /\ Len(sends) < MaxSends
  /\ sends' = Append(sends, len)
  /\ \/ /\ len <= 0
        /\ wret' = -1
        /\ UNCHANGED engineOut
     \/ /\ len > 0
        /\ engineOut' = Append(engineOut, [call |-> Len(sends) + 1, len |-> len])
        /\ wret' = len
     \/ /\ len > 0
        /\ wret' = -1
        /\ UNCHANGED engineOut
  /\ UNCHANGED <<peerSent, sockRecs, appRecs>>

Next ==
  \/ \E n \in DgLens : UdpRead(n)
  \/ AppRecv
  \/ \E len \in SendLens : AppSend(len)

Spec == Init /\ [][Next]_dgVars

=============================================================================
