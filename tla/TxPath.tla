------------------------------- MODULE TxPath -------------------------------
(***************************************************************************)
(* The transmit path of one connected SOCK_STREAM VirtualSocket           *)
(* (src/libzt/attic/picoTCP.cpp): bytes the application writes go through *)
(* rd_pico_write into vs->TXbuf and from there into pico_socket_write;    *)
(* when picoTCP signals PICO_SOCK_EV_WR the run loop calls                 *)
(* rd_pico_cb_tcp_write, which calls rd_pico_write(vs, NULL, count) to    *)
(* flush what is left in TXbuf.                                            *)
(*                                                                         *)
(* Both callers hold vs->_tx_m for the whole of rd_pico_write, so each     *)
(* call is one step. A byte is named <<w, i>>: the i-th byte of the w-th   *)
(* write call. The engine's send queue is abstracted to the number of      *)
(* bytes pico_socket_write accepts right now (room).                       *)
(***************************************************************************)
EXTENDS Integers, SequencesExt

CONSTANTS
  TxBufSz,      \* ZT_TCP_TX_BUF_SZ, the size of vs->TXbuf
  SdkMtu,       \* ZT_SDK_MTU
  WrMax,        \* ZT_STACK_SOCKET_WR_MAX
  WriteLens,    \* lengths of the application's writes
  MaxWrites,    \* bound on the number of write calls
  EngineRoom,   \* most bytes picoTCP's send queue takes at once
  Garbage,      \* a byte read from outside the caller's buffer
  GeneralFailure \* ZT_ERR_GENERAL_FAILURE

ASSUME TxBufSz \in Nat \ {0} /\ SdkMtu \in Nat \ {0} /\ WrMax \in Nat \ {0}
ASSUME WriteLens \subseteq Nat \ {0} /\ MaxWrites \in Nat /\ EngineRoom \in Nat

VARIABLES
  writes,     \* number of rd_pico_write calls with data made so far
  rejected,   \* write calls that returned ZT_ERR_GENERAL_FAILURE
  queued,     \* every byte that entered TXbuf, in the order it entered
  txbuf,      \* vs->TXbuf
  room,       \* bytes pico_socket_write would accept now
  engineGot,  \* bytes pico_socket_write took, in order
  ret,        \* what the last rd_pico_write call returned
  closed      \* ps->state & PICO_SOCKET_STATE_CLOSED

vars == <<writes, rejected, queued, txbuf, room, engineGot, ret, closed>>

Ring == INSTANCE RingBuffer WITH Size <- TxBufSz

Byte == ((1..MaxWrites) \X (1..Max(WriteLens))) \cup {Garbage}

TypeOK ==
  /\ writes \in 0..MaxWrites
  /\ rejected \subseteq 1..MaxWrites
  /\ queued \in Seq(Byte) /\ txbuf \in Seq(Byte) /\ engineGot \in Seq(Byte)
  /\ room \in 0..EngineRoom
  /\ ret \in {GeneralFailure} \cup -1..EngineRoom
  /\ closed \in BOOLEAN

Init ==
  /\ writes = 0
  /\ rejected = {}
  /\ queued = <<>>
  /\ txbuf = Ring!New
  /\ room = EngineRoom
  /\ engineGot = <<>>
  /\ ret = 0
  /\ closed = FALSE

(* The bytes of the w-th write call. *)
Chunk(w, len) == [i \in 1..len |-> <<w, i>>]

(* Mutant of Taken: max is not limited by what the engine accepts. *)
TakenUnbounded(src, n) ==
  [i \in 1..n |-> IF i <= Len(src) THEN src[i] ELSE Garbage]

(* pico_socket_write(ps, buf, n) with buf holding src: the engine copies  *)
(* min(n, room) bytes starting at buf; past the end of src it reads       *)
(* whatever memory follows. A NULL buf is refused (-1, nothing taken).    *)
Taken(src, n) ==
  [i \in 1..Min({n, room}) |-> IF i <= Len(src) THEN src[i] ELSE Garbage]

(* Mutant of HasRoom: the ZT_TCP_TX_BUF_SZ check is missing. *)
HasRoomUnchecked(len) == TRUE

(* The overflow check of rd_pico_write: original_txsz + len >= ZT_TCP_TX_BUF_SZ *)
(* rejects the write.                                                      *)
HasRoom(len) == ~(Ring!Count(txbuf) + len >= TxBufSz)

(* The early returns of rd_pico_write before the socket-type branches:    *)
(* ps == NULL, app_fd <= 0 and a CLOSED engine socket return -1 and touch  *)
(* nothing. The socket here has its pcb and its descriptor, so only the    *)
(* CLOSED test can fail.                                                   *)
Refused == closed

(***************************************************************************)
(* rd_pico_write(vs, data, len) for SOCK_STREAM with len > 0 and data set: *)
(* after the early returns, reject if TXbuf has no room; write data into  *)
(* TXbuf (a short write is                                                 *)
(* reported as a failure, the bytes stay); then pass                       *)
(* min(count, ZT_SDK_MTU, ZT_STACK_SOCKET_WR_MAX) bytes to                  *)
(* pico_socket_write, reading from src_buf = data, and consume what it     *)
(* took from the front of TXbuf.                                           *)
(***************************************************************************)
AppWrite(len) ==
  LET w     == writes + 1
      data  == Chunk(w, len)
      ring  == Ring!Write(txbuf, data)
      short == Len(ring) - Len(txbuf) # len
      sent  == Taken(data, Min({Ring!Count(ring), SdkMtu, WrMax}))
  IN /\ writes < MaxWrites
     /\ writes' = w
     /\ UNCHANGED closed
     /\ IF Refused
        THEN /\ ret' = -1
             /\ UNCHANGED <<rejected, queued, txbuf, room, engineGot>>
        ELSE IF ~HasRoom(len)
        THEN /\ rejected' = rejected \cup {w}
             /\ ret' = GeneralFailure
             /\ UNCHANGED <<queued, txbuf, room, engineGot>>
        ELSE /\ queued' = queued \o SubSeq(ring, Len(txbuf) + 1, Len(ring))
             /\ IF short
                THEN /\ rejected' = rejected \cup {w}
                     /\ txbuf' = ring
                     /\ ret' = GeneralFailure
                     /\ UNCHANGED <<room, engineGot>>
                ELSE /\ engineGot' = engineGot \o sent
                     /\ txbuf' = Ring!Consume(ring, Len(sent))
                     /\ room' = room - Len(sent)
                     /\ ret' = Len(sent)
                     /\ UNCHANGED rejected

(***************************************************************************)
(* PICO_SOCK_EV_WR: rd_pico_cb_tcp_write calls                             *)
(* rd_pico_write(vs, NULL, TXbuf->count()). With count = 0 the call takes  *)
(* the "len == 0 && data == NULL" branch and writes nothing. With count>0  *)
(* neither branch of the SOCK_STREAM case matches, src_buf stays NULL and  *)
(* pico_socket_write(ps, NULL, n) is refused and the call returns -1.     *)
(* TXbuf is left as it was either way.                                     *)
(***************************************************************************)
OnWritable ==
  /\ room > 0
  /\ ret' = IF ~Refused /\ Ring!Count(txbuf) = 0 THEN 0 ELSE -1
  /\ UNCHANGED <<writes, rejected, queued, txbuf, room, engineGot, closed>>

(* The engine transmits and frees part of its send queue. *)
EngineDrain ==
  /\ room < EngineRoom
  /\ \E r \in room + 1..EngineRoom : room' = r
  /\ UNCHANGED <<writes, rejected, queued, txbuf, engineGot, ret, closed>>

(* The peer's FIN: the dispatcher's PICO_SOCK_EV_CLOSE branch calls        *)
(* pico_socket_close, and the engine socket is CLOSED from then on.        *)
EngineClose ==
  /\ ~closed
  /\ closed' = TRUE
  /\ UNCHANGED <<writes, rejected, queued, txbuf, room, engineGot, ret>>

Next ==
  \/ \E len \in WriteLens : AppWrite(len)
  \/ OnWritable
  \/ EngineDrain
  \/ EngineClose

(* The run loop handles every writable event and the engine keeps sending. *)
Spec == Init /\ [][Next]_vars /\ WF_vars(EngineDrain) /\ WF_vars(OnWritable)

-----------------------------------------------------------------------------
(***************************************************************************)
(* Properties.                                                             *)
(***************************************************************************)

(* A write rd_pico_write reports as failed leaves none of its bytes in     *)
(* TXbuf to be sent later: the overflow check comes before the copy, so    *)
(* the "wrote only len" branch is never taken with bytes left behind.      *)
FailedWriteLeavesNothing ==
  \A i \in 1..Len(queued) : queued[i][1] \notin rejected

(* The engine receives the application's stream unchanged: what           *)
(* pico_socket_write took is a prefix of the bytes that entered TXbuf.     *)
StreamIntact == IsPrefix(engineGot, queued)

(* Bytes left in TXbuf are eventually handed to the engine, unless the   *)
(* engine socket is closed first.                                          *)
TxEventuallyDrains == (Len(txbuf) > 0) ~> (Len(txbuf) = 0 \/ closed)
=============================================================================
