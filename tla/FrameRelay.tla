----------------------------- MODULE FrameRelay -----------------------------
(***************************************************************************)
(* The hand-off of Ethernet frames from the ZeroTier virtual wire to the   *)
(* picoTCP stack (src/libzt/attic/picoTCP.cpp).                            *)
(*                                                                         *)
(* rd_pico_eth_rx runs on the thread that delivers frames from the wire.   *)
(* Under tap->_pico_frame_rxbuf_m it builds a synthetic Ethernet header    *)
(* and appends the record [int32 msg_len | eth header | payload] to the    *)
(* flat array tap->pico_frame_rxbuf at offset pico_frame_rxbuf_tot.        *)
(*                                                                         *)
(* rd_pico_eth_poll is picoTCP's device poll, called by pico_stack_tick   *)
(* from the run loop rd_pico_loop. Under the same mutex it pops up to      *)
(* loop_score whole records from the front, shifts the array left and     *)
(* feeds each frame to pico_stack_recv.                                    *)
(*                                                                         *)
(* Both handlers hold the mutex for their whole body, so each is one       *)
(* atomic step here. A record is kept as [id, msglen]: the frame's         *)
(* identity and the int32 length prefix written in front of it; the bytes *)
(* of MACs, ethertype and payload are abstracted to the payload length.    *)
(***************************************************************************)
EXTENDS Integers, Sequences, SequencesExt

CONSTANTS
  LenFieldSz,     \* sizeof(int32_t), the length prefix of a record
  EthHdrSz,       \* sizeof(struct pico_eth_hdr)
  FrameBufSz,     \* MAX_PICO_FRAME_RX_BUF_SZ, the size of pico_frame_rxbuf
  PayloadLens,    \* payload lengths the virtual wire may deliver
  MaxLoopScore,   \* largest loop_score pico_stack_tick passes to the poll
  MaxFrames       \* bound on the number of frames the wire delivers

ASSUME LenFieldSz \in Nat \ {0} /\ EthHdrSz \in Nat /\ FrameBufSz \in Nat
ASSUME PayloadLens \subseteq Nat /\ MaxLoopScore \in Nat \ {0}
ASSUME MaxFrames \in Nat

VARIABLES
  wire,       \* payload length of every frame the wire handed over, by id
  rxbuf,      \* records in tap->pico_frame_rxbuf, front first
  rxtot,      \* tap->pico_frame_rxbuf_tot
  stackIn     \* frames passed to pico_stack_recv, as [id, len]

vars == <<wire, rxbuf, rxtot, stackIn>>

Record == [id : 1..MaxFrames, msglen : Int]

TypeOK ==
  /\ wire \in Seq(PayloadLens) /\ Len(wire) <= MaxFrames
  /\ rxbuf \in Seq(Record)
  /\ rxtot \in Nat
  /\ stackIn \in Seq([id : 1..MaxFrames, len : Nat])

(* The int32 written in front of a frame: payload, header and the prefix  *)
(* itself (msg_len = len + sizeof(int32_t) + sizeof(struct pico_eth_hdr)). *)
MsgLen(len) == len + LenFieldSz + EthHdrSz

Init ==
  /\ wire = <<>>
  /\ rxbuf = <<>>
  /\ rxtot = 0
  /\ stackIn = <<>>

(***************************************************************************)
(* rd_pico_eth_rx: copy the record to offset rxtot and advance rxtot. There *)
(* is no check against FrameBufSz: a record past the end is written into   *)
(* whatever follows the array.                                             *)
(***************************************************************************)
EthRx(len) ==
  /\ Len(wire) < MaxFrames
  /\ wire' = Append(wire, len)
  /\ rxbuf' = Append(rxbuf, [id |-> Len(wire) + 1, msglen |-> MsgLen(len)])
  /\ rxtot' = rxtot + MsgLen(len)
  /\ UNCHANGED stackIn

(* The length prefix the poll reads at the front of the array. With       *)
(* rxtot > 0 and no record left the bytes there are stale; they are taken *)
(* as an invalid length.                                                   *)
FrontLen(buf) == IF buf = <<>> THEN 0 ELSE Head(buf).msglen

(***************************************************************************)
(* Mutant of PollLoop: the loop stops while one record is still queued.   *)
(***************************************************************************)
RECURSIVE PollLoopKeepsLast(_, _, _, _)
PollLoopKeepsLast(buf, tot, out, score) ==
  IF tot > FrontLen(buf) /\ score > 0
  THEN IF FrontLen(buf) > LenFieldSz
       THEN PollLoopKeepsLast(Tail(buf), tot - FrontLen(buf),
              Append(out, [id |-> Head(buf).id, len |-> FrontLen(buf) - LenFieldSz]),
              score - 1)
       ELSE PollLoopKeepsLast(buf, tot, out, score - 1)
  ELSE <<buf, tot, out>>

(* Mutant of PollLoop: the record is handed to the stack but not shifted  *)
(* out of the array.                                                       *)
RECURSIVE PollLoopNoShift(_, _, _, _)
PollLoopNoShift(buf, tot, out, score) ==
  IF tot > 0 /\ score > 0
  THEN IF FrontLen(buf) > LenFieldSz
       THEN PollLoopNoShift(buf, tot - FrontLen(buf),
              Append(out, [id |-> Head(buf).id, len |-> FrontLen(buf) - LenFieldSz]),
              score - 1)
       ELSE PollLoopNoShift(buf, tot, out, score - 1)
  ELSE <<buf, tot, out>>

(* Mutant of PollLoop: rxtot is not decreased after a record is consumed. *)
RECURSIVE PollLoopKeepsTot(_, _, _, _)
PollLoopKeepsTot(buf, tot, out, score) ==
  IF tot > 0 /\ score > 0
  THEN IF FrontLen(buf) > LenFieldSz
       THEN PollLoopKeepsTot(Tail(buf), tot,
              Append(out, [id |-> Head(buf).id, len |-> FrontLen(buf) - LenFieldSz]),
              score - 1)
       ELSE PollLoopKeepsTot(buf, tot, out, score - 1)
  ELSE <<buf, tot, out>>

(* Mutant of PollLoop: the length prefix is passed on with the frame.     *)
RECURSIVE PollLoopWithPrefix(_, _, _, _)
PollLoopWithPrefix(buf, tot, out, score) ==
  IF tot > 0 /\ score > 0
  THEN IF FrontLen(buf) > LenFieldSz
       THEN PollLoopWithPrefix(Tail(buf), tot - FrontLen(buf),
              Append(out, [id |-> Head(buf).id, len |-> FrontLen(buf)]),
              score - 1)
       ELSE PollLoopWithPrefix(buf, tot, out, score - 1)
  ELSE <<buf, tot, out>>

(***************************************************************************)
(* The while loop of rd_pico_eth_poll: while rxtot > 0 and loop_score > 0, *)
(* read the length prefix; a plausible one (> sizeof(int32_t)) hands       *)
(* len - sizeof(int32_t) bytes to pico_stack_recv, shifts the array left   *)
(* by len and subtracts len from rxtot; an implausible one is only logged. *)
(* Either way loop_score is decremented. Returns <<buf, tot, out>>.        *)
(***************************************************************************)
RECURSIVE PollLoop(_, _, _, _)
PollLoop(buf, tot, out, score) ==
  IF tot > 0 /\ score > 0
  THEN IF FrontLen(buf) > LenFieldSz
       THEN PollLoop(Tail(buf), tot - FrontLen(buf),
              Append(out, [id |-> Head(buf).id, len |-> FrontLen(buf) - LenFieldSz]),
              score - 1)
       ELSE PollLoop(buf, tot, out, score - 1)
  ELSE <<buf, tot, out>>

(***************************************************************************)
(* One pass of rd_pico_loop: _phy.poll, then pico_stack_tick, which polls  *)
(* the device through rd_pico_eth_poll with some loop_score, then          *)
(* Housekeeping (which touches none of this state).                        *)
(***************************************************************************)
Tick ==
  \E score \in 1..MaxLoopScore :
    LET r == PollLoop(rxbuf, rxtot, stackIn, score)
    IN /\ rxbuf' = r[1]
       /\ rxtot' = r[2]
       /\ stackIn' = r[3]
       /\ UNCHANGED wire

Next ==
  \/ \E len \in PayloadLens : EthRx(len)
  \/ Tick

(* The run loop spins for as long as the tap runs: the poll is weakly fair. *)
Spec == Init /\ [][Next]_vars /\ WF_vars(Tick)

-----------------------------------------------------------------------------
(***************************************************************************)
(* Properties.                                                             *)
(***************************************************************************)

(* The bytes pico_frame_rxbuf_tot counts are exactly the records queued:  *)
(* the counter the poll loop tests and the array it shifts never drift     *)
(* apart across interleaved appends and partial polls.                     *)
TotMatchesQueue ==
  rxtot = FoldLeft(LAMBDA acc, r : acc + r.msglen, 0, rxbuf)

(* The append in rd_pico_eth_rx never runs past the end of the array.     *)
WithinFrameBuf == rxtot <= FrameBufSz

(* Every frame the stack receives is the synthetic Ethernet header plus   *)
(* the payload the wire delivered: no length prefix, nothing cut off.      *)
FramesIntact ==
  \A i \in 1..Len(stackIn) : stackIn[i].len = EthHdrSz + wire[stackIn[i].id]

(* The relay implements the FIFO queue of RelayQueue: the stack gets the  *)
(* frames the wire delivered, in order, without loss or duplication, and  *)
(* every frame the wire delivers eventually reaches the stack.            *)
Ids(s) == [i \in 1..Len(s) |-> s[i].id]
Abstract == INSTANCE RelayQueue WITH
  arrived <- Len(wire), queue <- Ids(rxbuf), delivered <- Ids(stackIn)
ImplementsRelayQueue == Abstract!Spec
=============================================================================
