----------------------------- MODULE RingBuffer -----------------------------
(***************************************************************************)
(* The byte ring of src/libzt/include/RingBuffer.h, as a sequence of the  *)
(* bytes it holds, oldest first. The header declares the operations; the  *)
(* implementation file is not part of this repository, so their meaning   *)
(* is the one spec.md 4.1 gives: write copies at most getFree() bytes and *)
(* returns how many it copied, consume drops bytes from the front, count  *)
(* and getFree report occupancy.                                          *)
(***************************************************************************)
EXTENDS Naturals, Sequences

CONSTANT Size   \* the size passed to RingBuffer(size_t size)

(* RingBuffer(size): begin = end = 0 and wrap = false, an empty ring. *)
New == <<>>

Count(ring) == Len(ring)

GetFree(ring) == Size - Len(ring)

(* write(data, n): the ring after copying the first min(n, getFree())     *)
(* bytes of data.                                                          *)
Write(ring, data) ==
  ring \o SubSeq(data, 1, IF Len(data) <= GetFree(ring) THEN Len(data) ELSE GetFree(ring))

(* consume(n): the ring with its n oldest bytes dropped. *)
Consume(ring, n) == SubSeq(ring, n + 1, Len(ring))
=============================================================================
