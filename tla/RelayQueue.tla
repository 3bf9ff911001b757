----------------------------- MODULE RelayQueue -----------------------------
(***************************************************************************)
(* What the frame relay between the virtual wire and the protocol engine  *)
(* promises (spec.md 4.5): frames arrive one at a time and leave in the   *)
(* order they arrived, each exactly once, and none is held back forever.  *)
(* Frames are named by their arrival number.                              *)
(***************************************************************************)
EXTENDS Naturals, Sequences

CONSTANT MaxFrames

VARIABLES
  arrived,    \* number of frames handed to the relay so far
  queue,      \* frames held by the relay, oldest first
  delivered   \* frames handed on to the engine, in order

vars == <<arrived, queue, delivered>>

Init ==
  /\ arrived = 0
  /\ queue = <<>>
  /\ delivered = <<>>

Arrive ==
  /\ arrived < MaxFrames
  /\ arrived' = arrived + 1
  /\ queue' = Append(queue, arrived + 1)
  /\ UNCHANGED delivered

(* Hand on the k oldest frames at once. *)
Deliver ==
  \E k \in 1..Len(queue) :
    /\ delivered' = delivered \o SubSeq(queue, 1, k)
    /\ queue' = SubSeq(queue, k + 1, Len(queue))
    /\ UNCHANGED arrived

Next == Arrive \/ Deliver

Spec == Init /\ [][Next]_vars /\ WF_vars(Deliver)
=============================================================================
