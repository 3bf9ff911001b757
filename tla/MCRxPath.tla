------------------------------ MODULE MCRxPath ------------------------------
EXTENDS RxPath

MCSegLens == {2, 4}

(* An empty datagram and a 4-byte one; a write of 0 bytes and one of 4. *)
MCDgLens == {0, 4}
MCSendLens == {0, 4}
=============================================================================
