---------------------------- MODULE MCFrameRelay ----------------------------
(* Model-checking instance of FrameRelay: sizes keep the real int32 prefix *)
(* and Ethernet header; payloads are an empty and a 28-byte frame.        *)
EXTENDS FrameRelay

MCPayloadLens == {0, 28}
=============================================================================
