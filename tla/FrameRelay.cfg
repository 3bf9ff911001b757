\* Four frames of up to 46 bytes fit pico_frame_rxbuf exactly: the relay
\* reaches a full buffer but does not overrun it.
CONSTANTS
  LenFieldSz = 4
  EthHdrSz = 14
  FrameBufSz = 184
  PayloadLens <- MCPayloadLens
  MaxLoopScore = 2
  MaxFrames = 4
SPECIFICATION Spec
INVARIANT TypeOK
INVARIANT TotMatchesQueue
INVARIANT FramesIntact
PROPERTY ImplementsRelayQueue
