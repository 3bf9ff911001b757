\* pico_frame_rxbuf holds fewer bytes than the wire can deliver before the
\* run loop polls: rd_pico_eth_rx writes past its end.
CONSTANTS
  LenFieldSz = 4
  EthHdrSz = 14
  FrameBufSz = 100
  PayloadLens <- MCPayloadLens
  MaxLoopScore = 2
  MaxFrames = 4
SPECIFICATION Spec
INVARIANT WithinFrameBuf
