\* Every call of the read callback returns to the run loop.
CONSTANTS
  RxBufSz = 3
  RdMax = 2
  SockBufSz = 1
  SegLens <- MCSegLens
  MaxSegs = 3
  Undef = Undef
  LenFieldSz = 4
  StorageSz = 128
  DgLens <- MCDgLens
  SendLens <- MCSendLens
  SockBufBytes = 280
  MaxDgrams = 3
  MaxSends = 2
SPECIFICATION Spec
PROPERTY ReadCallbackReturns
\* Once the peer has sent MaxSegs arrivals and the application has read
\* them all, the connection is idle and nothing is left to do.
CHECK_DEADLOCK FALSE
