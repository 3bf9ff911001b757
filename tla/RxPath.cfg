\* The receive path of one socket, stream or datagram. Stream: RXbuf of 3
\* bytes, recvfrom asked for 2, a socket pair that holds 1 byte, and three
\* arrivals of 2 or 4 bytes. Datagram: three datagrams of 0 or 4 bytes
\* against a socket pair that holds two records, so the third is dropped.
CONSTANTS
  RxBufSz = 3
  RdMax = 2
  SockBufSz = 1
  SegLens <- MCSegLens
  MaxSegs = 3
  Undef = Undef
  LenFieldSz = 4
  StorageSz = 128
  DgLens <- MCDgLens
  SendLens <- MCSendLens
  SockBufBytes = 280
  MaxDgrams = 3
  MaxSends = 2
SPECIFICATION Spec
INVARIANT TypeOK NotifyTracksBacklog
\* Once the peer has sent MaxSegs arrivals and the application has read
\* them all, the connection is idle and nothing is left to do.
CHECK_DEADLOCK FALSE
