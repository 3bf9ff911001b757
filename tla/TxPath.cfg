\* Three writes of 1 or 2 bytes against a 4-byte ring and an engine that
\* takes at most 2 bytes: writes are rejected at the ring's edge and the
\* engine takes partial writes.
CONSTANTS
  TxBufSz = 4
  SdkMtu = 3
  WrMax = 3
  WriteLens <- MCWriteLens
  MaxWrites = 3
  EngineRoom = 1
  Garbage = Garbage
  GeneralFailure = GeneralFailure
SPECIFICATION Spec
INVARIANT TypeOK
INVARIANT FailedWriteLeavesNothing
