\* A write that follows a partially sent one: the engine is handed the
\* new bytes first, and bytes past the caller's buffer.
CONSTANTS
  TxBufSz = 4
  SdkMtu = 3
  WrMax = 3
  WriteLens <- MCWriteLens
  MaxWrites = 3
  EngineRoom = 1
  Garbage = Garbage
  GeneralFailure = GeneralFailure
SPECIFICATION Spec

INVARIANT StreamIntact
