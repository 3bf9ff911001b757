\* Bytes left in TXbuf after the application stops writing: the writable
\* callback never flushes them.
CONSTANTS
  TxBufSz = 4
  SdkMtu = 3
  WrMax = 3
  WriteLens <- MCWriteLens
  MaxWrites = 3
  EngineRoom = 1
  Garbage = Garbage
  GeneralFailure = GeneralFailure
SPECIFICATION Spec

PROPERTY TxEventuallyDrains
